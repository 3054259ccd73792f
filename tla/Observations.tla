---------------------------- MODULE Observations ----------------------------
(***************************************************************************)
(* What happens to one received frame, without the state around it:       *)
(* parsing (collection/frame_parser.py), the row Collection stores of it   *)
(* (collection/collector.py), validation and pseudonymisation (ingestion/) *)
(* and the checks and the normalisation of Processing (processing/quality, *)
(* zones, normalization).                                                  *)
(*                                                                         *)
(* A frame is what the capture library hands over.  Encryption text is the *)
(* set of words the code looks for in it; a coordinate pair is a number    *)
(* that keeps the order of the pairs.                                      *)
(***************************************************************************)
EXTENDS Integers, FiniteSets

CONSTANTS
    None,       \* Python's None
    Zones,      \* IDs of the approved zones
    Covers,     \* Covers[place]: the zones whose geometry covers the place
    NetworkOf,  \* NetworkOf[bssid]: its pseudonym, the HMAC of the text
                \* without surrounding blanks and in lower case
    MaxAccuracy \* the GPS policy of the round, for Collection and Processing

Places == DOMAIN Covers
Bssids == DOMAIN NetworkOf

Words == {"802.1X", "ENTERPRISE", "EAP", "WPA3", "WPA2", "RSN", "WPA", "WEP", "OPEN", "other"}
Bands == {"2.4GHz", "5GHz", "6GHz"}
Categories == {"OPEN", "OUTDATED", "WPA2", "WPA2_OR_WPA3", "WPA3", "ENTERPRISE", "UNKNOWN"}

Skips == {"unsupported", "missing_fix", "missing_accuracy", "excessive_accuracy"}
IngestionReasons ==
    {"missing_bssid", "invalid_rssi", "invalid_latitude", "invalid_gps_mode",
     "invalid_channel", "invalid_band"}
ProcessingReasons ==
    {"invalid_frequency", "frequency_band_mismatch", "invalid_gps_mode",
     "missing_gps_accuracy", "invalid_gps_accuracy", "gps_accuracy_exceeded",
     "outside_approved_zone", "ambiguous_zone"}

ASSUME NoneAssumption ==
    None \notin Int \cup Bands \cup Bssids \cup Skips \cup IngestionReasons \cup ProcessingReasons
ASSUME CoversAssumption ==
    /\ Places \subseteq Int /\ Covers \in [Places -> SUBSET Zones]
    /\ IsFiniteSet(Zones)
ASSUME AccuracyAssumption == MaxAccuracy \in Nat

-----------------------------------------------------------------------------
(* Parsing.                                                                *)

(* _channel_from_frequency *)
ChannelFromFrequency(f) ==
    CASE f = None          -> None
      [] f \in 2412..2472  -> (f - 2407) \div 5
      [] f = 2484          -> 14
      [] f \in 5000..5900  -> (f - 5000) \div 5
      [] f \in 5955..7115  -> (f - 5950) \div 5
      [] OTHER             -> None

(* The channel element is used only when the frequency gives no channel. *)
Channel(frame) ==
    LET c == ChannelFromFrequency(frame.frequency)
    IN  IF c = None THEN frame.element ELSE c

(* _get_band: by frequency, else by channel. *)
Band(channel, f) ==
    IF f # None /\ f \in 2400..2499 THEN "2.4GHz"
    ELSE IF f # None /\ f \in 5000..5899 THEN "5GHz"
    ELSE IF f # None /\ f \in 5900..7199 THEN "6GHz"
    ELSE IF channel \in 1..14 THEN "2.4GHz"
    ELSE IF channel \in 32..177 THEN "5GHz"
    ELSE None

(* _get_encryption: what the library found in the frame; else what the     *)
(* capability bit and the information elements say.                        *)
Encryption(security) ==
    IF ~security.stats THEN {"other"}
    ELSE IF security.crypto # {} THEN security.crypto
    ELSE IF ~security.privacy THEN {"OPEN"}
    ELSE IF security.rsn THEN {"RSN", "WPA2", "WPA3", "WPA"}
    ELSE IF security.wpa THEN {"WPA"}
    ELSE {"WEP", "other"}

(* parse_wifi_frame: does it give metadata? *)
Parsed(frame) ==
    /\ frame.kind \in {"BEACON", "PROBE_RESPONSE"}
    /\ frame.bssid # None
    /\ Channel(frame) # None
    /\ Band(Channel(frame), frame.frequency) # None
    /\ frame.signal # None

(* Variant: a fix that is too coarse is counted, but its frame is stored.  *)
SkipReasonStoresCoarse(frame, fix) ==
    IF ~Parsed(frame) THEN "unsupported"
    ELSE IF fix = None THEN "missing_fix"
    ELSE IF fix.accuracy = None THEN "missing_accuracy"
    ELSE None

(* The counter a frame is dropped under, or None when it is stored.  A     *)
(* measurement runs with --require-gps-fix, so that every fix that is      *)
(* missing, incomplete or too coarse drops the frame.                      *)
SkipReason(frame, fix) ==
    IF ~Parsed(frame) THEN "unsupported"
    ELSE IF fix = None THEN "missing_fix"
    ELSE IF fix.accuracy = None THEN "missing_accuracy"
    ELSE IF fix.accuracy > MaxAccuracy THEN "excessive_accuracy"
    ELSE None

(* The observation the collector writes. *)
Row(frame, fix, time, times) ==
    [bssid |-> frame.bssid, ssid |-> frame.ssid, rssi |-> frame.signal,
     channel |-> Channel(frame), frequency |-> frame.frequency,
     band |-> Band(Channel(frame), frame.frequency),
     encryption |-> Encryption(frame.security),
     place |-> fix.place, mode |-> fix.mode, accuracy |-> fix.accuracy,
     time |-> time, times |-> times]

-----------------------------------------------------------------------------
(* Ingestion and Processing of one row.                                    *)

(* pseudonymize_bssid *)
Pseudonym(bssid) == NetworkOf[bssid]

(* validate_observation: the first reason that applies, or None.  A fix    *)
(* of gpsd_client.py has coordinates in range, and rows always a time.     *)
IngestionReason(row) ==
    IF row.bssid = None THEN "missing_bssid"
    ELSE IF row.rssi \notin -120..0 THEN "invalid_rssi"
    ELSE IF row.place = None THEN "invalid_latitude"
    ELSE IF row.mode < 3 THEN "invalid_gps_mode"
    ELSE IF row.channel <= 0 THEN "invalid_channel"
    ELSE IF row.band \notin {"2.4GHz", "5GHz"} THEN "invalid_band"
    ELSE None

(* _band_for_frequency *)
BandForFrequency(f) ==
    CASE f \in 2400..2499 -> "2.4GHz"
      [] f \in 5000..5899 -> "5GHz"
      [] OTHER            -> None

(* validate_processing_quality *)
QualityReason(row) ==
    LET expected == BandForFrequency(row.frequency)
    IN  IF row.frequency # None /\ expected = None THEN "invalid_frequency"
        ELSE IF row.frequency # None /\ expected # row.band THEN "frequency_band_mismatch"
        ELSE IF row.mode < 3 THEN "invalid_gps_mode"
        ELSE IF row.accuracy = None THEN "missing_gps_accuracy"
        ELSE IF row.accuracy < 0 THEN "invalid_gps_accuracy"
        ELSE IF row.accuracy > MaxAccuracy THEN "gps_accuracy_exceeded"
        ELSE None

(* match_approved_zone: exactly one zone has to cover the place. *)
ZoneReason(row) ==
    IF Covers[row.place] = {} THEN "outside_approved_zone"
    ELSE IF Cardinality(Covers[row.place]) > 1 THEN "ambiguous_zone"
    ELSE None

ZoneOf(row) == CHOOSE zone \in Zones : Covers[row.place] = {zone}

(* normalize_encryption *)
Category(words) ==
    IF words \cap {"802.1X", "ENTERPRISE", "EAP"} # {} THEN "ENTERPRISE"
    ELSE IF {"WPA2", "WPA3"} \subseteq words THEN "WPA2_OR_WPA3"
    ELSE IF "WPA3" \in words THEN "WPA3"
    ELSE IF words \cap {"WPA2", "RSN"} # {} THEN "WPA2"
    ELSE IF words \cap {"WPA", "WEP"} # {} THEN "OUTDATED"
    ELSE IF words = {"OPEN"} THEN "OPEN"
    ELSE "UNKNOWN"

=============================================================================
