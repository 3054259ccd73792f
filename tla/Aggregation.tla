---------------------------- MODULE Aggregation ----------------------------
(***************************************************************************)
(* The findings and scores Processing makes of observations that lie in    *)
(* one approved zone (processing/aggregation.py, scoring.py).  The         *)
(* observations of a group are a set of indices in the buffer, which keep  *)
(* their order; a row stands for row.times observations.                   *)
(***************************************************************************)
EXTENDS Observations, Sequences, FiniteSetsExt

Rank(value, order) == CHOOSE i \in DOMAIN order : order[i] = value

(* How many observations the rows with these indices stand for. *)
Observed(rows, indices) == SumFunctionOnSet([i \in DOMAIN rows |-> rows[i].times], indices)

(* _ENCRYPTION_STRENGTH *)
Strength ==
    [OPEN |-> 0, UNKNOWN |-> 1, OUTDATED |-> 2, WPA2 |-> 3, WPA2_OR_WPA3 |-> 3,
     ENTERPRISE |-> 4, WPA3 |-> 5]

(* Variant: without the time, place and radio of equally strong signals. *)
SignalKey(o) == <<-o.rssi>>

(* _representative_key, with bands and categories in alphabetical order. *)
RepresentativeKey(o) ==
    <<-o.rssi, o.time, o.place, o.channel,
      IF o.frequency = None THEN -1 ELSE o.frequency,
      Rank(o.band, <<"2.4GHz", "5GHz", "6GHz">>),
      Rank(Category(o.encryption), <<"ENTERPRISE", "OPEN", "OUTDATED", "UNKNOWN",
                                     "WPA2", "WPA2_OR_WPA3", "WPA3">>)>>

LexLess(k, l) == \E i \in DOMAIN k : k[i] < l[i] /\ \A j \in 1..(i - 1) : k[j] = l[j]

(* Python's min returns the first of the smallest. *)
FirstMin(group, Less(_, _)) ==
    CHOOSE i \in group : \A j \in group : ~Less(j, i) /\ (~Less(i, j) => i <= j)

Representative(rows, group) ==
    FirstMin(group, LAMBDA i, j : LexLess(RepresentativeKey(rows[i]), RepresentativeKey(rows[j])))

(* Variant: the encryption of the representative measurement. *)
StrongestSignalEncryption(rows, group) == Category(rows[Representative(rows, group)].encryption)

(* The first of the weakest categories in the group. *)
WeakestEncryption(rows, group) ==
    LET Of(i) == Category(rows[i].encryption)
    IN  Of(FirstMin(group, LAMBDA i, j : Strength[Of(i)] < Strength[Of(j)]))

(* Variant: place and time come from the first observation of the group. *)
FindingAtFirst(rows, zone, network, group) ==
    LET best == rows[Representative(rows, group)]
        times == {rows[i].time : i \in group}
    IN  [zone |-> zone, network |-> network,
         observation_count |-> Observed(rows, group),
         first |-> Min(times), last |-> Max(times),
         time |-> rows[Min(group)].time, place |-> rows[Min(group)].place,
         rssi_sum |-> SumFunctionOnSet([i \in group |-> rows[i].rssi * rows[i].times], group),
         strongest_rssi |-> best.rssi,
         channel |-> best.channel, frequency |-> best.frequency, band |-> best.band,
         encryption |-> WeakestEncryption(rows, group),
         ssid_present |-> \E i \in group : rows[i].ssid]

(* _aggregate_group; the average RSSI is rssi_sum / observation_count. *)
Finding(rows, zone, network, group) ==
    LET best == rows[Representative(rows, group)]
        times == {rows[i].time : i \in group}
    IN  [zone |-> zone, network |-> network,
         observation_count |-> Observed(rows, group),
         first |-> Min(times), last |-> Max(times),
         time |-> best.time, place |-> best.place,
         rssi_sum |-> SumFunctionOnSet([i \in group |-> rows[i].rssi * rows[i].times], group),
         strongest_rssi |-> best.rssi,
         channel |-> best.channel, frequency |-> best.frequency, band |-> best.band,
         encryption |-> WeakestEncryption(rows, group),
         ssid_present |-> \E i \in group : rows[i].ssid]

(* _signal_contribution *)
SignalPoints(rssi) == IF rssi < -80 THEN 0 ELSE IF rssi <= -67 THEN 1 ELSE 2

EncryptionPoints ==
    [WPA3 |-> 0, WPA2_OR_WPA3 |-> 0, WPA2 |-> 0, ENTERPRISE |-> 0,
     OUTDATED |-> 1, UNKNOWN |-> 1, OPEN |-> 2]

(* _frequency_contribution *)
FrequencyPoints(count) == IF count >= 10 THEN 2 ELSE IF count >= 2 THEN 1 ELSE 0

(* score_network_finding: three factors, encryption with weight 2. *)
Score(finding) ==
    SignalPoints(finding.strongest_rssi)
    + 2 * EncryptionPoints[finding.encryption]
    + FrequencyPoints(finding.observation_count)

(* attention_level_for_score *)
AttentionLevel(score) ==
    IF score \in 0..2 THEN "GREEN"
    ELSE IF score \in 3..5 THEN "YELLOW"
    ELSE "RED"

(* aggregate_network_findings, and the score of each finding: one finding  *)
(* per zone and network.  They are sorted by those, so a set will do.      *)
Findings(rows, zoned) ==
    LET Scored(f) == [finding |-> f, score |-> Score(f), level |-> AttentionLevel(Score(f))]
        Key(i) == <<ZoneOf(rows[i]), Pseudonym(rows[i].bssid)>>
    IN  {Scored(Finding(rows, k[1], k[2], {i \in zoned : Key(i) = k})) : k \in {Key(i) : i \in zoned}}

=============================================================================
