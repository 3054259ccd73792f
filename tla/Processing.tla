----------------------------- MODULE Processing -----------------------------
(***************************************************************************)
(* The way of a measurement through the system: frames are collected into  *)
(* the source buffer (collection/collector.py), Ingestion validates and    *)
(* pseudonymises the buffer (ingestion/service.py) and Processing makes    *)
(* findings of it (processing/service.py).  Each stage runs in one thread  *)
(* of its own process, after the one before.                               *)
(***************************************************************************)
EXTENDS Aggregation

CONSTANTS
    Receptions,  \* what may be received: frame, fix, time and how often
    MaxPackets   \* bound on the receptions of one measurement

(* Frames have any fields; gpsd_client.py gives only fixes in three        *)
(* dimensions, with an accuracy that is not negative, or without one.      *)
(* Times keep their order as numbers.                                      *)
ASSUME ReceptionsAssumption ==
    /\ MaxPackets \in Nat
    /\ \A r \in Receptions :
           /\ r.time \in Nat /\ r.times \in Nat
           /\ r.frame.bssid \in Bssids \cup {None}
           /\ r.frame.ssid \in BOOLEAN
           /\ {r.frame.frequency, r.frame.element} \subseteq Nat \cup {None}
           /\ r.fix # None => /\ r.fix.place \in Places
                              /\ r.fix.mode \in Nat \ 0..2
                              /\ r.fix.accuracy \in Nat \cup {None}

VARIABLES
    phase,     \* the stage that comes next
    received,  \* receptions so far
    skipped,   \* the counters of the collector, by what was wrong
    buffer,    \* raw_observation, in the order of its primary key
    accepted,  \* the rows Ingestion accepted, which get their pseudonym
    rejected,  \* by reason: the rows Ingestion and Processing rejected
    findings   \* the result of Processing

vars == <<phase, received, skipped, buffer, accepted, rejected, findings>>

Init ==
    /\ phase = "collect" /\ received = 0 /\ skipped = [s \in Skips |-> 0]
    /\ buffer = <<>> /\ accepted = {} /\ findings = {}
    /\ rejected = [ingestion |-> [r \in IngestionReasons |-> {}],
                   processing |-> [r \in ProcessingReasons |-> {}]]

-----------------------------------------------------------------------------
(* process_packet, for every packet of the reception. *)
Collect(reception) ==
    /\ phase = "collect" /\ received < MaxPackets
    /\ received' = received + 1
    /\ LET reason == SkipReason(reception.frame, reception.fix)
       IN  IF reason = None
             THEN /\ buffer' = Append(buffer, Row(reception.frame, reception.fix,
                                                  reception.time, reception.times))
                  /\ UNCHANGED skipped
             ELSE /\ skipped' = [skipped EXCEPT ![reason] = @ + reception.times]
                  /\ UNCHANGED buffer
    /\ UNCHANGED <<phase, accepted, rejected, findings>>

EndCollection ==
    /\ phase = "collect" /\ phase' = "ingest"
    /\ UNCHANGED <<received, skipped, buffer, accepted, rejected, findings>>

(* Variant: rows that an earlier stage rejected are counted again. *)
RejectedAgain(reasonOf, input, reasons) ==
    [r \in reasons |-> {i \in DOMAIN reasonOf : reasonOf[i] = r}]

(* Rows, by the reason they are rejected for. *)
RejectedFor(reasonOf, input, reasons) ==
    [r \in reasons |-> {i \in input : reasonOf[i] = r}]

(* IngestionService.ingest *)
AcceptedRows(rows) == {i \in DOMAIN rows : IngestionReason(rows[i]) = None}

Ingest ==
    /\ phase = "ingest" /\ phase' = "process"
    /\ accepted' = AcceptedRows(buffer)
    /\ rejected' = [rejected EXCEPT !.ingestion =
                        RejectedFor([i \in DOMAIN buffer |-> IngestionReason(buffer[i])],
                                    DOMAIN buffer, IngestionReasons)]
    /\ UNCHANGED <<received, skipped, buffer, findings>>

(* The loop of ProcessingService.process: quality, then zone. *)
ProcessingReason(row) ==
    IF QualityReason(row) # None THEN QualityReason(row) ELSE ZoneReason(row)

(* Variant: the rejection by quality is counted, but the loop goes on. *)
ZonedRowsWithoutContinue(rows, input) == {i \in input : ZoneReason(rows[i]) = None}

ZonedRows(rows, input) == {i \in input : ProcessingReason(rows[i]) = None}

Process ==
    /\ phase = "process" /\ phase' = "done"
    /\ findings' = Findings(buffer, ZonedRows(buffer, accepted))
    /\ rejected' = [rejected EXCEPT !.processing =
                        RejectedFor([i \in DOMAIN buffer |-> ProcessingReason(buffer[i])],
                                    accepted, ProcessingReasons)]
    /\ UNCHANGED <<received, skipped, buffer, accepted>>

Next ==
    \/ \E reception \in Receptions : Collect(reception)
    \/ EndCollection
    \/ Ingest
    \/ Process

Spec == Init /\ [][Next]_vars

-----------------------------------------------------------------------------
(* Every variable has its type. *)
TypeOK ==
    /\ phase \in {"collect", "ingest", "process", "done"}
    /\ received \in 0..MaxPackets
    /\ skipped \in [Skips -> Nat]
    /\ Len(buffer) <= received
    /\ accepted \subseteq DOMAIN buffer
    /\ rejected \in [ingestion: [IngestionReasons -> SUBSET DOMAIN buffer],
                     processing: [ProcessingReasons -> SUBSET accepted]]
    /\ \A s \in findings : s.score \in 0..8 /\ s.level \in {"GREEN", "YELLOW", "RED"}

(* Every stored row ends in exactly one place: one rejection count of one  *)
(* stage, or the observation count of one finding (ProcessingResult checks *)
(* the totals of Processing only, pipeline/cli.py prints all of them).     *)
EveryRowAccountedFor ==
    phase = "done" =>
        LET Rejected(counts) ==
                SumFunction([r \in DOMAIN counts |-> Observed(buffer, counts[r])])
        IN  Observed(buffer, DOMAIN buffer) =
                Rejected(rejected.ingestion) + Rejected(rejected.processing)
                + SumFunction([s \in findings |-> s.finding.observation_count])

(* The stages agree on GPS quality and bands although each has checks of   *)
(* its own: what Collection stored under the policy of the round, no later *)
(* stage rejects for its fix, and what the parser called 2.4 or 5 GHz, no  *)
(* later stage takes for the other band.                                   *)
StagesAgree ==
    /\ \A r \in {"missing_bssid", "invalid_latitude", "invalid_gps_mode"} :
           rejected.ingestion[r] = {}
    /\ \A r \in {"frequency_band_mismatch", "invalid_gps_mode", "missing_gps_accuracy",
                 "invalid_gps_accuracy", "gps_accuracy_exceeded"} :
           rejected.processing[r] = {}

(* The place, time, channel, frequency and band shown for a network come   *)
(* from one measurement of it in that zone, and none of it was stronger.   *)
WholeRepresentative ==
    \A s \in findings :
        LET f == s.finding
            Mine == {i \in accepted : /\ Pseudonym(buffer[i].bssid) = f.network
                                      /\ Covers[buffer[i].place] = {f.zone}}
        IN  /\ \E i \in Mine :
                   LET o == buffer[i]
                   IN  /\ <<o.rssi, o.time, o.place>> = <<f.strongest_rssi, f.time, f.place>>
                       /\ <<o.channel, o.frequency, o.band>> = <<f.channel, f.frequency, f.band>>
            /\ \A i \in Mine : QualityReason(buffer[i]) = None
                                => buffer[i].rssi <= f.strongest_rssi

(* What the later stages make of a buffer. *)
ResultOf(rows) == Findings(rows, ZonedRows(rows, AcceptedRows(rows)))

(* The order in which frames came in changes no finding, but for one thing:*)
(* when WPA2 and WPA2_OR_WPA3 tie for the weakest category, the first of   *)
(* them is shown (aggregation.py compares strengths only).  The score is   *)
(* the same in any order.                                                  *)
OrderOnlyShowsInTie ==
    phase = "done" =>
        LET Blurred(f) == [f EXCEPT !.encryption = IF @ = "WPA2_OR_WPA3" THEN "WPA2" ELSE @]
            View(results) == {<<Blurred(s.finding), s.score, s.level>> : s \in results}
            Orders == {p \in [DOMAIN buffer -> DOMAIN buffer] :
                          \A i, j \in DOMAIN buffer : p[i] = p[j] => i = j}
        IN  \A p \in Orders : View(ResultOf([i \in DOMAIN buffer |-> buffer[p[i]]])) = View(findings)

(* More observations never lower the score of a network in a zone, and     *)
(* never make a finding disappear: nothing that was seen can be hidden by  *)
(* what else is seen.                                                      *)
MoreEvidenceNeverLowersScore ==
    phase = "done" =>
        \A fewer \in SUBSET ZonedRows(buffer, accepted) :
            \A s \in Findings(buffer, fewer) : \E t \in findings :
                /\ <<t.finding.zone, t.finding.network>> = <<s.finding.zone, s.finding.network>>
                /\ t.score >= s.score

=============================================================================
