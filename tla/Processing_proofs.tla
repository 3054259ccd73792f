------------------------- MODULE Processing_proofs -------------------------
(***************************************************************************)
(* What Processing guarantees for every set of frames and fixes, every     *)
(* length of a measurement and every set of zones.                         *)
(***************************************************************************)
EXTENDS Processing, FiniteSetTheorems, TLAPS

(* The rows Collection can store. *)
StoredRows ==
    {Row(r.frame, r.fix, r.time, r.times) :
        r \in {s \in Receptions : SkipReason(s.frame, s.fix) = None}}

(* The buffer has such rows only; rejections and acceptance are about them.*)
RowsInv ==
    /\ buffer \in Seq(StoredRows)
    /\ accepted \subseteq DOMAIN buffer
    /\ rejected \in [ingestion: [IngestionReasons -> SUBSET DOMAIN buffer],
                     processing: [ProcessingReasons -> SUBSET accepted]]
    /\ phase \in {"collect", "ingest"} => accepted = {}

-----------------------------------------------------------------------------
(* What the functions of the data path give.                               *)

(* Parser and Processing give a frequency the same band, if any. *)
LEMMA BandsAgree ==
    ASSUME NEW channel, NEW f \in Nat
    PROVE  BandForFrequency(f) \in {None, Band(channel, f)}
<1>1. f # None
  BY NoneAssumption
<1>2. CASE f \in 2400..2499
  <2>1. f \notin 5000..5899
    BY <1>2
  <2>2. BandForFrequency(f) = "2.4GHz"
    BY <1>2, <2>1 DEF BandForFrequency
  <2>3. Band(channel, f) = "2.4GHz"
    BY <1>1, <1>2 DEF Band
  <2> QED
    BY <2>2, <2>3
<1>3. CASE f \in 5000..5899
  <2>1. f \notin 2400..2499
    BY <1>3
  <2>2. BandForFrequency(f) = "5GHz"
    BY <1>3, <2>1 DEF BandForFrequency
  <2>3. Band(channel, f) = "5GHz"
    BY <1>1, <1>3, <2>1 DEF Band
  <2> QED
    BY <2>2, <2>3
<1>4. CASE f \notin 2400..2499 /\ f \notin 5000..5899
  BY <1>4 DEF BandForFrequency
<1> QED
  BY <1>2, <1>3, <1>4

(* What Collection stores passes every later check of the fix, and its     *)
(* band is the one its frequency has.                                      *)
LEMMA StoredRowIsSound ==
    ASSUME NEW row \in StoredRows
    PROVE  /\ IngestionReason(row) \notin {"missing_bssid", "invalid_latitude", "invalid_gps_mode"}
           /\ QualityReason(row) \notin {"frequency_band_mismatch", "invalid_gps_mode",
                                         "missing_gps_accuracy", "invalid_gps_accuracy",
                                         "gps_accuracy_exceeded"}
<1>1. PICK r \in Receptions : /\ SkipReason(r.frame, r.fix) = None
                              /\ row = Row(r.frame, r.fix, r.time, r.times)
  BY DEF StoredRows
<1>2. /\ "unsupported" # None /\ "missing_fix" # None
      /\ "missing_accuracy" # None /\ "excessive_accuracy" # None
  BY NoneAssumption DEF Skips
<1>3. Parsed(r.frame) /\ r.fix # None /\ r.fix.accuracy # None /\ ~(r.fix.accuracy > MaxAccuracy)
  BY <1>1, <1>2 DEF SkipReason
<1>4. /\ row.bssid # None
      /\ row.frequency \in Nat \cup {None}
      /\ row.band = Band(row.channel, row.frequency)
      /\ row.place # None
      /\ row.mode \in Nat /\ ~(row.mode < 3)
      /\ row.accuracy \in 0..MaxAccuracy
  <2>1. /\ row.bssid = r.frame.bssid /\ row.frequency = r.frame.frequency
        /\ row.band = Band(row.channel, row.frequency)
        /\ row.place = r.fix.place /\ row.mode = r.fix.mode /\ row.accuracy = r.fix.accuracy
    BY <1>1 DEF Row
  <2>2. r.fix.place \in Int /\ r.fix.mode \in Nat \ 0..2 /\ r.fix.accuracy \in Nat
    BY <1>3, ReceptionsAssumption, CoversAssumption
  <2> QED
    BY <1>3, <2>1, <2>2, ReceptionsAssumption, AccuracyAssumption, NoneAssumption DEF Parsed
<1>5. row.frequency # None => BandForFrequency(row.frequency) \in {None, row.band}
  BY <1>4, BandsAgree
<1>6. IngestionReason(row) \notin {"missing_bssid", "invalid_latitude", "invalid_gps_mode"}
  <2>1. None \notin {"missing_bssid", "invalid_latitude", "invalid_gps_mode"}
    BY NoneAssumption DEF IngestionReasons
  <2> QED
    BY <1>4, <2>1 DEF IngestionReason
<1>7. QualityReason(row) \notin {"frequency_band_mismatch", "invalid_gps_mode",
                                 "missing_gps_accuracy", "invalid_gps_accuracy",
                                 "gps_accuracy_exceeded"}
  <2>1. None \notin {"frequency_band_mismatch", "invalid_gps_mode", "missing_gps_accuracy",
                    "invalid_gps_accuracy", "gps_accuracy_exceeded"}
    BY NoneAssumption DEF ProcessingReasons
  <2>2. row.accuracy # None /\ ~(row.accuracy < 0) /\ ~(row.accuracy > MaxAccuracy)
    BY <1>4, NoneAssumption, AccuracyAssumption
  <2> QED
    BY <1>4, <1>5, <2>1, <2>2 DEF QualityReason
<1> QED
  BY <1>6, <1>7

(* A score has one of the nine values the level is defined for, whatever   *)
(* was counted: score_network_finding never raises.                        *)
LEMMA ScoreBounded ==
    ASSUME NEW rows, NEW zone, NEW network, NEW group
    PROVE  /\ Score(Finding(rows, zone, network, group)) \in 0..8
           /\ AttentionLevel(Score(Finding(rows, zone, network, group))) \in {"GREEN", "YELLOW", "RED"}
<1> DEFINE f == Finding(rows, zone, network, group)
<1>1. f.encryption \in Categories
  <2>1. \A words : Category(words) \in Categories
    BY DEF Category, Categories
  <2>2. f.encryption = WeakestEncryption(rows, group)
    BY DEF Finding
  <2> QED
    BY <2>1, <2>2 DEF WeakestEncryption
<1>2. EncryptionPoints[f.encryption] \in 0..2
  BY <1>1 DEF EncryptionPoints, Categories
<1>3. SignalPoints(f.strongest_rssi) \in 0..2 /\ FrequencyPoints(f.observation_count) \in 0..2
  BY DEF SignalPoints, FrequencyPoints
<1>4. Score(f) \in 0..8
  BY <1>2, <1>3 DEF Score
<1> QED
  BY <1>4 DEF AttentionLevel

(* So is every finding that is made. *)
LEMMA FindingsScored ==
    ASSUME NEW rows, NEW zoned
    PROVE  \A s \in Findings(rows, zoned) :
               s.score \in 0..8 /\ s.level \in {"GREEN", "YELLOW", "RED"}
<1> DEFINE Key(i) == <<ZoneOf(rows[i]), Pseudonym(rows[i].bssid)>>
           Made(k) == Finding(rows, k[1], k[2], {i \in zoned : Key(i) = k})
           Scored(f) == [finding |-> f, score |-> Score(f), level |-> AttentionLevel(Score(f))]
<1>1. Findings(rows, zoned) = {Scored(Made(k)) : k \in {Key(i) : i \in zoned}}
  BY DEF Findings
<1>2. \A k : Score(Made(k)) \in 0..8
              /\ AttentionLevel(Score(Made(k))) \in {"GREEN", "YELLOW", "RED"}
  BY ScoreBounded
<1>3. \A f : Scored(f).score = Score(f) /\ Scored(f).level = AttentionLevel(Score(f))
  OBVIOUS
<1> HIDE DEF Made, Scored, Key
<1> QED
  BY <1>1, <1>2, <1>3

-----------------------------------------------------------------------------
(* The invariant of the rows.                                              *)
LEMMA RowsStep == RowsInv /\ [Next]_vars => RowsInv'
<1> SUFFICES ASSUME RowsInv, [Next]_vars PROVE RowsInv'
  OBVIOUS
<1> USE DEF RowsInv
<1>1. ASSUME NEW r \in Receptions, Collect(r) PROVE RowsInv'
  <2>1. buffer' \in Seq(StoredRows) /\ DOMAIN buffer \subseteq DOMAIN buffer'
    <3>1. CASE SkipReason(r.frame, r.fix) = None
      <4>1. Row(r.frame, r.fix, r.time, r.times) \in StoredRows
        BY <3>1 DEF StoredRows
      <4>2. buffer' = Append(buffer, Row(r.frame, r.fix, r.time, r.times))
        BY <1>1, <3>1 DEF Collect
      <4>3. DOMAIN buffer = 1..Len(buffer) /\ DOMAIN buffer' = 1..(Len(buffer) + 1)
        BY <4>1, <4>2
      <4> QED
        BY <4>1, <4>2, <4>3
    <3>2. CASE SkipReason(r.frame, r.fix) # None
      BY <1>1, <3>2 DEF Collect
    <3> QED
      BY <3>1, <3>2
  <2>2. phase = "collect" /\ UNCHANGED <<phase, accepted, rejected>>
    BY <1>1 DEF Collect
  <2> QED
    BY <2>1, <2>2
<1>2. CASE EndCollection
  BY <1>2 DEF EndCollection
<1>3. CASE Ingest
  <2>1. /\ accepted' \subseteq DOMAIN buffer /\ buffer' = buffer /\ phase' = "process"
        /\ accepted = {}
    BY <1>3 DEF Ingest, AcceptedRows
  <2>2. rejected' = [rejected EXCEPT !.ingestion = rejected'.ingestion]
        /\ rejected'.ingestion \in [IngestionReasons -> SUBSET DOMAIN buffer]
    BY <1>3 DEF Ingest, RejectedFor
  <2> QED
    BY <2>1, <2>2
<1>4. CASE Process
  <2>1. accepted' = accepted /\ buffer' = buffer /\ phase' = "done"
    BY <1>4 DEF Process
  <2>2. rejected' = [rejected EXCEPT !.processing = rejected'.processing]
        /\ rejected'.processing \in [ProcessingReasons -> SUBSET accepted]
    BY <1>4 DEF Process, RejectedFor
  <2> QED
    BY <2>1, <2>2
<1>5. CASE UNCHANGED vars
  BY <1>5 DEF vars
<1> QED
  BY <1>1, <1>2, <1>3, <1>4, <1>5 DEF Next

(* The rows of every stage stay within what the stage before lets through. *)
THEOREM Invariance == Spec => []RowsInv
<1>1. Init => RowsInv
  BY DEF Init, RowsInv
<1> QED
  BY <1>1, RowsStep, PTL DEF Spec

-----------------------------------------------------------------------------
(* The stages agree: what Collection stored is not rejected later for its  *)
(* fix, nor for a band that Processing computes differently.               *)
THEOREM StagesAlwaysAgree == Spec => []StagesAgree
<1>1. Init => StagesAgree
  BY DEF Init, StagesAgree, IngestionReasons, ProcessingReasons
<1>2. RowsInv /\ StagesAgree /\ [Next]_vars => StagesAgree'
  <2> SUFFICES ASSUME RowsInv, StagesAgree, [Next]_vars PROVE StagesAgree'
    OBVIOUS
  <2>1. CASE UNCHANGED rejected
    BY <2>1 DEF StagesAgree
  <2>2. CASE Ingest
    <3>1. \A i \in DOMAIN buffer : IngestionReason(buffer[i])
              \notin {"missing_bssid", "invalid_latitude", "invalid_gps_mode"}
      BY StoredRowIsSound DEF RowsInv
    <3>2. /\ rejected'.processing = rejected.processing
          /\ \A r \in IngestionReasons :
                 rejected'.ingestion[r] = {i \in DOMAIN buffer : IngestionReason(buffer[i]) = r}
      BY <2>2 DEF Ingest, RejectedFor, RowsInv
    <3> QED
      BY <3>1, <3>2 DEF StagesAgree, IngestionReasons
  <2>3. CASE Process
    <3>1. \A i \in accepted : QualityReason(buffer[i])
              \notin {"frequency_band_mismatch", "invalid_gps_mode", "missing_gps_accuracy",
                      "invalid_gps_accuracy", "gps_accuracy_exceeded"}
      BY StoredRowIsSound DEF RowsInv
    <3>2. \A i \in accepted : ProcessingReason(buffer[i])
              \notin {"frequency_band_mismatch", "invalid_gps_mode", "missing_gps_accuracy",
                      "invalid_gps_accuracy", "gps_accuracy_exceeded"}
      <4>1. None \notin {"frequency_band_mismatch", "invalid_gps_mode", "missing_gps_accuracy",
                         "invalid_gps_accuracy", "gps_accuracy_exceeded"}
        BY NoneAssumption DEF ProcessingReasons
      <4>2. \A row : ZoneReason(row) \in {"outside_approved_zone", "ambiguous_zone", None}
        BY DEF ZoneReason
      <4> QED
        BY <3>1, <4>1, <4>2 DEF ProcessingReason
    <3>3. /\ rejected'.ingestion = rejected.ingestion
          /\ \A r \in ProcessingReasons :
                 rejected'.processing[r] = {i \in accepted : ProcessingReason(buffer[i]) = r}
      BY <2>3 DEF Process, RejectedFor, RowsInv
    <3> QED
      BY <3>2, <3>3 DEF StagesAgree, ProcessingReasons
  <2> QED
    BY <2>1, <2>2, <2>3 DEF Next, Collect, EndCollection, vars
<1> QED
  BY <1>1, <1>2, Invariance, PTL DEF Spec

-----------------------------------------------------------------------------
(* Every variable keeps its type; in particular every finding has a score  *)
(* from 0 to 8 and the level that goes with it.                            *)
THEOREM TypeCorrect == Spec => []TypeOK
<1>1. Init => TypeOK
  BY ReceptionsAssumption DEF Init, TypeOK
<1>2. RowsInv /\ RowsInv' /\ TypeOK /\ [Next]_vars => TypeOK'
  <2> SUFFICES ASSUME RowsInv, RowsInv', TypeOK, [Next]_vars PROVE TypeOK'
    OBVIOUS
  <2> USE DEF TypeOK
  <2>0. accepted' \subseteq DOMAIN buffer' /\ rejected' \in
            [ingestion: [IngestionReasons -> SUBSET DOMAIN buffer'],
             processing: [ProcessingReasons -> SUBSET accepted']]
    BY DEF RowsInv
  <2>1. ASSUME NEW r \in Receptions, Collect(r) PROVE TypeOK'
    <3>1. received' = received + 1 /\ received' \in 0..MaxPackets
      BY <2>1, ReceptionsAssumption DEF Collect
    <3>2. Len(buffer') <= received' /\ skipped' \in [Skips -> Nat]
      <4>1. CASE SkipReason(r.frame, r.fix) = None
        <5>1. /\ buffer' = Append(buffer, Row(r.frame, r.fix, r.time, r.times))
              /\ skipped' = skipped
          BY <2>1, <4>1 DEF Collect
        <5>2. Row(r.frame, r.fix, r.time, r.times) \in StoredRows
          BY <4>1 DEF StoredRows
        <5> QED
          BY <3>1, <5>1, <5>2, ReceptionsAssumption DEF RowsInv
      <4>2. CASE SkipReason(r.frame, r.fix) # None
        <5>1. /\ buffer' = buffer
              /\ skipped' = [skipped EXCEPT ![SkipReason(r.frame, r.fix)] = @ + r.times]
          BY <2>1, <4>2 DEF Collect
        <5> QED
          BY <3>1, <4>2, <5>1, ReceptionsAssumption DEF RowsInv, SkipReason, Skips
      <4> QED
        BY <4>1, <4>2
    <3>3. phase' = phase /\ findings' = findings
      BY <2>1 DEF Collect
    <3> QED
      BY <2>0, <3>1, <3>2, <3>3
  <2>2. CASE EndCollection \/ Ingest
    BY <2>0, <2>2 DEF EndCollection, Ingest
  <2>3. CASE Process
    <3>1. \A s \in findings' : s.score \in 0..8 /\ s.level \in {"GREEN", "YELLOW", "RED"}
      BY <2>3, FindingsScored DEF Process
    <3> QED
      BY <2>0, <2>3, <3>1 DEF Process
  <2>4. CASE UNCHANGED vars
    BY <2>4 DEF vars
  <2> QED
    BY <2>1, <2>2, <2>3, <2>4 DEF Next
<1> QED
  BY <1>1, <1>2, Invariance, PTL DEF Spec

-----------------------------------------------------------------------------
(* Sums over finite sets.                                                  *)

(* Among sets of indices there is one that no other lies within.  With it  *)
(* follows by contradiction, for every finite set, what would otherwise    *)
(* need an induction.                                                      *)
LEMMA SmallestSet ==
    ASSUME NEW S, IsFiniteSet(S), NEW F \in SUBSET SUBSET S, F # {}
    PROVE  \E T \in F : \A U \in F : U \subseteq T => U = T
<1>1. F \subseteq FiniteSubsetsOf(S)
  BY FS_FiniteSubsetsOfFinite
<1>2. PICK T \in F : \A U \in F : <<U, T>> \notin StrictSubsetOrdering(S)
  BY <1>1, FS_StrictSubsetOrderingWellFounded, WFMin
<1>3. \A U \in F : U \subseteq T => U = T
  <2> SUFFICES ASSUME NEW U \in F, U \subseteq T, U # T PROVE FALSE
    OBVIOUS
  <2>1. <<U, T>> \in StrictSubsetOrdering(S)
    BY DEF StrictSubsetOrdering
  <2> QED
    BY <1>2, <2>1
<1> QED
  BY <1>3

(* G[T] is the sum of f over T, for every part T of S. *)
IsSum(G, f, S) ==
    /\ G \in [SUBSET S -> Int]
    /\ G[{}] = 0
    /\ \A T \in SUBSET S : \A x \in T : G[T] = f[x] + G[T \ {x}]

(* Every finite set has its sums. *)
LEMMA SumExists ==
    ASSUME NEW S, IsFiniteSet(S), NEW f, \A x \in S : f[x] \in Int
    PROVE  \E G : IsSum(G, f, S)
<1> DEFINE Bad == {T \in SUBSET S : ~ \E G : IsSum(G, f, T)}
<1>1. SUFFICES ASSUME Bad # {} PROVE FALSE
  OBVIOUS
<1>2. PICK T \in Bad : \A U \in Bad : U \subseteq T => U = T
  <2>1. Bad \in SUBSET SUBSET S
    OBVIOUS
  <2> HIDE DEF Bad
  <2> QED
    BY <1>1, <2>1, SmallestSet
<1>3. T # {}
  <2>1. IsSum([U \in SUBSET {} |-> 0], f, {})
    BY DEF IsSum
  <2> QED
    BY <2>1
<1>4. PICK x \in T : TRUE
  BY <1>3
<1>5. PICK G : IsSum(G, f, T \ {x})
  BY <1>2, <1>4
<1> DEFINE H == [U \in SUBSET T |-> IF x \in U THEN f[x] + G[U \ {x}] ELSE G[U]]
<1>6. IsSum(H, f, T)
  <2>1. f[x] \in Int /\ \A U \in SUBSET T : G[U \ {x}] \in Int /\ (x \notin U => G[U] \in Int)
    BY <1>5 DEF IsSum
  <2>2. H \in [SUBSET T -> Int] /\ H[{}] = 0
    BY <1>5, <2>1 DEF IsSum
  <2>3. ASSUME NEW U \in SUBSET T, NEW y \in U PROVE H[U] = f[y] + H[U \ {y}]
    <3>1. CASE x \notin U
      BY <1>5, <3>1 DEF IsSum
    <3>2. CASE x = y
      BY <1>5, <3>2
    <3>3. CASE x \in U /\ x # y
      <4>1. H[U] = f[x] + G[U \ {x}] /\ H[U \ {y}] = f[x] + G[(U \ {y}) \ {x}]
        BY <3>3
      <4>2. G[U \ {x}] = f[y] + G[(U \ {x}) \ {y}]
        BY <1>5, <3>3 DEF IsSum
      <4>3. (U \ {x}) \ {y} = (U \ {y}) \ {x}
        OBVIOUS
      <4>4. f[y] \in Int /\ G[(U \ {y}) \ {x}] \in Int
        BY <2>1
      <4>5. G[U \ {x}] = f[y] + G[(U \ {y}) \ {x}]
        BY <4>2, <4>3
      <4> HIDE DEF H
      <4> QED
        BY <2>1, <4>1, <4>4, <4>5
    <3> QED
      BY <3>1, <3>2, <3>3
  <2> QED
    BY <2>2, <2>3 DEF IsSum
<1> QED
  BY <1>2, <1>6

(* Whatever order the fold of the library takes, it gives that sum. *)
LEMMA SumIs ==
    ASSUME NEW S, IsFiniteSet(S), NEW f, NEW G, IsSum(G, f, S)
    PROVE  SumFunctionOnSet(f, S) = G[S]
<1> DEFINE Picked(T) == CHOOSE x \in T : TRUE
           Unfolds(h) == h = [T \in SUBSET S |->
                                 IF T = {} THEN 0 ELSE f[Picked(T)] + h[T \ {Picked(T)}]]
           sum == CHOOSE h : Unfolds(h)
<1>1. SumFunctionOnSet(f, S) = sum[S]
  BY DEF SumFunctionOnSet, FoldFunctionOnSet, MapThenFoldSet
<1>2. Unfolds(G)
  <2>1. \A T \in SUBSET S : T # {} => Picked(T) \in T
    OBVIOUS
  <2> HIDE DEF Picked
  <2>2. \A T \in SUBSET S : G[T] = IF T = {} THEN 0 ELSE f[Picked(T)] + G[T \ {Picked(T)}]
    BY <2>1 DEF IsSum
  <2> QED
    BY <2>2 DEF IsSum
<1>3. Unfolds(sum)
  BY <1>2
<1>4. sum[S] = G[S]
  <2> DEFINE Bad == {T \in SUBSET S : sum[T] # G[T]}
  <2>1. SUFFICES ASSUME Bad # {} PROVE FALSE
    OBVIOUS
  <2> HIDE DEF sum
  <2>a. Bad \in SUBSET SUBSET S
    OBVIOUS
  <2>2. PICK T \in Bad : \A U \in Bad : U \subseteq T => U = T
    <3> HIDE DEF Bad
    <3> QED
      BY <2>1, <2>a, SmallestSet
  <2>3. T # {}
    BY <1>3, <2>2 DEF IsSum
  <2>4. Picked(T) \in T
    BY <2>3
  <2> HIDE DEF Picked
  <2>5. sum[T \ {Picked(T)}] = G[T \ {Picked(T)}]
    BY <2>2, <2>4
  <2>6. sum[T] = f[Picked(T)] + sum[T \ {Picked(T)}]
    BY <1>3, <2>3
  <2> QED
    BY <2>2, <2>4, <2>5, <2>6 DEF IsSum
<1> QED
  BY <1>1, <1>4

(* What a sum over a finite set of indices is. *)
LEMMA SumLaws ==
    ASSUME NEW S, IsFiniteSet(S), NEW f, \A x \in S : f[x] \in Int
    PROVE  /\ SumFunctionOnSet(f, {}) = 0
           /\ \A T \in SUBSET S :
                 /\ SumFunctionOnSet(f, T) \in Int
                 /\ \A x \in T : SumFunctionOnSet(f, T) = f[x] + SumFunctionOnSet(f, T \ {x})
<1>1. PICK G : IsSum(G, f, S)
  BY SumExists
<1>2. ASSUME NEW T \in SUBSET S PROVE SumFunctionOnSet(f, T) = G[T]
  <2> DEFINE H == [U \in SUBSET T |-> G[U]]
  <2>1. IsSum(H, f, T)
    BY <1>1 DEF IsSum
  <2>2. IsFiniteSet(T)
    BY FS_Subset
  <2> HIDE DEF H
  <2>3. SumFunctionOnSet(f, T) = H[T]
    BY <2>1, <2>2, SumIs
  <2> QED
    BY <2>3 DEF H
<1> QED
  BY <1>1, <1>2 DEF IsSum

(* A sum over two disjoint sets of indices. *)
LEMMA SumSplit ==
    ASSUME NEW S, IsFiniteSet(S), NEW f, \A x \in S : f[x] \in Int,
           NEW A \in SUBSET S, NEW B \in SUBSET S, A \cap B = {}
    PROVE  SumFunctionOnSet(f, A \cup B) = SumFunctionOnSet(f, A) + SumFunctionOnSet(f, B)
<1> DEFINE Bad == {T \in SUBSET B : SumFunctionOnSet(f, A \cup T)
                                       # SumFunctionOnSet(f, A) + SumFunctionOnSet(f, T)}
<1>1. SUFFICES ASSUME Bad # {} PROVE FALSE
  OBVIOUS
<1>2. PICK T \in Bad : \A U \in Bad : U \subseteq T => U = T
  <2>1. Bad \in SUBSET SUBSET S
    OBVIOUS
  <2> HIDE DEF Bad
  <2> QED
    BY <1>1, <2>1, SmallestSet
<1>3. /\ SumFunctionOnSet(f, {}) = 0
      /\ \A U \in SUBSET S :
            /\ SumFunctionOnSet(f, U) \in Int
            /\ \A x \in U : SumFunctionOnSet(f, U) = f[x] + SumFunctionOnSet(f, U \ {x})
  BY SumLaws
<1>4. T # {}
  <2>1. A \cup {} = A
    OBVIOUS
  <2>2. SumFunctionOnSet(f, A \cup {}) = SumFunctionOnSet(f, A) + SumFunctionOnSet(f, {})
    BY <1>3, <2>1
  <2> QED
    BY <1>2, <2>2
<1>5. PICK x \in T : TRUE
  BY <1>4
<1>6. SumFunctionOnSet(f, A \cup (T \ {x}))
        = SumFunctionOnSet(f, A) + SumFunctionOnSet(f, T \ {x})
  BY <1>2, <1>5
<1>7. SumFunctionOnSet(f, T) = f[x] + SumFunctionOnSet(f, T \ {x})
  BY <1>3, <1>5
<1>8. SumFunctionOnSet(f, A \cup T) = f[x] + SumFunctionOnSet(f, A \cup (T \ {x}))
  <2>1. (A \cup T) \ {x} = A \cup (T \ {x}) /\ x \in A \cup T /\ A \cup T \in SUBSET S
    BY <1>5
  <2> QED
    BY <1>3, <2>1
<1>9. /\ SumFunctionOnSet(f, A) \in Int /\ SumFunctionOnSet(f, T \ {x}) \in Int /\ f[x] \in Int
      /\ SumFunctionOnSet(f, A \cup T) # SumFunctionOnSet(f, A) + SumFunctionOnSet(f, T)
  BY <1>2, <1>3, <1>5
<1> QED
  BY <1>6, <1>7, <1>8, <1>9

(* Natural numbers add up to a natural number, and to more the more they are. *)
LEMMA SumGrows ==
    ASSUME NEW S, IsFiniteSet(S), NEW f, \A x \in S : f[x] \in Nat,
           NEW B \in SUBSET S, NEW A \in SUBSET B
    PROVE  /\ SumFunctionOnSet(f, A) \in Nat /\ SumFunctionOnSet(f, B) \in Nat
           /\ SumFunctionOnSet(f, A) <= SumFunctionOnSet(f, B)
<1> DEFINE Bad == {T \in SUBSET S : SumFunctionOnSet(f, T) \notin Nat}
<1>1. /\ SumFunctionOnSet(f, {}) = 0
      /\ \A U \in SUBSET S :
            /\ SumFunctionOnSet(f, U) \in Int
            /\ \A x \in U : SumFunctionOnSet(f, U) = f[x] + SumFunctionOnSet(f, U \ {x})
  BY SumLaws
<1>2. Bad = {}
  <2>1. SUFFICES ASSUME Bad # {} PROVE FALSE
    OBVIOUS
  <2>2. PICK T \in Bad : \A U \in Bad : U \subseteq T => U = T
    <3>1. Bad \in SUBSET SUBSET S
      OBVIOUS
    <3> HIDE DEF Bad
    <3> QED
      BY <2>1, <3>1, SmallestSet
  <2>3. PICK x \in T : TRUE
    <3>1. {} \notin Bad
      BY <1>1
    <3> HIDE DEF Bad
    <3> QED
      BY <2>2, <3>1
  <2>4. SumFunctionOnSet(f, T \ {x}) \in Nat
    BY <2>2, <2>3
  <2> QED
    BY <1>1, <2>2, <2>3, <2>4
<1>3. \A T \in SUBSET S : SumFunctionOnSet(f, T) \in Nat
  BY <1>2
<1>4. A \cup (B \ A) = B /\ A \cap (B \ A) = {} /\ A \in SUBSET S /\ B \ A \in SUBSET S
  OBVIOUS
<1>5. SumFunctionOnSet(f, B) = SumFunctionOnSet(f, A) + SumFunctionOnSet(f, B \ A)
  BY <1>4, SumSplit
<1>6. SumFunctionOnSet(f, A) \in Nat /\ SumFunctionOnSet(f, B) \in Nat /\ SumFunctionOnSet(f, B \ A) \in Nat
  BY <1>3
<1> HIDE DEF Bad
<1> QED
  BY <1>5, <1>6

(* A sum does not depend on how the indices are named. *)
LEMMA SumRenamed ==
    ASSUME NEW S, IsFiniteSet(S), NEW Q, IsFiniteSet(Q), NEW p \in [S -> Q],
           \A x, y \in S : p[x] = p[y] => x = y, \A y \in Q : \E x \in S : p[x] = y,
           NEW f, NEW g, \A x \in S : g[x] = f[p[x]] /\ g[x] \in Int
    PROVE  SumFunctionOnSet(g, S) = SumFunctionOnSet(f, Q)
<1> DEFINE Image(T) == {p[x] : x \in T}
           Bad == {T \in SUBSET S : SumFunctionOnSet(g, T) # SumFunctionOnSet(f, Image(T))}
<1>1. SUFFICES ASSUME Bad # {} PROVE FALSE
  <2>1. Image(S) = Q
    OBVIOUS
  <2> QED
    BY <2>1
<1>2. PICK T \in Bad : \A U \in Bad : U \subseteq T => U = T
  <2>1. Bad \in SUBSET SUBSET S
    OBVIOUS
  <2> HIDE DEF Bad
  <2> QED
    BY <1>1, <2>1, SmallestSet
<1>3. /\ SumFunctionOnSet(g, {}) = 0
      /\ \A U \in SUBSET S :
            /\ SumFunctionOnSet(g, U) \in Int
            /\ \A x \in U : SumFunctionOnSet(g, U) = g[x] + SumFunctionOnSet(g, U \ {x})
  BY SumLaws
<1>4. /\ SumFunctionOnSet(f, {}) = 0
      /\ \A U \in SUBSET Image(S) :
            /\ SumFunctionOnSet(f, U) \in Int
            /\ \A x \in U : SumFunctionOnSet(f, U) = f[x] + SumFunctionOnSet(f, U \ {x})
  <2>1. Image(S) \in SUBSET Q /\ \A y \in Image(S) : f[y] \in Int
    OBVIOUS
  <2>2. IsFiniteSet(Image(S))
    BY <2>1, FS_Subset
  <2> HIDE DEF Image
  <2> QED
    BY <2>1, <2>2, SumLaws
<1>5. T # {}
  <2>1. Image({}) = {}
    OBVIOUS
  <2> QED
    BY <1>2, <1>3, <1>4, <2>1
<1>6. PICK x \in T : TRUE
  BY <1>5
<1>7. /\ Image(T) \in SUBSET Image(S) /\ p[x] \in Image(T)
      /\ Image(T) \ {p[x]} = Image(T \ {x})
  BY <1>6
<1>8. SumFunctionOnSet(g, T \ {x}) = SumFunctionOnSet(f, Image(T \ {x}))
  BY <1>2, <1>6
<1>9. g[x] = f[p[x]]
  BY <1>6
<1> HIDE DEF Image
<1> QED
  <2>1. SumFunctionOnSet(f, Image(T)) = f[p[x]] + SumFunctionOnSet(f, Image(T) \ {p[x]})
    BY <1>4, <1>7
  <2>2. SumFunctionOnSet(g, T) = g[x] + SumFunctionOnSet(g, T \ {x})
    BY <1>3, <1>6
  <2>3. SumFunctionOnSet(g, T) = SumFunctionOnSet(f, Image(T))
    BY <1>7, <1>8, <1>9, <2>1, <2>2
  <2> QED
    BY <1>2, <2>3

(* A sum taken part by part. *)
LEMMA SumByParts ==
    ASSUME NEW S, IsFiniteSet(S), NEW f, \A x \in S : f[x] \in Int,
           NEW K, IsFiniteSet(K), NEW part \in [K -> SUBSET S],
           \A j, k \in K : j # k => part[j] \cap part[k] = {},
           NEW h, \A k \in K : h[k] = SumFunctionOnSet(f, part[k])
    PROVE  SumFunctionOnSet(h, K) = SumFunctionOnSet(f, UNION {part[k] : k \in K})
<1> DEFINE Parts(L) == UNION {part[k] : k \in L}
           Bad == {L \in SUBSET K : SumFunctionOnSet(h, L) # SumFunctionOnSet(f, Parts(L))}
<1>1. SUFFICES ASSUME Bad # {} PROVE FALSE
  OBVIOUS
<1>2. PICK L \in Bad : \A U \in Bad : U \subseteq L => U = L
  <2>1. Bad \in SUBSET SUBSET K
    OBVIOUS
  <2> HIDE DEF Bad
  <2> QED
    BY <1>1, <2>1, SmallestSet
<1>3. /\ SumFunctionOnSet(h, {}) = 0
      /\ \A U \in SUBSET K :
            /\ SumFunctionOnSet(h, U) \in Int
            /\ \A x \in U : SumFunctionOnSet(h, U) = h[x] + SumFunctionOnSet(h, U \ {x})
  <2>1. \A k \in K : h[k] \in Int
    BY SumLaws
  <2> QED
    BY <2>1, SumLaws
<1>4. L # {}
  <2>1. Parts({}) = {} /\ SumFunctionOnSet(f, {}) = 0
    BY SumLaws
  <2> QED
    BY <1>2, <1>3, <2>1
<1>5. PICK x \in L : TRUE
  BY <1>4
<1>6. SumFunctionOnSet(h, L \ {x}) = SumFunctionOnSet(f, Parts(L \ {x}))
  BY <1>2, <1>5
<1>7. SumFunctionOnSet(f, Parts(L \ {x}) \cup part[x])
         = SumFunctionOnSet(f, Parts(L \ {x})) + SumFunctionOnSet(f, part[x])
  <2>1. Parts(L \ {x}) \in SUBSET S /\ part[x] \in SUBSET S
    BY <1>5
  <2>2. Parts(L \ {x}) \cap part[x] = {}
    BY <1>5
  <2>3. ASSUME NEW A \in SUBSET S, NEW B \in SUBSET S, A \cap B = {}
        PROVE  SumFunctionOnSet(f, A \cup B) = SumFunctionOnSet(f, A) + SumFunctionOnSet(f, B)
    BY <2>3, SumSplit
  <2> HIDE DEF Parts, Bad
  <2> QED
    BY <2>1, <2>2, <2>3
<1>8. Parts(L \ {x}) \cup part[x] = Parts(L)
  BY <1>5
<1>9. /\ SumFunctionOnSet(h, L) = h[x] + SumFunctionOnSet(h, L \ {x})
      /\ h[x] = SumFunctionOnSet(f, part[x]) /\ h[x] \in Int /\ SumFunctionOnSet(h, L \ {x}) \in Int
  BY <1>3, <1>5, SumLaws
<1>10. SumFunctionOnSet(h, L) # SumFunctionOnSet(f, Parts(L))
  BY <1>2
<1>11. SumFunctionOnSet(f, Parts(L))
         = SumFunctionOnSet(f, Parts(L \ {x})) + SumFunctionOnSet(f, part[x])
  BY <1>7, <1>8
<1> HIDE DEF Parts, Bad
<1> QED
  BY <1>6, <1>9, <1>10, <1>11

-----------------------------------------------------------------------------
(* Orders.                                                                 *)

(* R orders S, and may leave members equal. *)
WeakOrder(R, S) ==
    /\ \A i \in S : <<i, i>> \notin R
    /\ \A i, j, k \in S : <<i, j>> \in R /\ <<j, k>> \in R => <<i, k>> \in R
    /\ \A i, j, k \in S : <<i, k>> \in R => <<i, j>> \in R \/ <<j, k>> \in R

(* The first of the least. *)
IsFirst(i, T, R) == \A j \in T : <<j, i>> \notin R /\ (<<i, j>> \notin R => i <= j)

(* A finite set of numbers has a first of the least in every such order.   *)
LEMMA FirstOfLeast ==
    ASSUME NEW S, IsFiniteSet(S), S \subseteq Int, S # {}, NEW R, WeakOrder(R, S)
    PROVE  \E i \in S : IsFirst(i, S, R)
<1> DEFINE Bad == {T \in SUBSET S : T # {} /\ \A i \in T : ~IsFirst(i, T, R)}
<1>1. SUFFICES ASSUME Bad # {} PROVE FALSE
  OBVIOUS
<1>2. PICK T \in Bad : \A U \in Bad : U \subseteq T => U = T
  <2>1. Bad \in SUBSET SUBSET S /\ IsFiniteSet(S)
    OBVIOUS
  <2> HIDE DEF Bad
  <2> QED
    BY ONLY <1>1, <2>1, SmallestSet
<1>3. T \subseteq S /\ T # {} /\ \A i \in T : ~IsFirst(i, T, R)
  BY <1>2
<1>4. PICK x \in T : TRUE
  BY <1>3
<1>5. x \in Int /\ <<x, x>> \notin R
  BY <1>3, <1>4 DEF WeakOrder
<1>6. T \ {x} # {}
  <2> SUFFICES ASSUME T = {x} PROVE FALSE
    BY <1>4
  <2>1. IsFirst(x, T, R)
    BY <1>5 DEF IsFirst
  <2> QED
    BY <1>3, <1>4, <2>1
<1>7. PICK y \in T \ {x} : IsFirst(y, T \ {x}, R)
  <2>1. T \ {x} \notin Bad
    <3> HIDE DEF Bad
    <3> QED
      BY <1>2, <1>4
  <2> QED
    BY <1>3, <1>6, <2>1
<1>8. y \in S /\ x \in S /\ y \in Int /\ <<y, y>> \notin R
  BY <1>3 DEF WeakOrder
<1>9. CASE <<x, y>> \in R \/ (<<y, x>> \notin R /\ x <= y)
  <2>1. ASSUME NEW j \in T, j # x
        PROVE  <<j, x>> \notin R /\ (<<x, j>> \notin R => x <= j)
    <3>1. <<j, y>> \notin R /\ (<<y, j>> \notin R => y <= j) /\ j \in S /\ j \in Int
      BY <1>3, <1>7, <2>1 DEF IsFirst
    <3>2. /\ <<j, x>> \in R /\ <<x, y>> \in R => <<j, y>> \in R
          /\ <<j, x>> \in R => <<j, y>> \in R \/ <<y, x>> \in R
          /\ <<x, y>> \in R => <<x, j>> \in R \/ <<j, y>> \in R
          /\ <<y, j>> \in R => <<y, x>> \in R \/ <<x, j>> \in R
      BY <1>8, <3>1 DEF WeakOrder
    <3> QED
      BY <1>5, <1>8, <1>9, <3>1, <3>2
  <2>2. <<x, x>> \notin R /\ (<<x, x>> \notin R => x <= x)
    BY <1>5
  <2>3. IsFirst(x, T, R)
    BY <2>1, <2>2, Zenon DEF IsFirst
  <2> QED
    BY <1>3, <1>4, <2>3
<1>10. CASE <<x, y>> \notin R /\ (<<y, x>> \in R \/ ~(x <= y))
  <2>1. <<x, y>> \notin R /\ (<<y, x>> \notin R => y <= x)
    BY <1>5, <1>8, <1>10
  <2>2. IsFirst(y, T, R)
    BY <1>7, <2>1 DEF IsFirst
  <2> QED
    BY <1>3, <1>7, <2>2
<1> QED
  BY <1>9, <1>10

(* Tuples of numbers are ordered from left to right. *)
LEMMA LexOrder ==
    ASSUME NEW n \in Nat, NEW k \in [1..n -> Int], NEW l \in [1..n -> Int],
           NEW m \in [1..n -> Int]
    PROVE  /\ ~LexLess(k, k)
           /\ LexLess(k, l) /\ LexLess(l, m) => LexLess(k, m)
           /\ ~LexLess(k, l) /\ ~LexLess(l, k) => k = l
<1>1. ~LexLess(k, k)
  BY DEF LexLess
<1>2. ASSUME LexLess(k, l), LexLess(l, m) PROVE LexLess(k, m)
  <2>1. PICK i \in 1..n : k[i] < l[i] /\ \A j \in 1..(i - 1) : k[j] = l[j]
    BY <1>2 DEF LexLess
  <2>2. PICK j \in 1..n : l[j] < m[j] /\ \A h \in 1..(j - 1) : l[h] = m[h]
    BY <1>2 DEF LexLess
  <2>3. CASE i <= j
    <3>1. k[i] < m[i] /\ i \in DOMAIN k
      BY <2>1, <2>2, <2>3
    <3>2. \A h \in 1..(i - 1) : k[h] = m[h]
      BY <2>1, <2>2, <2>3
    <3> QED
      BY ONLY <3>1, <3>2 DEF LexLess
  <2>4. CASE j < i
    <3>1. k[j] < m[j] /\ j \in DOMAIN k
      BY <2>1, <2>2, <2>4
    <3>2. \A h \in 1..(j - 1) : k[h] = m[h]
      BY <2>1, <2>2, <2>4
    <3> QED
      BY ONLY <3>1, <3>2 DEF LexLess
  <2> QED
    BY <2>3, <2>4
<1>3. ASSUME k # l PROVE LexLess(k, l) \/ LexLess(l, k)
  <2> DEFINE D == {i \in 1..n : k[i] # l[i]}
  <2>1. D # {} /\ D \subseteq Int /\ IsFiniteSet(D)
    <3>1. IsFiniteSet(1..n) /\ D \in SUBSET (1..n)
      BY FS_Interval
    <3>2. IsFiniteSet(D)
      BY <3>1, FS_Subset
    <3> QED
      <4>1. \E i \in 1..n : k[i] # l[i]
        BY <1>3
      <4> QED
        BY <3>2, <4>1
  <2>2. PICK i \in D : \A j \in D : i <= j
    <3> HIDE DEF D
    <3>1. WeakOrder({}, D)
      BY DEF WeakOrder
    <3>2. PICK i \in D : IsFirst(i, D, {})
      BY <2>1, <3>1, FirstOfLeast
    <3> QED
      BY <3>2 DEF IsFirst
  <2>3. i \in 1..n /\ k[i] # l[i]
    BY <2>2
  <2>4. \A j \in 1..(i - 1) : k[j] = l[j]
    <3> SUFFICES ASSUME NEW j \in 1..(i - 1), k[j] # l[j] PROVE FALSE
      OBVIOUS
    <3>1. j \in D /\ j < i
      BY <2>3
    <3> QED
      BY <2>2, <2>3, <3>1
  <2>5. k[i] \in Int /\ l[i] \in Int /\ DOMAIN k = 1..n /\ DOMAIN l = 1..n
    BY <2>3
  <2> QED
    <3>1. CASE k[i] < l[i]
      BY <2>3, <2>4, <2>5, <3>1 DEF LexLess
    <3>2. CASE l[i] < k[i]
      <4>1. \A j \in 1..(i - 1) : l[j] = k[j]
        BY <2>4
      <4> QED
        BY <2>3, <2>5, <3>2, <4>1 DEF LexLess
    <3> QED
      BY <2>3, <2>5, <3>1, <3>2
<1> QED
  BY <1>1, <1>2, <1>3

-----------------------------------------------------------------------------
(* The measurement that represents a group, and its weakest encryption.    *)

(* The parser's channel of a frequency. *)
LEMMA ChannelIsNumber ==
    ASSUME NEW f \in Nat \cup {None}
    PROVE  ChannelFromFrequency(f) \in Int \cup {None}
<1>1. None \notin Int
  BY NoneAssumption
<1>2. CASE f = None
  <2>1. f \notin 2412..2472 /\ f # 2484 /\ f \notin 5000..5900 /\ f \notin 5955..7115
    BY <1>1, <1>2
  <2> QED
    BY ONLY <1>2, <2>1 DEF ChannelFromFrequency
<1>3. CASE f \in Nat
  <2>1. ChannelFromFrequency(f) \in {None, 14, (f - 2407) \div 5, (f - 5000) \div 5,
                                     (f - 5950) \div 5}
    BY ONLY DEF ChannelFromFrequency
  <2>2. (f - 2407) \div 5 \in Int /\ (f - 5000) \div 5 \in Int /\ (f - 5950) \div 5 \in Int
    BY <1>3
  <2> QED
    BY ONLY <2>1, <2>2
<1> QED
  BY <1>2, <1>3

(* The fields of a stored row that findings are made of. *)
LEMMA StoredFields ==
    ASSUME NEW row \in StoredRows
    PROVE  /\ row.time \in Nat /\ row.times \in Nat
           /\ row.place \in Places /\ row.channel \in Int
           /\ row.frequency \in Nat \cup {None} /\ row.band \in Bands
<1>1. PICK r \in Receptions : /\ SkipReason(r.frame, r.fix) = None
                              /\ row = Row(r.frame, r.fix, r.time, r.times)
  BY DEF StoredRows
<1>2. "unsupported" # None /\ "missing_fix" # None
  BY NoneAssumption DEF Skips
<1>3. Parsed(r.frame) /\ r.fix # None
  BY <1>1, <1>2 DEF SkipReason
<1>4. /\ row.time = r.time /\ row.times = r.times /\ row.place = r.fix.place
      /\ row.channel = Channel(r.frame) /\ row.frequency = r.frame.frequency
      /\ row.band = Band(Channel(r.frame), r.frame.frequency)
  BY <1>1 DEF Row
<1>5. r.frame.frequency \in Nat \cup {None} /\ r.frame.element \in Nat \cup {None}
  BY ReceptionsAssumption
<1>6. Channel(r.frame) \in Int
  <2>1. ChannelFromFrequency(r.frame.frequency) \in Int \cup {None}
    BY <1>5, ChannelIsNumber
  <2>2. Channel(r.frame) # None
    BY <1>3 DEF Parsed
  <2> QED
    BY <1>5, <2>1, <2>2 DEF Channel
<1>7. Band(Channel(r.frame), r.frame.frequency) \in Bands
  <2>1. \A c, f : Band(c, f) \in {"2.4GHz", "5GHz", "6GHz", None}
    BY ONLY DEF Band
  <2>2. Band(Channel(r.frame), r.frame.frequency) # None
    BY <1>3 DEF Parsed
  <2> QED
    BY <2>1, <2>2 DEF Bands
<1> QED
  BY <1>3, <1>4, <1>5, <1>6, <1>7, ReceptionsAssumption

(* What Ingestion accepts. *)
LEMMA AcceptedFields ==
    ASSUME NEW row, IngestionReason(row) = None
    PROVE  row.rssi \in -120..0 /\ row.band \in {"2.4GHz", "5GHz"}
<1>1. None \notin {"missing_bssid", "invalid_rssi", "invalid_latitude", "invalid_gps_mode",
                   "invalid_channel", "invalid_band"}
  BY NoneAssumption DEF IngestionReasons
<1> QED
  BY <1>1 DEF IngestionReason

(* Rows that Processing makes findings of. *)
Rows(rows, indices) ==
    /\ rows \in Seq(StoredRows)
    /\ indices \subseteq AcceptedRows(rows)

(* Such rows are finitely many. *)
LEMMA RowsFinite ==
    ASSUME NEW rows, NEW indices, Rows(rows, indices)
    PROVE  /\ IsFiniteSet(DOMAIN rows) /\ DOMAIN rows \subseteq Nat
           /\ indices \subseteq DOMAIN rows /\ IsFiniteSet(indices)
<1>1. indices \subseteq DOMAIN rows
  BY DEF Rows, AcceptedRows
<1>2. DOMAIN rows = 1..Len(rows) /\ Len(rows) \in Nat
  BY DEF Rows
<1>3. IsFiniteSet(DOMAIN rows)
  BY <1>2, FS_Interval
<1> QED
  BY <1>1, <1>2, <1>3, FS_Subset

(* Keys are tuples of numbers. *)
LEMMA KeyIsNumbers ==
    ASSUME NEW rows, NEW i, Rows(rows, {i})
    PROVE  RepresentativeKey(rows[i]) \in [1..7 -> Int]
<1>1. i \in DOMAIN rows /\ rows[i] \in StoredRows /\ IngestionReason(rows[i]) = None
  BY DEF Rows, AcceptedRows
<1> DEFINE o == rows[i]
<1>2. -o.rssi \in Int /\ o.time \in Int /\ o.place \in Int /\ o.channel \in Int
  <2>1. o.rssi \in -120..0 /\ o.time \in Nat /\ o.place \in Places /\ o.channel \in Int
    BY <1>1, StoredFields, AcceptedFields
  <2>2. \A n \in -120..0 : -n \in Int
    OBVIOUS
  <2>3. o.place \in Int
    BY <2>1, CoversAssumption
  <2> QED
    BY ONLY <2>1, <2>2, <2>3
<1>3. (IF o.frequency = None THEN -1 ELSE o.frequency) \in Int
  BY <1>1, StoredFields
<1>4. Rank(o.band, <<"2.4GHz", "5GHz", "6GHz">>) \in Int
  <2>1. o.band \in Bands
    BY <1>1, StoredFields
  <2>2. \E b \in DOMAIN <<"2.4GHz", "5GHz", "6GHz">> : <<"2.4GHz", "5GHz", "6GHz">>[b] = o.band
    BY <2>1 DEF Bands
  <2> QED
    BY <2>2 DEF Rank
<1>5. Rank(Category(o.encryption), <<"ENTERPRISE", "OPEN", "OUTDATED", "UNKNOWN",
                                     "WPA2", "WPA2_OR_WPA3", "WPA3">>) \in Int
  <2> DEFINE order == <<"ENTERPRISE", "OPEN", "OUTDATED", "UNKNOWN",
                        "WPA2", "WPA2_OR_WPA3", "WPA3">>
  <2>1. Category(o.encryption) \in Categories
    BY DEF Category, Categories
  <2>2. \E c \in DOMAIN order : order[c] = Category(o.encryption)
    BY <2>1 DEF Categories
  <2> HIDE DEF order
  <2>3. order = <<"ENTERPRISE", "OPEN", "OUTDATED", "UNKNOWN", "WPA2", "WPA2_OR_WPA3", "WPA3">>
    BY DEF order
  <2>4. DOMAIN order \subseteq Int
    BY <2>3
  <2>5. Rank(Category(o.encryption), order) \in Int
    BY <2>2, <2>4 DEF Rank
  <2> QED
    BY <2>3, <2>5
<1> HIDE DEF o
<1>6. RepresentativeKey(o) \in [1..7 -> Int]
  BY <1>2, <1>3, <1>4, <1>5 DEF RepresentativeKey
<1> QED
  BY <1>6 DEF o

(* The representative is in its group, and the first of the least keys. *)
LEMMA RepresentativeIs ==
    ASSUME NEW rows, NEW group, Rows(rows, group), group # {}
    PROVE  /\ Representative(rows, group) \in group
           /\ \A j \in group : ~LexLess(RepresentativeKey(rows[j]),
                                        RepresentativeKey(rows[Representative(rows, group)]))
<1> DEFINE K(i) == RepresentativeKey(rows[i])
           R == {p \in group \X group : LexLess(K(p[1]), K(p[2]))}
<1>1. \A i \in group : K(i) \in [1..7 -> Int]
  <2>1. \A i \in group : Rows(rows, {i})
    BY DEF Rows
  <2> QED
    BY <2>1, KeyIsNumbers
<1>2. \A i, j \in group : <<i, j>> \in R <=> LexLess(K(i), K(j))
  OBVIOUS
<1>3. IsFiniteSet(group) /\ group \subseteq Int
  BY RowsFinite
<1> HIDE DEF K, R
<1>4. \A i, j, k \in group :
         /\ ~LexLess(K(i), K(i))
         /\ LexLess(K(i), K(j)) /\ LexLess(K(j), K(k)) => LexLess(K(i), K(k))
         /\ ~LexLess(K(i), K(j)) /\ ~LexLess(K(j), K(i)) => K(i) = K(j)
  <2> SUFFICES ASSUME NEW i \in group, NEW j \in group, NEW k \in group
      PROVE  /\ ~LexLess(K(i), K(i))
             /\ LexLess(K(i), K(j)) /\ LexLess(K(j), K(k)) => LexLess(K(i), K(k))
             /\ ~LexLess(K(i), K(j)) /\ ~LexLess(K(j), K(i)) => K(i) = K(j)
    OBVIOUS
  <2>1. 7 \in Nat /\ K(i) \in [1..7 -> Int] /\ K(j) \in [1..7 -> Int] /\ K(k) \in [1..7 -> Int]
    BY <1>1
  <2> QED
    BY ONLY <2>1, LexOrder
<1>5. WeakOrder(R, group)
  <2>1. \A i \in group : <<i, i>> \notin R
    BY <1>2, <1>4
  <2>2. ASSUME NEW i \in group, NEW j \in group, NEW k \in group
        PROVE  /\ <<i, j>> \in R /\ <<j, k>> \in R => <<i, k>> \in R
               /\ <<i, k>> \in R => <<i, j>> \in R \/ <<j, k>> \in R
    <3>1. /\ <<i, j>> \in R <=> LexLess(K(i), K(j))
          /\ <<j, k>> \in R <=> LexLess(K(j), K(k))
          /\ <<i, k>> \in R <=> LexLess(K(i), K(k))
      BY <1>2
    <3>2. /\ LexLess(K(i), K(j)) /\ LexLess(K(j), K(k)) => LexLess(K(i), K(k))
          /\ LexLess(K(j), K(i)) /\ LexLess(K(i), K(k)) => LexLess(K(j), K(k))
          /\ ~LexLess(K(i), K(j)) /\ ~LexLess(K(j), K(i)) => K(i) = K(j)
      BY <1>4
    <3> QED
      BY ONLY <3>1, <3>2
  <2> QED
    BY <2>1, <2>2 DEF WeakOrder
<1>6. PICK i \in group : IsFirst(i, group, R)
  BY <1>3, <1>5, FirstOfLeast
<1>7. \A j \in group : ~LexLess(K(j), K(i)) /\ (~LexLess(K(i), K(j)) => i <= j)
  BY <1>2, <1>6 DEF IsFirst
<1>8. Representative(rows, group)
        = CHOOSE b \in group : \A j \in group : ~LexLess(K(j), K(b)) /\ (~LexLess(K(b), K(j)) => b <= j)
  BY DEF Representative, FirstMin, K
<1>9. /\ Representative(rows, group) \in group
      /\ \A j \in group : ~LexLess(K(j), K(Representative(rows, group)))
  BY <1>7, <1>8
<1> QED
  BY <1>9 DEF K

(* The encryption shown is that of a row of the group, and none is weaker. *)
LEMMA WeakestIs ==
    ASSUME NEW rows, NEW group, Rows(rows, group), group # {}
    PROVE  \E w \in group :
               /\ WeakestEncryption(rows, group) = Category(rows[w].encryption)
               /\ \A j \in group : Strength[Category(rows[w].encryption)]
                                      <= Strength[Category(rows[j].encryption)]
<1> DEFINE Of(i) == Category(rows[i].encryption)
           R == {p \in group \X group : Strength[Of(p[1])] < Strength[Of(p[2])]}
<1>1. \A i : Strength[Of(i)] \in Nat
  <2>1. \A i : Of(i) \in Categories
    BY DEF Category, Categories
  <2>2. \A c \in Categories : Strength[c] \in Nat
    BY DEF Categories, Strength
  <2> QED
    BY <2>1, <2>2
<1>2. \A i, j \in group : <<i, j>> \in R <=> Strength[Of(i)] < Strength[Of(j)]
  OBVIOUS
<1>3. IsFiniteSet(group) /\ group \subseteq Int
  BY RowsFinite
<1> HIDE DEF Of, R
<1>4. WeakOrder(R, group)
  <2>1. \A i \in group : <<i, i>> \notin R
    BY <1>1, <1>2
  <2>2. ASSUME NEW i \in group, NEW j \in group, NEW k \in group
        PROVE  /\ <<i, j>> \in R /\ <<j, k>> \in R => <<i, k>> \in R
               /\ <<i, k>> \in R => <<i, j>> \in R \/ <<j, k>> \in R
    BY <1>1, <1>2
  <2> QED
    BY <2>1, <2>2 DEF WeakOrder
<1>5. PICK w \in group : IsFirst(w, group, R)
  BY <1>3, <1>4, FirstOfLeast
<1>6. \A j \in group : /\ ~(Strength[Of(j)] < Strength[Of(w)])
                       /\ ~(Strength[Of(w)] < Strength[Of(j)]) => w <= j
  BY <1>2, <1>5 DEF IsFirst
<1> DEFINE best == CHOOSE b \in group : \A j \in group :
                       /\ ~(Strength[Of(j)] < Strength[Of(b)])
                       /\ ~(Strength[Of(b)] < Strength[Of(j)]) => b <= j
<1>7. WeakestEncryption(rows, group) = Of(best)
  BY DEF WeakestEncryption, FirstMin, Of
<1>8. best \in group /\ \A j \in group : ~(Strength[Of(j)] < Strength[Of(best)])
  BY <1>6
<1> HIDE DEF best
<1>9. \A j \in group : Strength[Of(best)] <= Strength[Of(j)]
  BY <1>1, <1>8
<1> QED
  BY <1>7, <1>8, <1>9 DEF Of

-----------------------------------------------------------------------------
(* Findings, key by key.                                                   *)

(* The zone and network a row counts for, and the rows that count for one. *)
KeyOf(rows, i) == <<ZoneOf(rows[i]), Pseudonym(rows[i].bssid)>>
GroupOf(rows, indices, k) == {i \in indices : KeyOf(rows, i) = k}
Made(rows, indices, k) == Finding(rows, k[1], k[2], GroupOf(rows, indices, k))
Scored(f) == [finding |-> f, score |-> Score(f), level |-> AttentionLevel(Score(f))]

(* Findings are made key by key. *)
LEMMA FindingsByKey ==
    ASSUME NEW rows, NEW indices
    PROVE  Findings(rows, indices)
              = {Scored(Made(rows, indices, k)) : k \in {KeyOf(rows, i) : i \in indices}}
BY DEF Findings, Scored, Made, GroupOf, KeyOf

(* The fields of a finding. *)
LEMMA MadeFields ==
    ASSUME NEW rows, NEW indices, NEW k
    PROVE  LET group == GroupOf(rows, indices, k)
               best == rows[Representative(rows, group)]
               f == Made(rows, indices, k)
           IN  /\ f.zone = k[1] /\ f.network = k[2]
               /\ f.observation_count = Observed(rows, group)
               /\ <<best.rssi, best.time, best.place>> = <<f.strongest_rssi, f.time, f.place>>
               /\ <<best.channel, best.frequency, best.band>> = <<f.channel, f.frequency, f.band>>
               /\ f.encryption = WeakestEncryption(rows, group)
BY DEF Made, Finding

(* Every finding has a key of its own, and a group that is not empty. *)
LEMMA FindingHasGroup ==
    ASSUME NEW rows, NEW indices, NEW s \in Findings(rows, indices)
    PROVE  \E i \in indices :
               /\ s = Scored(Made(rows, indices, KeyOf(rows, i)))
               /\ s.finding = Made(rows, indices, KeyOf(rows, i))
               /\ s.score = Score(s.finding)
               /\ <<s.finding.zone, s.finding.network>> = KeyOf(rows, i)
               /\ i \in GroupOf(rows, indices, KeyOf(rows, i))
<1>1. PICK i \in indices : s = Scored(Made(rows, indices, KeyOf(rows, i)))
  BY FindingsByKey
<1>2. /\ s.finding = Made(rows, indices, KeyOf(rows, i)) /\ s.score = Score(s.finding)
  BY <1>1 DEF Scored
<1>3. <<s.finding.zone, s.finding.network>> = KeyOf(rows, i)
  <2>1. s.finding.zone = KeyOf(rows, i)[1] /\ s.finding.network = KeyOf(rows, i)[2]
    BY <1>2, MadeFields
  <2> QED
    BY <2>1 DEF KeyOf
<1>4. i \in GroupOf(rows, indices, KeyOf(rows, i))
  BY DEF GroupOf
<1> QED
  BY <1>1, <1>2, <1>3, <1>4

(* A row that is not rejected lies in the one zone it counts for. *)
LEMMA ZonedPlace ==
    ASSUME NEW row \in StoredRows
    PROVE  /\ ProcessingReason(row) = None => /\ ZoneOf(row) \in Zones
                                              /\ Covers[row.place] = {ZoneOf(row)}
           /\ \A zone : Covers[row.place] = {zone} =>
                 /\ ZoneReason(row) = None
                 /\ ZoneOf(row) = zone
<1>1. Covers[row.place] \in SUBSET Zones /\ IsFiniteSet(Zones)
  BY StoredFields, CoversAssumption
<1>2. IsFiniteSet(Covers[row.place])
  BY <1>1, FS_Subset
<1>3. "outside_approved_zone" # None /\ "ambiguous_zone" # None
  BY NoneAssumption DEF ProcessingReasons
<1>4. ASSUME ProcessingReason(row) = None
      PROVE  ZoneOf(row) \in Zones /\ Covers[row.place] = {ZoneOf(row)}
  <2>1. ZoneReason(row) = None
    BY <1>4 DEF ProcessingReason
  <2>2. Covers[row.place] # {} /\ ~(Cardinality(Covers[row.place]) > 1)
    BY <1>3, <2>1 DEF ZoneReason
  <2>3. Cardinality(Covers[row.place]) \in Nat /\ Cardinality(Covers[row.place]) # 0
    BY <1>2, <2>2, FS_CardinalityType, FS_EmptySet
  <2>4. Cardinality(Covers[row.place]) = 1
    BY <2>2, <2>3
  <2>5. PICK zone : Covers[row.place] = {zone}
    BY <1>2, <2>4, FS_Singleton
  <2>6. zone \in Zones
    BY <1>1, <2>5
  <2> QED
    BY <2>5, <2>6 DEF ZoneOf
<1>5. ASSUME NEW zone, Covers[row.place] = {zone}
      PROVE  ZoneReason(row) = None /\ ZoneOf(row) = zone
  <2>1. Cardinality({zone}) = 1
    BY FS_Singleton
  <2>2. Covers[row.place] # {} /\ ~(Cardinality(Covers[row.place]) > 1)
    BY <1>5, <2>1
  <2>3. ZoneReason(row) = None
    BY <2>2 DEF ZoneReason
  <2>4. zone \in Zones /\ \A z : Covers[row.place] = {z} => z = zone
    BY <1>1, <1>5
  <2>5. ZoneOf(row) = zone
    BY <1>5, <2>4 DEF ZoneOf
  <2> QED
    BY <2>3, <2>5
<1> QED
  BY <1>4, <1>5

(* Of keys, the first number decides first. *)
LEMMA StrongestFirst ==
    ASSUME NEW k \in [1..7 -> Int], NEW l \in [1..7 -> Int], ~LexLess(k, l)
    PROVE  k[1] >= l[1]
<1> SUFFICES ASSUME k[1] < l[1] PROVE FALSE
  OBVIOUS
<1>1. 1 \in DOMAIN k /\ \A j \in 1..(1 - 1) : k[j] = l[j]
  OBVIOUS
<1> QED
  BY <1>1 DEF LexLess

(* No row of a group is stronger than its representative. *)
LEMMA RepresentativeStrongest ==
    ASSUME NEW rows, NEW group, Rows(rows, group), NEW i \in group
    PROVE  /\ Representative(rows, group) \in group
           /\ rows[i].rssi \in -120..0
           /\ rows[Representative(rows, group)].rssi \in -120..0
           /\ rows[i].rssi <= rows[Representative(rows, group)].rssi
<1> DEFINE b == Representative(rows, group)
<1>1. b \in group /\ ~LexLess(RepresentativeKey(rows[i]), RepresentativeKey(rows[b]))
  BY RepresentativeIs
<1> HIDE DEF b
<1>2. \A j \in group : Rows(rows, {j}) /\ IngestionReason(rows[j]) = None
  BY DEF Rows, AcceptedRows
<1>3. \A j \in group : rows[j].rssi \in -120..0
  BY <1>2, AcceptedFields
<1>4. RepresentativeKey(rows[i])[1] >= RepresentativeKey(rows[b])[1]
  <2>1. RepresentativeKey(rows[i]) \in [1..7 -> Int] /\ RepresentativeKey(rows[b]) \in [1..7 -> Int]
    BY <1>1, <1>2, KeyIsNumbers
  <2> QED
    BY <1>1, <2>1, StrongestFirst
<1>5. \A o : RepresentativeKey(o)[1] = -o.rssi
  BY DEF RepresentativeKey
<1>6. rows[i].rssi \in -120..0 /\ rows[b].rssi \in -120..0
  BY <1>1, <1>3
<1>7. rows[i].rssi <= rows[b].rssi
  <2>1. \A m, n \in -120..0 : -m >= -n => m <= n
    OBVIOUS
  <2>2. -rows[i].rssi >= -rows[b].rssi
    BY <1>4, <1>5
  <2> QED
    BY ONLY <1>6, <2>1, <2>2
<1> QED
  BY <1>1, <1>6, <1>7 DEF b

(* Processing makes findings only of rows that Ingestion accepted. *)
LEMMA ZonedAreRows ==
    ASSUME NEW rows \in Seq(StoredRows), NEW indices \in SUBSET ZonedRows(rows, AcceptedRows(rows))
    PROVE  /\ Rows(rows, indices)
           /\ \A k : Rows(rows, GroupOf(rows, indices, k))
           /\ \A i \in indices : /\ rows[i] \in StoredRows
                                 /\ i \in AcceptedRows(rows)
                                 /\ ProcessingReason(rows[i]) = None
BY DEF Rows, ZonedRows, AcceptedRows, GroupOf

(* The measurement a finding shows. *)
LEMMA WholeFindings ==
    ASSUME NEW rows \in Seq(StoredRows), NEW s \in ResultOf(rows)
    PROVE  LET f == s.finding
               Mine == {i \in AcceptedRows(rows) : /\ Pseudonym(rows[i].bssid) = f.network
                                                   /\ Covers[rows[i].place] = {f.zone}}
           IN  /\ \E i \in Mine :
                      LET o == rows[i]
                      IN  /\ <<o.rssi, o.time, o.place>> = <<f.strongest_rssi, f.time, f.place>>
                          /\ <<o.channel, o.frequency, o.band>> = <<f.channel, f.frequency, f.band>>
               /\ \A i \in Mine : QualityReason(rows[i]) = None
                                   => rows[i].rssi <= f.strongest_rssi
<1> DEFINE zoned == ZonedRows(rows, AcceptedRows(rows))
           f == s.finding
           Mine == {i \in AcceptedRows(rows) : /\ Pseudonym(rows[i].bssid) = f.network
                                               /\ Covers[rows[i].place] = {f.zone}}
<1>1. s \in Findings(rows, zoned)
  BY DEF ResultOf
<1>2. PICK i0 \in zoned : /\ f = Made(rows, zoned, KeyOf(rows, i0))
                          /\ <<f.zone, f.network>> = KeyOf(rows, i0)
                          /\ i0 \in GroupOf(rows, zoned, KeyOf(rows, i0))
  BY <1>1, FindingHasGroup
<1> DEFINE group == GroupOf(rows, zoned, KeyOf(rows, i0))
           b == Representative(rows, group)
<1>3. Rows(rows, group) /\ \A i \in zoned : /\ rows[i] \in StoredRows
                                            /\ i \in AcceptedRows(rows)
                                            /\ ProcessingReason(rows[i]) = None
  BY ZonedAreRows
<1>4. b \in group /\ \A i \in group : rows[i].rssi <= rows[b].rssi
  BY <1>2, <1>3, RepresentativeStrongest
<1>5. /\ <<rows[b].rssi, rows[b].time, rows[b].place>> = <<f.strongest_rssi, f.time, f.place>>
      /\ <<rows[b].channel, rows[b].frequency, rows[b].band>> = <<f.channel, f.frequency, f.band>>
  BY <1>2, MadeFields
<1>6. b \in zoned /\ KeyOf(rows, b) = <<f.zone, f.network>>
  BY <1>2, <1>4 DEF GroupOf
<1>7. b \in Mine
  <2>1. ZoneOf(rows[b]) = f.zone /\ Pseudonym(rows[b].bssid) = f.network
    BY <1>6 DEF KeyOf
  <2>2. Covers[rows[b].place] = {f.zone}
    BY <1>3, <1>6, <2>1, ZonedPlace
  <2> QED
    BY <1>3, <1>6, <2>1, <2>2
<1>8. ASSUME NEW i \in Mine, QualityReason(rows[i]) = None
      PROVE  rows[i].rssi <= f.strongest_rssi
  <2>1. rows[i] \in StoredRows /\ i \in AcceptedRows(rows)
    BY <1>8 DEF AcceptedRows
  <2>2. ZoneReason(rows[i]) = None /\ ZoneOf(rows[i]) = f.zone
    BY <1>8, <2>1, ZonedPlace
  <2>3. i \in zoned
    BY <1>8, <2>1, <2>2 DEF ZonedRows, ProcessingReason
  <2>4. i \in group
    BY <1>2, <1>8, <2>2, <2>3 DEF GroupOf, KeyOf
  <2> QED
    BY <1>4, <1>5, <2>4
<1> HIDE DEF f, b, group, zoned
<1> QED
  BY <1>5, <1>7, <1>8 DEF f

-----------------------------------------------------------------------------
(* More rows, and all rows.                                                *)

(* The rows of a buffer stand for whole numbers of observations. *)
LEMMA TimesOfRows ==
    ASSUME NEW rows \in Seq(StoredRows)
    PROVE  /\ IsFiniteSet(DOMAIN rows)
           /\ \A i \in DOMAIN rows : [j \in DOMAIN rows |-> rows[j].times][i] \in Nat
<1>1. DOMAIN rows = 1..Len(rows) /\ Len(rows) \in Nat
  OBVIOUS
<1>2. \A i \in DOMAIN rows : rows[i].times \in Nat
  BY StoredFields
<1> QED
  BY <1>1, <1>2, FS_Interval

(* More rows of one kind: not fewer observations. *)
LEMMA ObservedGrows ==
    ASSUME NEW rows \in Seq(StoredRows),
           NEW more \in SUBSET DOMAIN rows, NEW fewer \in SUBSET more
    PROVE  /\ Observed(rows, fewer) \in Nat /\ Observed(rows, more) \in Nat
           /\ Observed(rows, fewer) <= Observed(rows, more)
<1> DEFINE f == [i \in DOMAIN rows |-> rows[i].times]
<1>1. IsFiniteSet(DOMAIN rows) /\ \A i \in DOMAIN rows : f[i] \in Nat
  BY TimesOfRows
<1> HIDE DEF f
<1>2. /\ SumFunctionOnSet(f, fewer) \in Nat /\ SumFunctionOnSet(f, more) \in Nat
      /\ SumFunctionOnSet(f, fewer) <= SumFunctionOnSet(f, more)
  BY <1>1, SumGrows
<1> QED
  BY <1>2 DEF f, Observed

(* Points never fall with a stronger signal, a weaker encryption or more   *)
(* observations.                                                           *)
LEMMA PointsMonotone ==
    /\ \A m, n \in Int : m <= n => SignalPoints(m) <= SignalPoints(n) /\ SignalPoints(m) \in 0..2
    /\ \A m, n \in Nat : m <= n => FrequencyPoints(m) <= FrequencyPoints(n)
    /\ \A n : SignalPoints(n) \in 0..2 /\ FrequencyPoints(n) \in 0..2
    /\ \A c, d \in Categories :
          /\ EncryptionPoints[c] \in 0..2
          /\ Strength[c] <= Strength[d] => EncryptionPoints[d] <= EncryptionPoints[c]
<1>1. \A m, n \in Int : m <= n => SignalPoints(m) <= SignalPoints(n) /\ SignalPoints(m) \in 0..2
  BY DEF SignalPoints
<1>2. \A m, n \in Nat : m <= n => FrequencyPoints(m) <= FrequencyPoints(n)
  BY DEF FrequencyPoints
<1>3. \A n : SignalPoints(n) \in 0..2 /\ FrequencyPoints(n) \in 0..2
  BY DEF SignalPoints, FrequencyPoints
<1>4. ASSUME NEW c \in Categories, NEW d \in Categories
      PROVE  /\ EncryptionPoints[c] \in 0..2
             /\ Strength[c] <= Strength[d] => EncryptionPoints[d] <= EncryptionPoints[c]
  <2>1. EncryptionPoints[c] = IF Strength[c] = 0 THEN 2 ELSE IF Strength[c] < 3 THEN 1 ELSE 0
    BY DEF Categories, EncryptionPoints, Strength
  <2>2. EncryptionPoints[d] = IF Strength[d] = 0 THEN 2 ELSE IF Strength[d] < 3 THEN 1 ELSE 0
    BY DEF Categories, EncryptionPoints, Strength
  <2>3. Strength[c] \in 0..5 /\ Strength[d] \in 0..5
    BY DEF Categories, Strength
  <2> QED
    BY ONLY <2>1, <2>2, <2>3
<1> QED
  BY <1>1, <1>2, <1>3, <1>4

(* A finding of more rows scores no less than the same of fewer. *)
LEMMA MoreScoresMore ==
    ASSUME NEW rows \in Seq(StoredRows),
           NEW fewer \in SUBSET ZonedRows(rows, AcceptedRows(rows)),
           NEW s \in Findings(rows, fewer)
    PROVE  \E t \in ResultOf(rows) :
               /\ <<t.finding.zone, t.finding.network>> = <<s.finding.zone, s.finding.network>>
               /\ t.score >= s.score
<1> DEFINE zoned == ZonedRows(rows, AcceptedRows(rows))
<1>1. PICK i \in fewer : /\ s.finding = Made(rows, fewer, KeyOf(rows, i))
                         /\ s.score = Score(s.finding)
                         /\ <<s.finding.zone, s.finding.network>> = KeyOf(rows, i)
                         /\ i \in GroupOf(rows, fewer, KeyOf(rows, i))
  BY FindingHasGroup
<1> DEFINE k == KeyOf(rows, i)
           few == GroupOf(rows, fewer, k)
           many == GroupOf(rows, zoned, k)
           t == Scored(Made(rows, zoned, k))
           f == Made(rows, fewer, k)
           g == Made(rows, zoned, k)
<1>2. t \in ResultOf(rows)
  <2>1. i \in zoned
    BY <1>1
  <2> QED
    BY <2>1, FindingsByKey DEF ResultOf
<1>3. t.finding = g /\ t.score = Score(g) /\ s.finding = f /\ s.score = Score(f)
  BY <1>1 DEF Scored
<1>4. <<t.finding.zone, t.finding.network>> = <<s.finding.zone, s.finding.network>>
  BY <1>3, MadeFields
<1>5. few \subseteq many /\ i \in few /\ many \subseteq DOMAIN rows
  BY <1>1 DEF GroupOf, ZonedRows, AcceptedRows
<1>6. Rows(rows, few) /\ Rows(rows, many)
  <2>1. zoned \in SUBSET ZonedRows(rows, AcceptedRows(rows))
    OBVIOUS
  <2> HIDE DEF zoned
  <2> QED
    BY <2>1, ZonedAreRows
<1>7. /\ f.strongest_rssi = rows[Representative(rows, few)].rssi
      /\ f.encryption = WeakestEncryption(rows, few)
      /\ f.observation_count = Observed(rows, few)
      /\ g.strongest_rssi = rows[Representative(rows, many)].rssi
      /\ g.encryption = WeakestEncryption(rows, many)
      /\ g.observation_count = Observed(rows, many)
  BY MadeFields
<1> HIDE DEF k, few, many, t, f, g, zoned
<1>8. SignalPoints(f.strongest_rssi) <= SignalPoints(g.strongest_rssi)
  <2>1. Representative(rows, few) \in few
    BY <1>5, <1>6, RepresentativeStrongest
  <2>2. Representative(rows, few) \in many
    BY <1>5, <2>1
  <2>3. /\ f.strongest_rssi \in Int /\ g.strongest_rssi \in Int
        /\ f.strongest_rssi <= g.strongest_rssi
    <3>1. /\ rows[Representative(rows, few)].rssi \in -120..0
          /\ rows[Representative(rows, many)].rssi \in -120..0
          /\ rows[Representative(rows, few)].rssi <= rows[Representative(rows, many)].rssi
      BY <1>6, <2>2, RepresentativeStrongest
    <3>2. \A n \in -120..0 : n \in Int
      OBVIOUS
    <3> QED
      BY ONLY <1>7, <3>1, <3>2
  <2> QED
    BY <2>3, PointsMonotone
<1>9. EncryptionPoints[f.encryption] <= EncryptionPoints[g.encryption]
  <2>1. PICK v \in few : f.encryption = Category(rows[v].encryption)
    BY <1>5, <1>6, <1>7, WeakestIs
  <2>2. PICK w \in many : /\ g.encryption = Category(rows[w].encryption)
                          /\ \A j \in many : Strength[Category(rows[w].encryption)]
                                                <= Strength[Category(rows[j].encryption)]
    BY <1>5, <1>6, <1>7, WeakestIs
  <2>3. Strength[g.encryption] <= Strength[f.encryption]
    BY <1>5, <2>1, <2>2
  <2>4. f.encryption \in Categories /\ g.encryption \in Categories
    BY <2>1, <2>2 DEF Category, Categories
  <2> QED
    BY <2>3, <2>4, PointsMonotone
<1>10. FrequencyPoints(f.observation_count) <= FrequencyPoints(g.observation_count)
  <2>1. /\ f.observation_count \in Nat /\ g.observation_count \in Nat
        /\ f.observation_count <= g.observation_count
    BY <1>5, <1>7, ObservedGrows
  <2> QED
    BY <2>1, PointsMonotone
<1>11. /\ EncryptionPoints[f.encryption] \in 0..2 /\ EncryptionPoints[g.encryption] \in 0..2
       /\ SignalPoints(f.strongest_rssi) \in 0..2 /\ SignalPoints(g.strongest_rssi) \in 0..2
       /\ FrequencyPoints(f.observation_count) \in 0..2
       /\ FrequencyPoints(g.observation_count) \in 0..2
  <2>1. f.encryption \in Categories /\ g.encryption \in Categories
    <3>1. /\ \E v \in few : f.encryption = Category(rows[v].encryption)
          /\ \E w \in many : g.encryption = Category(rows[w].encryption)
      BY <1>5, <1>6, <1>7, WeakestIs
    <3> QED
      BY ONLY <3>1 DEF Category, Categories
  <2> QED
    BY <2>1, PointsMonotone
<1>12. t.score >= s.score
  BY ONLY <1>3, <1>8, <1>9, <1>10, <1>11 DEF Score
<1> QED
  BY <1>2, <1>4, <1>12

(* The rows of one measurement, where each of them ended. *)
LEMMA AllAccounted ==
    ASSUME NEW rows \in Seq(StoredRows)
    PROVE  LET reason(i) == IngestionReason(rows[i])
               ingested == [r \in IngestionReasons |-> {i \in DOMAIN rows : reason(i) = r}]
               processed == [r \in ProcessingReasons |->
                                {i \in AcceptedRows(rows) : ProcessingReason(rows[i]) = r}]
               Rejected(counts) ==
                   SumFunction([r \in DOMAIN counts |-> Observed(rows, counts[r])])
           IN  Observed(rows, DOMAIN rows) =
                   Rejected(ingested) + Rejected(processed)
                   + SumFunction([s \in ResultOf(rows) |-> s.finding.observation_count])
<1> DEFINE D == DOMAIN rows
           f == [i \in D |-> rows[i].times]
           A == AcceptedRows(rows)
           Z == ZonedRows(rows, A)
           R == ResultOf(rows)
           ingested == [r \in IngestionReasons |-> {i \in D : IngestionReason(rows[i]) = r}]
           processed == [r \in ProcessingReasons |-> {i \in A : ProcessingReason(rows[i]) = r}]
           grouped == [s \in R |-> GroupOf(rows, Z, <<s.finding.zone, s.finding.network>>)]
           h1 == [r \in IngestionReasons |-> Observed(rows, ingested[r])]
           h2 == [r \in ProcessingReasons |-> Observed(rows, processed[r])]
           h3 == [s \in R |-> s.finding.observation_count]
<1>1. IsFiniteSet(D) /\ \A i \in D : f[i] \in Int
  BY TimesOfRows
<1>2. A \subseteq D /\ Z \subseteq A /\ IsFiniteSet(Z)
  <2>1. A \subseteq D /\ Z \subseteq A
    BY DEF AcceptedRows, ZonedRows
  <2> QED
    BY <1>1, <2>1, FS_Subset
<1>3. IsFiniteSet(IngestionReasons) /\ IsFiniteSet(ProcessingReasons)
  <2> DEFINE i6 == <<"missing_bssid", "invalid_rssi", "invalid_latitude", "invalid_gps_mode",
                     "invalid_channel", "invalid_band">>
             p8 == <<"invalid_frequency", "frequency_band_mismatch", "invalid_gps_mode",
                     "missing_gps_accuracy", "invalid_gps_accuracy", "gps_accuracy_exceeded",
                     "outside_approved_zone", "ambiguous_zone">>
  <2>1. i6 \in Surjection(1..6, IngestionReasons)
    <3>1. i6 \in [1..6 -> IngestionReasons]
      BY DEF IngestionReasons
    <3>2. \A r \in IngestionReasons : \E n \in 1..6 : i6[n] = r
      BY DEF IngestionReasons
    <3> QED
      BY <3>1, <3>2 DEF Surjection
  <2>2. p8 \in Surjection(1..8, ProcessingReasons)
    <3>1. p8 \in [1..8 -> ProcessingReasons]
      BY DEF ProcessingReasons
    <3>2. \A r \in ProcessingReasons : \E n \in 1..8 : p8[n] = r
      BY DEF ProcessingReasons
    <3> QED
      BY <3>1, <3>2 DEF Surjection
  <2>3. IsFiniteSet(1..6) /\ IsFiniteSet(1..8)
    <3>1. \A n \in Int : IsFiniteSet(1..n)
      BY FS_Interval
    <3>2. 6 \in Int /\ 8 \in Int
      OBVIOUS
    <3> QED
      BY ONLY <3>1, <3>2, Zenon
  <2> HIDE DEF i6, p8
  <2>4. IsFiniteSet(IngestionReasons)
    BY <2>1, <2>3, FS_Surjection
  <2>5. IsFiniteSet(ProcessingReasons)
    BY <2>2, <2>3, FS_Surjection
  <2> QED
    BY <2>4, <2>5
<1>4. IsFiniteSet(R)
  <2> DEFINE g == [i \in Z |-> Scored(Made(rows, Z, KeyOf(rows, i)))]
  <2>1. R = {g[i] : i \in Z}
    BY FindingsByKey DEF ResultOf
  <2>2. g \in Surjection(Z, R)
    <3> HIDE DEF R, Z
    <3>1. g \in [Z -> R]
      BY <2>1
    <3>2. \A s \in R : \E i \in Z : g[i] = s
      BY <2>1
    <3> QED
      BY <3>1, <3>2 DEF Surjection
  <2> HIDE DEF g, Z, R
  <2> QED
    BY <1>2, <2>2, FS_Surjection
<1>5. SumFunctionOnSet(h1, IngestionReasons) = SumFunctionOnSet(f, D \ A)
  <2>1. ingested \in [IngestionReasons -> SUBSET D]
    OBVIOUS
  <2>2. \A q, r \in IngestionReasons : q # r => ingested[q] \cap ingested[r] = {}
    OBVIOUS
  <2>3. \A r \in IngestionReasons : h1[r] = SumFunctionOnSet(f, ingested[r])
    BY DEF Observed
  <2>4. UNION {ingested[r] : r \in IngestionReasons} = D \ A
    <3>1. \A row : IngestionReason(row) \in IngestionReasons \cup {None}
      BY DEF IngestionReason, IngestionReasons
    <3>2. None \notin IngestionReasons
      BY NoneAssumption
    <3> QED
      BY <3>1, <3>2 DEF AcceptedRows
  <2> HIDE DEF D, f, A, ingested, h1
  <2> QED
    BY <1>1, <1>3, <2>1, <2>2, <2>3, <2>4, SumByParts
<1>6. SumFunctionOnSet(h2, ProcessingReasons) = SumFunctionOnSet(f, A \ Z)
  <2>1. processed \in [ProcessingReasons -> SUBSET D]
    BY <1>2
  <2>2. \A q, r \in ProcessingReasons : q # r => processed[q] \cap processed[r] = {}
    OBVIOUS
  <2>3. \A r \in ProcessingReasons : h2[r] = SumFunctionOnSet(f, processed[r])
    BY DEF Observed
  <2>4. UNION {processed[r] : r \in ProcessingReasons} = A \ Z
    <3>1. \A row : ProcessingReason(row) \in ProcessingReasons \cup {None}
      <4>1. \A row : QualityReason(row) \in ProcessingReasons \cup {None}
        BY DEF QualityReason, ProcessingReasons
      <4>2. \A row : ZoneReason(row) \in ProcessingReasons \cup {None}
        BY DEF ZoneReason, ProcessingReasons
      <4> QED
        BY <4>1, <4>2 DEF ProcessingReason
    <3>2. None \notin ProcessingReasons
      BY NoneAssumption
    <3> QED
      BY <3>1, <3>2 DEF ZonedRows
  <2> HIDE DEF D, f, A, Z, processed, h2
  <2> QED
    BY <1>1, <1>3, <2>1, <2>2, <2>3, <2>4, SumByParts
<1>7. SumFunctionOnSet(h3, R) = SumFunctionOnSet(f, Z)
  <2>0. \A s \in R : \E i \in Z :
            /\ s = Scored(Made(rows, Z, KeyOf(rows, i)))
            /\ s.finding = Made(rows, Z, KeyOf(rows, i))
            /\ <<s.finding.zone, s.finding.network>> = KeyOf(rows, i)
    BY FindingHasGroup DEF ResultOf
  <2>1. grouped \in [R -> SUBSET D]
    BY <1>2 DEF GroupOf
  <2>2. \A s, t \in R : s # t => grouped[s] \cap grouped[t] = {}
    <3> SUFFICES ASSUME NEW s \in R, NEW t \in R, NEW i \in grouped[s] \cap grouped[t]
                 PROVE  s = t
      OBVIOUS
    <3>1. <<s.finding.zone, s.finding.network>> = KeyOf(rows, i)
          /\ <<t.finding.zone, t.finding.network>> = KeyOf(rows, i)
      BY DEF GroupOf
    <3> HIDE DEF R, Z
    <3> QED
      BY <2>0, <3>1
  <2>3. \A s \in R : h3[s] = SumFunctionOnSet(f, grouped[s])
    <3> SUFFICES ASSUME NEW s \in R PROVE s.finding.observation_count = Observed(rows, grouped[s])
      BY DEF Observed
    <3>1. PICK i \in Z : /\ s.finding = Made(rows, Z, KeyOf(rows, i))
                         /\ <<s.finding.zone, s.finding.network>> = KeyOf(rows, i)
      BY <2>0
    <3> HIDE DEF R, Z
    <3>2. s.finding.observation_count = Observed(rows, GroupOf(rows, Z, KeyOf(rows, i)))
      BY <3>1, MadeFields
    <3> QED
      BY <3>1, <3>2
  <2>4. UNION {grouped[s] : s \in R} = Z
    <3>1. ASSUME NEW i \in Z PROVE \E s \in R : i \in grouped[s]
      <4> DEFINE s == Scored(Made(rows, Z, KeyOf(rows, i)))
      <4>1. s \in R
        BY FindingsByKey DEF ResultOf
      <4>2. <<s.finding.zone, s.finding.network>> = KeyOf(rows, i)
        <5>1. s.finding = Made(rows, Z, KeyOf(rows, i))
          BY DEF Scored
        <5>2. s.finding.zone = KeyOf(rows, i)[1] /\ s.finding.network = KeyOf(rows, i)[2]
          BY <5>1, MadeFields
        <5> QED
          BY <5>2 DEF KeyOf
      <4>3. i \in grouped[s]
        BY <4>1, <4>2 DEF GroupOf
      <4> QED
        BY <4>1, <4>3
    <3>2. \A s \in R : grouped[s] \subseteq Z
      BY DEF GroupOf
    <3> HIDE DEF grouped, R, Z
    <3> QED
      BY <3>1, <3>2
  <2> HIDE DEF D, f, Z, R, grouped, h3
  <2> QED
    BY <1>1, <1>4, <2>1, <2>2, <2>3, <2>4, SumByParts
<1>8. SumFunctionOnSet(f, D) = SumFunctionOnSet(f, D \ A) + SumFunctionOnSet(f, A \ Z)
                                 + SumFunctionOnSet(f, Z)
  <2> HIDE DEF D, f, A, Z
  <2>1. /\ D = (D \ A) \cup A /\ (D \ A) \cap A = {}
        /\ A = (A \ Z) \cup Z /\ (A \ Z) \cap Z = {}
        /\ D \ A \in SUBSET D /\ A \in SUBSET D /\ A \ Z \in SUBSET D /\ Z \in SUBSET D
    BY <1>2
  <2>2. SumFunctionOnSet(f, (D \ A) \cup A) = SumFunctionOnSet(f, D \ A) + SumFunctionOnSet(f, A)
    BY <1>1, <2>1, SumSplit
  <2>3. SumFunctionOnSet(f, (A \ Z) \cup Z) = SumFunctionOnSet(f, A \ Z) + SumFunctionOnSet(f, Z)
    BY <1>1, <2>1, SumSplit
  <2>4. /\ SumFunctionOnSet(f, D \ A) \in Int /\ SumFunctionOnSet(f, A \ Z) \in Int
        /\ SumFunctionOnSet(f, Z) \in Int
    BY <1>1, <2>1, SumLaws
  <2>5. SumFunctionOnSet(f, D) = SumFunctionOnSet(f, D \ A) + SumFunctionOnSet(f, A)
        /\ SumFunctionOnSet(f, A) = SumFunctionOnSet(f, A \ Z) + SumFunctionOnSet(f, Z)
    BY <2>1, <2>2, <2>3
  <2> QED
    BY ONLY <2>4, <2>5
<1>9. Observed(rows, D) = SumFunctionOnSet(h1, IngestionReasons)
          + SumFunctionOnSet(h2, ProcessingReasons) + SumFunctionOnSet(h3, R)
  <2>1. Observed(rows, D) = SumFunctionOnSet(f, D)
    BY DEF Observed
  <2> QED
    BY ONLY <1>5, <1>6, <1>7, <1>8, <2>1
<1>10. /\ SumFunction(h1) = SumFunctionOnSet(h1, IngestionReasons)
       /\ SumFunction(h2) = SumFunctionOnSet(h2, ProcessingReasons)
       /\ SumFunction(h3) = SumFunctionOnSet(h3, R)
  BY DEF SumFunction
<1>11. h1 = [r \in DOMAIN ingested |-> Observed(rows, ingested[r])]
       /\ h2 = [r \in DOMAIN processed |-> Observed(rows, processed[r])]
  OBVIOUS
<1> HIDE DEF D, A, R, h1, h2, ingested, processed
<1>12. Observed(rows, D) =
          SumFunction([r \in DOMAIN ingested |-> Observed(rows, ingested[r])])
          + SumFunction([r \in DOMAIN processed |-> Observed(rows, processed[r])])
          + SumFunction([s \in R |-> s.finding.observation_count])
  BY <1>9, <1>10, <1>11
<1> QED
  BY <1>12 DEF D, A, R, ingested, processed

-----------------------------------------------------------------------------
(* Rows in another order.                                                  *)

(* What a reader of the findings compares, but for the tie in encryption. *)
Blurred(f) == [f EXCEPT !.encryption = IF @ = "WPA2_OR_WPA3" THEN "WPA2" ELSE @]
View(results) == {<<Blurred(s.finding), s.score, s.level>> : s \in results}

(* Measurements with equal keys show the same. *)
LEMMA EqualKeysShowTheSame ==
    ASSUME NEW o \in StoredRows, NEW q \in StoredRows,
           IngestionReason(o) = None, IngestionReason(q) = None,
           RepresentativeKey(o) = RepresentativeKey(q)
    PROVE  /\ o.rssi = q.rssi /\ o.time = q.time /\ o.place = q.place
           /\ o.channel = q.channel /\ o.frequency = q.frequency /\ o.band = q.band
<1> DEFINE order == <<"2.4GHz", "5GHz", "6GHz">>
           F(r) == IF r.frequency = None THEN -1 ELSE r.frequency
<1>1. /\ -o.rssi = -q.rssi /\ o.time = q.time /\ o.place = q.place /\ o.channel = q.channel
      /\ F(o) = F(q) /\ Rank(o.band, order) = Rank(q.band, order)
  <2>1. \A r : /\ RepresentativeKey(r)[1] = -r.rssi /\ RepresentativeKey(r)[2] = r.time
               /\ RepresentativeKey(r)[3] = r.place /\ RepresentativeKey(r)[4] = r.channel
               /\ RepresentativeKey(r)[5] = F(r)
               /\ RepresentativeKey(r)[6] = Rank(r.band, order)
    BY DEF RepresentativeKey
  <2> HIDE DEF F, order
  <2> QED
    BY <2>1
<1>2. o.rssi = q.rssi
  <2>1. o.rssi \in -120..0 /\ q.rssi \in -120..0
    BY AcceptedFields
  <2>2. \A m, n \in -120..0 : -m = -n => m = n
    OBVIOUS
  <2> QED
    BY ONLY <1>1, <2>1, <2>2
<1>3. o.frequency = q.frequency
  <2>1. o.frequency \in Nat \cup {None} /\ q.frequency \in Nat \cup {None}
    BY StoredFields
  <2> QED
    BY ONLY <1>1, <2>1
<1>4. o.band = q.band
  <2>1. o.band \in Bands /\ q.band \in Bands
    BY StoredFields
  <2>2. \A b \in Bands : order[Rank(b, order)] = b
    <3>1. \A b \in Bands : \E i \in DOMAIN order : order[i] = b
      BY DEF Bands
    <3> HIDE DEF order
    <3> QED
      BY <3>1 DEF Rank
  <2> HIDE DEF order
  <2> QED
    BY ONLY <1>1, <2>1, <2>2
<1> QED
  BY <1>1, <1>2, <1>3, <1>4

(* Categories of one strength look and count the same. *)
LEMMA EqualStrengthShowsTheSame ==
    ASSUME NEW c \in Categories, NEW d \in Categories, Strength[c] = Strength[d]
    PROVE  /\ (IF c = "WPA2_OR_WPA3" THEN "WPA2" ELSE c)
                 = (IF d = "WPA2_OR_WPA3" THEN "WPA2" ELSE d)
           /\ EncryptionPoints[c] = EncryptionPoints[d]
<1> DEFINE name == <<"OPEN", "UNKNOWN", "OUTDATED", "WPA2", "ENTERPRISE", "WPA3">>
           points == <<2, 1, 1, 0, 0, 0>>
<1>1. ASSUME NEW e \in Categories
      PROVE  /\ Strength[e] \in 0..5
             /\ (IF e = "WPA2_OR_WPA3" THEN "WPA2" ELSE e) = name[Strength[e] + 1]
             /\ EncryptionPoints[e] = points[Strength[e] + 1]
  BY DEF Categories, Strength, EncryptionPoints
<1> HIDE DEF name, points
<1> QED
  BY <1>1

(* Of two different keys one is less. *)
LEMMA KeysAreOrdered ==
    ASSUME NEW k \in [1..7 -> Int], NEW l \in [1..7 -> Int], ~LexLess(k, l), ~LexLess(l, k)
    PROVE  k = l
<1>1. 7 \in Nat
  OBVIOUS
<1> QED
  BY <1>1, LexOrder

(* A finding, by what it is made of. *)
Times(rows, group) == {rows[i].time : i \in group}
RssiSum(rows, group) == SumFunctionOnSet([i \in group |-> rows[i].rssi * rows[i].times], group)
AnySsid(rows, group) == \E i \in group : rows[i].ssid
FindingOf(zone, network, count, times, best, sum, encryption, ssid) ==
    [zone |-> zone, network |-> network, observation_count |-> count,
     first |-> Min(times), last |-> Max(times), time |-> best.time, place |-> best.place,
     rssi_sum |-> sum, strongest_rssi |-> best.rssi,
     channel |-> best.channel, frequency |-> best.frequency, band |-> best.band,
     encryption |-> encryption, ssid_present |-> ssid]

(* A finding is made of nothing else. *)
LEMMA FindingIs ==
    ASSUME NEW rows, NEW zone, NEW network, NEW group
    PROVE  Finding(rows, zone, network, group)
             = FindingOf(zone, network, Observed(rows, group), Times(rows, group),
                      rows[Representative(rows, group)], RssiSum(rows, group),
                      WeakestEncryption(rows, group), AnySsid(rows, group))
BY DEF Finding, FindingOf, Times, RssiSum, AnySsid

(* Every index in G has one name in H. *)
Renames(p, H, G) ==
    /\ p \in [H -> G]
    /\ \A i, j \in H : p[i] = p[j] => i = j
    /\ \A j \in G : \E i \in H : p[i] = j

(* A sum over a group does not depend on the order of its rows. *)
LEMMA SumOfRenamed ==
    ASSUME NEW H, NEW G, IsFiniteSet(H), IsFiniteSet(G), NEW p, Renames(p, H, G),
           NEW fr, NEW fo, \A i \in H : fo[i] = fr[p[i]] /\ fo[i] \in Int
    PROVE  SumFunctionOnSet(fo, H) = SumFunctionOnSet(fr, G)
BY SumRenamed DEF Renames

(* p names the rows H of one buffer as rows G of another. *)
Reordered(rows, G, other, H, p) ==
    /\ rows \in Seq(StoredRows) /\ other \in Seq(StoredRows)
    /\ Rows(rows, G) /\ Rows(other, H) /\ H # {}
    /\ Renames(p, H, G)
    /\ \A i \in H : other[i] = rows[p[i]]

(* One group of observations, in any order. *)
LEMMA FindingOfReordered ==
    ASSUME NEW rows, NEW other, NEW G, NEW H, NEW p, Reordered(rows, G, other, H, p),
           NEW zone, NEW network
    PROVE  LET f == Finding(rows, zone, network, G)
               g == Finding(other, zone, network, H)
           IN  Blurred(g) = Blurred(f) /\ Score(g) = Score(f)
<1> DEFINE b == Representative(rows, G)
           c == Representative(other, H)
           f == Finding(rows, zone, network, G)
           g == Finding(other, zone, network, H)
<1>0. /\ p \in [H -> G] /\ \A i, j \in H : p[i] = p[j] => i = j
      /\ \A j \in G : \E i \in H : p[i] = j
      /\ \A i \in H : other[i] = rows[p[i]]
      /\ rows \in Seq(StoredRows) /\ other \in Seq(StoredRows)
      /\ Rows(rows, G) /\ Rows(other, H) /\ H # {}
  BY DEF Reordered, Renames
<1>0a. Renames(p, H, G)
  BY DEF Reordered
<1>1. /\ IsFiniteSet(G) /\ IsFiniteSet(H) /\ G = {p[i] : i \in H} /\ G # {}
      /\ G \subseteq DOMAIN rows /\ H \subseteq DOMAIN other
  BY <1>0, RowsFinite
<1>2. /\ \A j \in G : /\ rows[j] \in StoredRows /\ IngestionReason(rows[j]) = None
                      /\ rows[j].rssi \in Int /\ rows[j].times \in Int
                      /\ rows[j].rssi * rows[j].times \in Int
                      /\ RepresentativeKey(rows[j]) \in [1..7 -> Int]
  <2>1. ASSUME NEW j \in G PROVE rows[j] \in StoredRows /\ IngestionReason(rows[j]) = None /\ Rows(rows, {j})
    BY <1>0 DEF Rows, AcceptedRows
  <2>2. ASSUME NEW j \in G PROVE rows[j].rssi \in Int /\ rows[j].times \in Int
    <3>1. rows[j].rssi \in -120..0 /\ rows[j].times \in Nat
      BY <2>1, AcceptedFields, StoredFields
    <3>2. (\A n \in -120..0 : n \in Int) /\ (\A n \in Nat : n \in Int)
      OBVIOUS
    <3> QED
      BY ONLY <3>1, <3>2
  <2>3. \A m, n \in Int : m * n \in Int
    OBVIOUS
  <2> QED
    BY <2>1, <2>2, <2>3, KeyIsNumbers
<1>3. Observed(other, H) = Observed(rows, G)
  <2> DEFINE fr == [i \in DOMAIN rows |-> rows[i].times]
             fo == [i \in DOMAIN other |-> other[i].times]
  <2>1. \A i \in H : fo[i] = fr[p[i]] /\ fo[i] \in Int
    BY <1>0, <1>1, <1>2
  <2> HIDE DEF fr, fo
  <2>2. SumFunctionOnSet(fo, H) = SumFunctionOnSet(fr, G)
    BY ONLY <1>0a, <1>1, <2>1, SumOfRenamed
  <2> QED
    BY <1>1, <2>2 DEF Observed, fr, fo
<1>4. SumFunctionOnSet([i \in H |-> other[i].rssi * other[i].times], H)
         = SumFunctionOnSet([i \in G |-> rows[i].rssi * rows[i].times], G)
  <2> DEFINE fr == [i \in G |-> rows[i].rssi * rows[i].times]
             fo == [i \in H |-> other[i].rssi * other[i].times]
  <2>1. \A i \in H : fo[i] = fr[p[i]] /\ fo[i] \in Int
    BY <1>0, <1>2
  <2> HIDE DEF fr, fo
  <2>2. SumFunctionOnSet(fo, H) = SumFunctionOnSet(fr, G)
    BY ONLY <1>0a, <1>1, <2>1, SumOfRenamed
  <2> QED
    BY <1>1, <2>2 DEF fr, fo
<1>5. {other[i].time : i \in H} = {rows[i].time : i \in G}
  BY <1>0
<1>6. (\E i \in H : other[i].ssid) <=> (\E i \in G : rows[i].ssid)
  BY <1>0
<1>7. /\ rows[b].rssi = other[c].rssi /\ rows[b].time = other[c].time
      /\ rows[b].place = other[c].place /\ rows[b].channel = other[c].channel
      /\ rows[b].frequency = other[c].frequency /\ rows[b].band = other[c].band
  <2> DEFINE K(i) == RepresentativeKey(rows[i])
  <2>1. b \in G /\ \A j \in G : ~LexLess(K(j), K(b))
    BY <1>0, <1>1, RepresentativeIs
  <2>2. c \in H /\ \A i \in H : ~LexLess(RepresentativeKey(other[i]), RepresentativeKey(other[c]))
    BY <1>0, RepresentativeIs
  <2> HIDE DEF b, c
  <2>3. p[c] \in G /\ other[c] = rows[p[c]] /\ \A j \in G : ~LexLess(K(j), K(p[c]))
    BY <1>0, <2>2
  <2>4. K(b) \in [1..7 -> Int] /\ K(p[c]) \in [1..7 -> Int]
    BY <1>2, <2>1, <2>3
  <2>5. ~LexLess(K(b), K(p[c])) /\ ~LexLess(K(p[c]), K(b))
    BY <2>1, <2>3
  <2>6. K(b) = K(p[c])
    <3> HIDE DEF K
    <3> QED
      BY ONLY <2>4, <2>5, KeysAreOrdered
  <2>7. /\ rows[b] \in StoredRows /\ IngestionReason(rows[b]) = None
        /\ rows[p[c]] \in StoredRows /\ IngestionReason(rows[p[c]]) = None
    BY <1>2, <2>1, <2>3
  <2>8. RepresentativeKey(rows[b]) = RepresentativeKey(rows[p[c]])
    BY <2>6
  <2> QED
    BY ONLY <2>3, <2>7, <2>8, EqualKeysShowTheSame
<1>8. /\ f.encryption \in Categories /\ g.encryption \in Categories
      /\ Strength[f.encryption] = Strength[g.encryption]
  <2>1. PICK w \in G : /\ f.encryption = Category(rows[w].encryption)
                       /\ \A j \in G : Strength[Category(rows[w].encryption)]
                                          <= Strength[Category(rows[j].encryption)]
    BY <1>0, <1>1, WeakestIs DEF Finding
  <2>2. PICK v \in H : /\ g.encryption = Category(other[v].encryption)
                       /\ \A j \in H : Strength[Category(other[v].encryption)]
                                          <= Strength[Category(other[j].encryption)]
    BY <1>0, WeakestIs DEF Finding
  <2> HIDE DEF f, g
  <2>3. PICK u \in H : p[u] = w
    BY <1>0
  <2>4. /\ Strength[f.encryption] <= Strength[g.encryption]
        /\ Strength[g.encryption] <= Strength[f.encryption]
    BY <1>0, <2>1, <2>2, <2>3
  <2>5. f.encryption \in Categories /\ g.encryption \in Categories
    BY <2>1, <2>2 DEF Category, Categories
  <2>6. \A e \in Categories : Strength[e] \in Int
    BY DEF Categories, Strength
  <2> QED
    BY ONLY <2>4, <2>5, <2>6
<1>9. /\ (IF f.encryption = "WPA2_OR_WPA3" THEN "WPA2" ELSE f.encryption)
            = (IF g.encryption = "WPA2_OR_WPA3" THEN "WPA2" ELSE g.encryption)
      /\ EncryptionPoints[f.encryption] = EncryptionPoints[g.encryption]
  BY ONLY <1>8, EqualStrengthShowsTheSame
<1>10. \A e : FindingOf(zone, network, Observed(rows, G), Times(rows, G), rows[b], RssiSum(rows, G),
                     e, AnySsid(rows, G))
               = FindingOf(zone, network, Observed(other, H), Times(other, H), other[c],
                        RssiSum(other, H), e, AnySsid(other, H))
  <2>1. /\ Times(rows, G) = Times(other, H) /\ RssiSum(rows, G) = RssiSum(other, H)
        /\ AnySsid(rows, G) = AnySsid(other, H)
    BY <1>4, <1>5, <1>6 DEF Times, RssiSum, AnySsid
  <2> HIDE DEF b, c
  <2> QED
    BY ONLY <1>3, <1>7, <2>1 DEF FindingOf
<1>11. Blurred(g) = Blurred(f)
  <2> DEFINE B(e) == IF e = "WPA2_OR_WPA3" THEN "WPA2" ELSE e
  <2>1. /\ Blurred(f) = FindingOf(zone, network, Observed(rows, G), Times(rows, G), rows[b],
                               RssiSum(rows, G), B(f.encryption), AnySsid(rows, G))
        /\ Blurred(g) = FindingOf(zone, network, Observed(other, H), Times(other, H), other[c],
                               RssiSum(other, H), B(g.encryption), AnySsid(other, H))
    <3>1. \A count, times, best, sum, e, ssid :
              LET x == FindingOf(zone, network, count, times, best, sum, e, ssid)
              IN  Blurred(x) = FindingOf(zone, network, count, times, best, sum, B(x.encryption), ssid)
      BY DEF FindingOf, Blurred
    <3> HIDE DEF B
    <3> QED
      BY <3>1, FindingIs
  <2>2. B(f.encryption) = B(g.encryption)
    BY <1>9
  <2> HIDE DEF f, g, B, b, c
  <2> QED
    BY ONLY <1>10, <2>1, <2>2
<1>12. Score(g) = Score(f)
  <2>1. g.strongest_rssi = f.strongest_rssi /\ g.observation_count = f.observation_count
    BY <1>3, <1>7 DEF Finding
  <2> HIDE DEF f, g
  <2> QED
    BY <1>9, <2>1 DEF Score
<1> QED
  BY <1>11, <1>12

(* All rows in another order: the findings look and score the same. *)
LEMMA OrderDoesNotShow ==
    ASSUME NEW rows \in Seq(StoredRows), NEW p \in [DOMAIN rows -> DOMAIN rows],
           \A i, j \in DOMAIN rows : p[i] = p[j] => i = j
    PROVE  View(ResultOf([i \in DOMAIN rows |-> rows[p[i]]])) = View(ResultOf(rows))
<1> DEFINE D == DOMAIN rows
           other == [i \in D |-> rows[p[i]]]
           Zr == ZonedRows(rows, AcceptedRows(rows))
           Zo == ZonedRows(other, AcceptedRows(other))
           Keys == {KeyOf(rows, i) : i \in Zr}
<1>0. rows \in Seq(StoredRows)
  OBVIOUS
<1>1. D = 1..Len(rows) /\ Len(rows) \in Nat /\ IsFiniteSet(D)
  BY TimesOfRows
<1>2. /\ p \in [D -> D] /\ \A i, j \in D : p[i] = p[j] => i = j
  OBVIOUS
<1>3. \A j \in D : \E i \in D : p[i] = j
  <2> HIDE DEF D
  <2>1. p \in Injection(D, D)
    BY ONLY <1>2 DEF Injection, IsInjective
  <2>2. p \in Surjection(D, D)
    BY ONLY <1>1, <2>1, FS_Injection
  <2> QED
    BY <2>2 DEF Surjection
<1>4. other \in Seq(StoredRows) /\ DOMAIN other = D /\ \A i \in D : other[i] = rows[p[i]]
  <2>1. \A i \in D : rows[p[i]] \in StoredRows
    BY <1>2
  <2>2. other \in [1..Len(rows) -> StoredRows]
    BY <1>1, <2>1
  <2> QED
    BY <1>1, <2>2
<1> HIDE DEF other, D
<1>5. \A i \in D : i \in Zo <=> p[i] \in Zr
  BY <1>2, <1>4 DEF ZonedRows, AcceptedRows, D
<1>6. Zo \subseteq D /\ Zr \subseteq D /\ \A i \in D : KeyOf(other, i) = KeyOf(rows, p[i])
  BY <1>4 DEF ZonedRows, AcceptedRows, KeyOf, D
<1>7. Zo \in SUBSET ZonedRows(other, AcceptedRows(other)) /\ Zr \in SUBSET ZonedRows(rows, AcceptedRows(rows))
  OBVIOUS
<1> HIDE DEF Zo, Zr
<1>8. {KeyOf(other, i) : i \in Zo} = Keys
  <2>1. \A i \in Zo : \E j \in Zr : KeyOf(other, i) = KeyOf(rows, j)
    BY <1>5, <1>6
  <2>2. \A j \in Zr : \E i \in Zo : KeyOf(other, i) = KeyOf(rows, j)
    BY <1>3, <1>5, <1>6
  <2> QED
    BY <2>1, <2>2
<1>9. ASSUME NEW k \in Keys
      PROVE  /\ Blurred(Made(other, Zo, k)) = Blurred(Made(rows, Zr, k))
             /\ Score(Made(other, Zo, k)) = Score(Made(rows, Zr, k))
  <2> DEFINE G == GroupOf(rows, Zr, k)
             H == GroupOf(other, Zo, k)
             q == [i \in H |-> p[i]]
  <2>1. \A i \in D : i \in H <=> p[i] \in G
    BY <1>5, <1>6 DEF GroupOf
  <2>2. G \subseteq D /\ H \subseteq D
    BY <1>6 DEF GroupOf
  <2>3. Rows(rows, G) /\ Rows(other, H)
    BY <1>4, <1>7, ZonedAreRows
  <2>4. H # {}
    <3>1. PICK i \in Zo : KeyOf(other, i) = k
      BY <1>8
    <3> QED
      BY <3>1 DEF GroupOf
  <2> HIDE DEF G, H
  <2>5. /\ q \in [H -> G] /\ \A i, j \in H : q[i] = q[j] => i = j
    BY <1>2, <2>1, <2>2
  <2>6. \A j \in G : \E i \in H : q[i] = j
    BY <1>3, <2>1, <2>2
  <2>7. \A i \in H : other[i] = rows[q[i]]
    BY <1>4, <2>2
  <2> HIDE DEF q
  <2>8. LET f == Finding(rows, k[1], k[2], G)
            g == Finding(other, k[1], k[2], H)
        IN  Blurred(g) = Blurred(f) /\ Score(g) = Score(f)
    <3>1. Reordered(rows, G, other, H, q)
      BY <1>0, <1>4, <2>3, <2>4, <2>5, <2>6, <2>7 DEF Reordered, Renames
    <3> QED
      BY <3>1, FindingOfReordered
  <2> QED
    BY <2>8 DEF Made, G, H
<1> DEFINE Seen(r, Z) == {<<Blurred(Made(r, Z, k)), Score(Made(r, Z, k)),
                            AttentionLevel(Score(Made(r, Z, k)))>> : k \in Keys}
<1>10. View(ResultOf(rows)) = Seen(rows, Zr)
  <2>1. ResultOf(rows) = {Scored(Made(rows, Zr, k)) : k \in Keys}
    BY FindingsByKey DEF ResultOf, Zr
  <2>2. \A k : /\ Scored(Made(rows, Zr, k)).finding = Made(rows, Zr, k)
               /\ Scored(Made(rows, Zr, k)).score = Score(Made(rows, Zr, k))
               /\ Scored(Made(rows, Zr, k)).level = AttentionLevel(Score(Made(rows, Zr, k)))
    BY DEF Scored
  <2> HIDE DEF Keys
  <2> QED
    BY <2>1, <2>2 DEF View
<1>11. View(ResultOf(other)) = Seen(other, Zo)
  <2>1. ResultOf(other) = {Scored(Made(other, Zo, k)) : k \in {KeyOf(other, i) : i \in Zo}}
    BY FindingsByKey DEF ResultOf, Zo
  <2>2. ResultOf(other) = {Scored(Made(other, Zo, k)) : k \in Keys}
    BY <1>8, <2>1
  <2>3. \A k : /\ Scored(Made(other, Zo, k)).finding = Made(other, Zo, k)
               /\ Scored(Made(other, Zo, k)).score = Score(Made(other, Zo, k))
               /\ Scored(Made(other, Zo, k)).level = AttentionLevel(Score(Made(other, Zo, k)))
    BY DEF Scored
  <2> HIDE DEF Keys
  <2> QED
    BY <2>2, <2>3 DEF View
<1>12. Seen(other, Zo) = Seen(rows, Zr)
  <2> HIDE DEF Keys
  <2> QED
    BY <1>9
<1> QED
  BY <1>10, <1>11, <1>12 DEF other, D

-----------------------------------------------------------------------------
(***************************************************************************)
(* What a stage has done stays: the result of each is the one function of  *)
(* the buffer that the definitions of the stages give.                     *)
(***************************************************************************)
ResultInv ==
    /\ phase \in {"process", "done"} =>
          /\ accepted = AcceptedRows(buffer)
          /\ rejected.ingestion =
                RejectedFor([i \in DOMAIN buffer |-> IngestionReason(buffer[i])],
                            DOMAIN buffer, IngestionReasons)
    /\ phase = "done" =>
          /\ rejected.processing =
                RejectedFor([i \in DOMAIN buffer |-> ProcessingReason(buffer[i])],
                            accepted, ProcessingReasons)
          /\ findings = ResultOf(buffer)
    /\ phase # "done" => findings = {}

(* Once ended, the results are those of the stored buffer. *)
THEOREM ResultsOfTheBuffer == Spec => []ResultInv
<1>1. Init => ResultInv
  BY DEF Init, ResultInv
<1>2. RowsInv /\ ResultInv /\ [Next]_vars => ResultInv'
  <2> SUFFICES ASSUME RowsInv, ResultInv, [Next]_vars PROVE ResultInv'
    OBVIOUS
  <2>1. ASSUME NEW r \in Receptions, Collect(r) PROVE ResultInv'
    BY <2>1 DEF Collect, ResultInv
  <2>2. CASE EndCollection
    BY <2>2 DEF EndCollection, ResultInv
  <2>3. CASE Ingest
    <3>1. /\ accepted' = AcceptedRows(buffer) /\ buffer' = buffer /\ findings' = findings
          /\ phase = "ingest" /\ phase' = "process"
      BY <2>3 DEF Ingest
    <3>2. rejected'.ingestion =
             RejectedFor([i \in DOMAIN buffer |-> IngestionReason(buffer[i])],
                         DOMAIN buffer, IngestionReasons)
      BY <2>3 DEF Ingest, RowsInv
    <3> QED
      BY <3>1, <3>2 DEF ResultInv
  <2>4. CASE Process
    <3>1. /\ accepted' = accepted /\ buffer' = buffer
          /\ phase = "process" /\ phase' = "done"
          /\ findings' = Findings(buffer, ZonedRows(buffer, accepted))
      BY <2>4 DEF Process
    <3>2. /\ rejected'.ingestion = rejected.ingestion
          /\ rejected'.processing =
                RejectedFor([i \in DOMAIN buffer |-> ProcessingReason(buffer[i])],
                            accepted, ProcessingReasons)
      BY <2>4 DEF Process, RowsInv
    <3>3. findings' = ResultOf(buffer)
      BY <3>1 DEF ResultInv, ResultOf
    <3> QED
      BY <3>1, <3>2, <3>3 DEF ResultInv
  <2>5. CASE UNCHANGED vars
    BY <2>5 DEF vars, ResultInv
  <2> QED
    BY <2>1, <2>2, <2>3, <2>4, <2>5 DEF Next
<1> QED
  BY <1>1, <1>2, Invariance, PTL DEF Spec

(* The place, time and radio shown for a network come from one measurement *)
(* of it in that zone, and none of it was stronger.                        *)
THEOREM AlwaysWholeRepresentative == Spec => []WholeRepresentative
<1>1. RowsInv /\ ResultInv => WholeRepresentative
  <2> SUFFICES ASSUME RowsInv, ResultInv PROVE WholeRepresentative
    OBVIOUS
  <2>1. CASE phase # "done"
    BY <2>1 DEF ResultInv, WholeRepresentative
  <2>2. CASE phase = "done"
    <3>1. /\ buffer \in Seq(StoredRows) /\ accepted = AcceptedRows(buffer)
          /\ findings = ResultOf(buffer)
      BY <2>2 DEF RowsInv, ResultInv
    <3> QED
      BY <3>1, WholeFindings DEF WholeRepresentative
  <2> QED
    BY <2>1, <2>2
<1> QED
  BY <1>1, Invariance, ResultsOfTheBuffer, PTL

(* Nothing that was seen is hidden by what else is seen. *)
THEOREM MoreEvidenceAlwaysCounts == Spec => []MoreEvidenceNeverLowersScore
<1>1. RowsInv /\ ResultInv => MoreEvidenceNeverLowersScore
  <2> SUFFICES ASSUME RowsInv, ResultInv, phase = "done",
                      NEW fewer \in SUBSET ZonedRows(buffer, accepted),
                      NEW s \in Findings(buffer, fewer)
               PROVE  \E t \in findings :
                          /\ <<t.finding.zone, t.finding.network>>
                                = <<s.finding.zone, s.finding.network>>
                          /\ t.score >= s.score
    BY DEF MoreEvidenceNeverLowersScore
  <2>1. /\ buffer \in Seq(StoredRows) /\ accepted = AcceptedRows(buffer)
        /\ findings = ResultOf(buffer)
    BY DEF RowsInv, ResultInv
  <2> QED
    BY <2>1, MoreScoresMore
<1> QED
  BY <1>1, Invariance, ResultsOfTheBuffer, PTL

(* Every stored row is counted once, as rejected or in a finding. *)
THEOREM EveryRowAlwaysAccountedFor == Spec => []EveryRowAccountedFor
<1>1. RowsInv /\ ResultInv => EveryRowAccountedFor
  <2> SUFFICES ASSUME RowsInv, ResultInv, phase = "done" PROVE EveryRowAccountedFor
    BY DEF EveryRowAccountedFor
  <2>1. /\ buffer \in Seq(StoredRows) /\ accepted = AcceptedRows(buffer)
        /\ findings = ResultOf(buffer)
    BY DEF RowsInv, ResultInv
  <2>2. rejected.ingestion =
           [r \in IngestionReasons |-> {i \in DOMAIN buffer : IngestionReason(buffer[i]) = r}]
    BY DEF ResultInv, RejectedFor
  <2>3. rejected.processing =
           [r \in ProcessingReasons |-> {i \in AcceptedRows(buffer) : ProcessingReason(buffer[i]) = r}]
    <3>1. AcceptedRows(buffer) \subseteq DOMAIN buffer
      BY DEF AcceptedRows
    <3> QED
      BY <2>1, <3>1 DEF ResultInv, RejectedFor
  <2> DEFINE Rejected(counts) ==
                 SumFunction([r \in DOMAIN counts |-> Observed(buffer, counts[r])])
             ingested == [r \in IngestionReasons |->
                             {i \in DOMAIN buffer : IngestionReason(buffer[i]) = r}]
             processed == [r \in ProcessingReasons |->
                              {i \in AcceptedRows(buffer) : ProcessingReason(buffer[i]) = r}]
             Found(results) == SumFunction([s \in results |-> s.finding.observation_count])
  <2>4. Observed(buffer, DOMAIN buffer)
           = Rejected(ingested) + Rejected(processed) + Found(ResultOf(buffer))
    BY <2>1, AllAccounted
  <2>5. rejected.ingestion = ingested /\ rejected.processing = processed
    BY <2>2, <2>3
  <2> HIDE DEF ingested, processed
  <2>6. EveryRowAccountedFor <=>
           Observed(buffer, DOMAIN buffer)
              = Rejected(rejected.ingestion) + Rejected(rejected.processing) + Found(findings)
    BY DEF EveryRowAccountedFor
  <2> HIDE DEF Rejected, Found
  <2> QED
    BY <2>1, <2>4, <2>5, <2>6
<1> QED
  BY <1>1, Invariance, ResultsOfTheBuffer, PTL

(* The order in which frames came in shows in nothing but the tie of WPA2  *)
(* with WPA2_OR_WPA3.                                                      *)
THEOREM OrderOnlyEverShowsInTie == Spec => []OrderOnlyShowsInTie
<1>1. RowsInv /\ ResultInv => OrderOnlyShowsInTie
  <2> SUFFICES ASSUME RowsInv, ResultInv, phase = "done",
                      NEW p \in [DOMAIN buffer -> DOMAIN buffer],
                      \A i, j \in DOMAIN buffer : p[i] = p[j] => i = j
               PROVE  View(ResultOf([i \in DOMAIN buffer |-> buffer[p[i]]])) = View(findings)
    BY DEF OrderOnlyShowsInTie, View, Blurred
  <2>1. buffer \in Seq(StoredRows) /\ findings = ResultOf(buffer)
    BY DEF RowsInv, ResultInv
  <2> QED
    BY <2>1, OrderDoesNotShow
<1> QED
  BY <1>1, Invariance, ResultsOfTheBuffer, PTL
=============================================================================
