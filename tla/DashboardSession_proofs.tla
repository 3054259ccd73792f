----------------------- MODULE DashboardSession_proofs -----------------------
(***************************************************************************)
(* What the dashboard guarantees, for every number of operators, rounds    *)
(* and clicks and whatever the rounds contain.  First the data of a page,  *)
(* then deletions from it, then the page itself: the shape of what it      *)
(* keeps, the previews, the runs that start on their own, what the two     *)
(* loads of a run have read, and the filters.                              *)
(***************************************************************************)
EXTENDS DashboardSession, StorageRounds_proofs, WellFoundedInduction

(* Some number is the least of any. *)
LEMMA LeastNumber ==
    ASSUME NEW S \in SUBSET Nat, S # {}
    PROVE  \E n \in S : \A m \in S : n <= m
<1> DEFINE R == OpToRel(<, Nat)
<1>1. ASSUME NEW m \in Nat, NEW n \in Nat, m < n PROVE <<m, n>> \in R
  BY <1>1, Zenon DEF OpToRel
<1>2. IsWellFoundedOn(R, Nat)
  BY NatLessThanWellFounded
<1> HIDE DEF R
<1>3. PICK n \in S : \A m \in S : <<m, n>> \notin R
  BY <1>2, WFMin
<1>4. ASSUME NEW m \in S PROVE n <= m
  <2>1. m \in Nat /\ n \in Nat /\ ~(m < n)
    BY <1>1, <1>3
  <2> QED
    BY ONLY <2>1
<1> QED
  BY <1>3, <1>4

(* The findings kept among the first n, by every n. *)
IsKept(filters, findings, kept, upto) ==
    kept = [n \in 0..upto |->
               IF n = 0 THEN <<>>
               ELSE IF Matches(filters, findings[n]) THEN Append(kept[n - 1], findings[n])
               ELSE kept[n - 1]]

(* There are such findings. *)
LEMMA KeptExists ==
    ASSUME NEW filters, NEW findings, NEW upto \in Nat
    PROVE  \E kept : IsKept(filters, findings, kept, upto)
<1> DEFINE Bad == {n \in Nat : ~\E kept : IsKept(filters, findings, kept, n)}
<1>1. SUFFICES ASSUME Bad # {} PROVE FALSE
  OBVIOUS
<1>2. PICK n \in Bad : \A m \in Bad : n <= m
  BY <1>1, LeastNumber
<1>3. CASE n = 0
  <2> DEFINE kept == [i \in 0..0 |-> <<>>]
  <2>1. IsKept(filters, findings, kept, 0)
    BY DEF IsKept
  <2> QED
    BY <1>2, <1>3, <2>1
<1>4. CASE n # 0
  <2>1. n \in Nat /\ n - 1 \in Nat /\ n - 1 \notin Bad
    BY <1>2, <1>4
  <2>2. PICK k : IsKept(filters, findings, k, n - 1)
    BY <2>1
  <2> DEFINE kept == [i \in 0..n |->
                         IF i # n THEN k[i]
                         ELSE IF Matches(filters, findings[n]) THEN Append(k[n - 1], findings[n])
                         ELSE k[n - 1]]
  <2>3. ASSUME NEW i \in 0..n
        PROVE  kept[i] = IF i = 0 THEN <<>>
                         ELSE IF Matches(filters, findings[i])
                              THEN Append(kept[i - 1], findings[i])
                         ELSE kept[i - 1]
    <3>1. CASE i = n
      <4>1. kept[i - 1] = k[n - 1]
        BY <2>1, <3>1
      <4> QED
        BY <1>4, <3>1, <4>1
    <3>2. CASE i # n
      <4>1. i \in 0..(n - 1) /\ kept[i] = k[i] /\ (i # 0 => kept[i - 1] = k[i - 1])
        BY <2>1, <3>2
      <4>2. k[i] = IF i = 0 THEN <<>>
                   ELSE IF Matches(filters, findings[i]) THEN Append(k[i - 1], findings[i])
                   ELSE k[i - 1]
        BY <2>2, <4>1 DEF IsKept
      <4> QED
        BY <4>1, <4>2
    <3> QED
      BY <3>1, <3>2
  <2>4. IsKept(filters, findings, kept, n)
    <3>1. kept = [i \in 0..n |-> kept[i]]
      OBVIOUS
    <3> HIDE DEF kept
    <3> QED
      BY <2>3, <3>1 DEF IsKept
  <2> QED
    BY <1>2, <2>4
<1> QED
  BY <1>3, <1>4

(* Filtered is the last of them. *)
LEMMA FilteredIsKept ==
    ASSUME NEW filters, NEW findings, Len(findings) \in Nat
    PROVE  \E kept : /\ IsKept(filters, findings, kept, Len(findings))
                     /\ Filtered(filters, findings) = kept[Len(findings)]
<1> DEFINE kept == CHOOSE k : IsKept(filters, findings, k, Len(findings))
<1>1. IsKept(filters, findings, kept, Len(findings))
  BY KeptExists
<1>2. Filtered(filters, findings) = kept[Len(findings)]
  BY DEF Filtered, IsKept
<1> QED
  BY <1>1, <1>2

(* Findings, in the order of their zones. *)
ByZone(findings) ==
    /\ findings \in Seq(EntriesOf(findings))
    /\ \A f \in EntriesOf(findings) : f.zone \in Nat
    /\ \A i, j \in DOMAIN findings : i <= j => findings[i].zone <= findings[j].zone

(* A filter leaves findings of the page in their order. *)
LEMMA FilteredKeepsOrder ==
    ASSUME NEW filters, NEW findings, ByZone(findings)
    PROVE  /\ Filtered(filters, findings) \in Seq(EntriesOf(findings))
           /\ ByZone(Filtered(filters, findings))
<1> DEFINE F == EntriesOf(findings)
           top == Len(findings)
<1>1. findings \in Seq(F) /\ DOMAIN findings = 1..top /\ top \in Nat
  BY DEF ByZone
<1>2. PICK kept : /\ IsKept(filters, findings, kept, top)
                  /\ Filtered(filters, findings) = kept[top]
  BY <1>1, FilteredIsKept
<1> DEFINE Sound(s, n) ==
               /\ s \in Seq(F)
               /\ \A a \in DOMAIN s : \E j \in 1..n : s[a] = findings[j]
               /\ \A a, b \in DOMAIN s : a <= b => s[a].zone <= s[b].zone
           Bad == {n \in 0..top : ~Sound(kept[n], n)}
<1>3. Bad = {}
  <2> SUFFICES ASSUME Bad # {} PROVE FALSE
    OBVIOUS
  <2>1. PICK n \in Bad : \A m \in Bad : n <= m
    <3>1. Bad \subseteq Nat
      BY <1>1
    <3> HIDE DEF Bad
    <3> QED
      BY <3>1, LeastNumber
  <2>2. CASE n = 0
    <3>1. kept[n] = <<>>
      BY <1>1, <1>2, <2>2 DEF IsKept
    <3>2. Sound(<<>>, n)
      OBVIOUS
    <3> QED
      BY <2>1, <3>1, <3>2
  <2>3. CASE n # 0
    <3>1. n \in 1..top /\ n - 1 \in 0..top /\ n - 1 \in Nat
      BY <1>1, <2>1, <2>3
    <3>2. Sound(kept[n - 1], n - 1)
      BY <2>1, <3>1
    <3> DEFINE k == kept[n - 1]
    <3>3. kept[n] = IF Matches(filters, findings[n]) THEN Append(k, findings[n]) ELSE k
      <4>1. \A i \in 0..top :
                kept[i] = IF i = 0 THEN <<>>
                          ELSE IF Matches(filters, findings[i])
                               THEN Append(kept[i - 1], findings[i])
                          ELSE kept[i - 1]
        BY <1>2 DEF IsKept
      <4>2. n \in 0..top
        BY <2>1
      <4> QED
        BY <2>3, <4>1, <4>2
    <3> HIDE DEF k, F, top
    <3>4. k \in Seq(F) /\ findings[n] \in F
      BY <1>1, <3>1, <3>2 DEF F, top, k, EntriesOf
    <3>5. \A a \in DOMAIN k : k[a].zone <= findings[n].zone
      <4> SUFFICES ASSUME NEW a \in DOMAIN k PROVE k[a].zone <= findings[n].zone
        OBVIOUS
      <4>1. PICK j \in 1..(n - 1) : k[a] = findings[j]
        BY <3>2 DEF k
      <4>2. j \in 1..top /\ n \in 1..top /\ j <= n
        BY <1>1, <3>1, <4>1
      <4> QED
        BY <1>1, <4>1, <4>2 DEF ByZone
    <3>6. findings[n].zone \in Nat
      BY <3>4 DEF ByZone, F
    <3>7. Sound(k, n)
      BY <3>1, <3>2 DEF k
    <3>8. Sound(Append(k, findings[n]), n)
      <4> DEFINE s == Append(k, findings[n])
      <4>1. /\ s \in Seq(F) /\ DOMAIN s = 1..(Len(k) + 1) /\ DOMAIN k = 1..Len(k)
            /\ Len(k) \in Nat
            /\ \A a \in 1..Len(k) : s[a] = k[a]
            /\ s[Len(k) + 1] = findings[n]
        BY <3>4
      <4> HIDE DEF s
      <4>2. \A a \in DOMAIN s : \E j \in 1..n : s[a] = findings[j]
        <5> SUFFICES ASSUME NEW a \in DOMAIN s PROVE \E j \in 1..n : s[a] = findings[j]
          OBVIOUS
        <5>1. CASE a = Len(k) + 1
          BY <3>1, <4>1, <5>1
        <5>2. CASE a # Len(k) + 1
          <6>1. a \in DOMAIN k /\ s[a] = k[a]
            BY <4>1, <5>2
          <6> QED
            BY <3>7, <6>1
        <5> QED
          BY <5>1, <5>2
      <4>3. \A a, b \in DOMAIN s : a <= b => s[a].zone <= s[b].zone
        <5> SUFFICES ASSUME NEW a \in DOMAIN s, NEW b \in DOMAIN s, a <= b
                     PROVE  s[a].zone <= s[b].zone
          OBVIOUS
        <5>1. CASE b \in DOMAIN k
          <6>1. a \in DOMAIN k /\ s[a] = k[a] /\ s[b] = k[b]
            BY <4>1, <5>1
          <6> QED
            BY <3>7, <5>1, <6>1
        <5>2. CASE b \notin DOMAIN k
          <6>1. b = Len(k) + 1 /\ s[b] = findings[n]
            BY <4>1, <5>2
          <6>2. CASE a \in DOMAIN k
            BY <3>5, <4>1, <6>1, <6>2
          <6>3. CASE a \notin DOMAIN k
            <7>1. a = b
              BY <4>1, <6>1, <6>3
            <7> QED
              BY <3>6, <6>1, <7>1
          <6> QED
            BY <6>2, <6>3
        <5> QED
          BY <5>1, <5>2
      <4> QED
        BY <4>1, <4>2, <4>3 DEF s
    <3>9. Sound(kept[n], n)
      <4>1. CASE Matches(filters, findings[n])
        <5>1. kept[n] = Append(k, findings[n])
          BY <3>3, <4>1
        <5> QED
          BY <3>8, <5>1
      <4>2. CASE ~Matches(filters, findings[n])
        <5>1. kept[n] = k
          BY <3>3, <4>2
        <5> QED
          BY <3>7, <5>1
      <4> QED
        BY <4>1, <4>2
    <3> QED
      BY <2>1, <3>9
  <2> QED
    BY <2>2, <2>3
<1>4. Sound(kept[top], top)
  BY <1>1, <1>3
<1> DEFINE s == kept[top]
<1>5. EntriesOf(s) \subseteq F
  BY <1>4 DEF EntriesOf
<1>6. s \in Seq(EntriesOf(s))
  <2>1. /\ Len(s) \in Nat /\ DOMAIN s = 1..Len(s)
        /\ s = [i \in 1..Len(s) |-> s[i]]
    BY <1>4
  <2>2. \A i \in 1..Len(s) : s[i] \in EntriesOf(s)
    BY <2>1 DEF EntriesOf
  <2> HIDE DEF s
  <2>3. s \in [1..Len(s) -> EntriesOf(s)]
    BY <2>1, <2>2
  <2> QED
    BY <2>1, <2>3
<1> QED
  BY <1>2, <1>4, <1>5, <1>6 DEF ByZone

-----------------------------------------------------------------------------
(* What a function on the first numbers is as a sequence. *)
LEMMA SequenceOfEntries ==
    ASSUME NEW n \in Nat, NEW s, s = [i \in 1..n |-> s[i]]
    PROVE  s \in Seq(EntriesOf(s)) /\ Len(s) = n
<1>1. \A i \in 1..n : s[i] \in EntriesOf(s)
  BY DEF EntriesOf
<1> QED
  BY <1>1

(* A round without its findings, and one with them, are in zone order. *)
LEMMA StoredByZone ==
    ASSUME NEW c \in Contents \cup {Nothing}
    PROVE  ByZone(c.findings)
<1>1. CASE c = Nothing
  BY <1>1 DEF Nothing, ByZone, EntriesOf
<1>2. CASE c \in Contents
  <2>1. /\ c.findings \in Seq(EntriesOf(c.findings))
        /\ \A f \in EntriesOf(c.findings) : f.zone \in Nat
    BY <1>2, FindingsAssumption
  <2>2. ASSUME NEW i \in DOMAIN c.findings, NEW j \in DOMAIN c.findings, i <= j
        PROVE  c.findings[i].zone <= c.findings[j].zone
    <3>1. i \in Nat \ {0} /\ j \in Nat \ {0}
      BY <2>1
    <3>2. CASE i = j
      BY <2>1, <3>2 DEF EntriesOf
    <3>3. CASE i # j
      <4>1. i \in 1..(j - 1)
        BY <2>2, <3>1, <3>3
      <4> QED
        BY <1>2, <4>1, ContentsAssumption
    <3> QED
      BY <3>2, <3>3
  <2> QED
    BY <2>1, <2>2 DEF ByZone
<1> QED
  BY <1>1, <1>2

(* Only the category comes from the factors. *)
LEMMA RowKeepsZone ==
    ASSUME NEW f, NEW factors,
           f = [zone |-> f.zone, network |-> f.network, place |-> f.place, signal |-> f.signal]
    PROVE  /\ FindingFromRow(f, factors).zone = f.zone
           /\ FindingFromRow(f, factors).network = f.network
<1>1. ASSUME NEW signal PROVE [f EXCEPT !.signal = signal].zone = f.zone
                              /\ [f EXCEPT !.signal = signal].network = f.network
  OBVIOUS
<1> QED
  BY <1>1 DEF FindingFromRow

(* Whatever factors were read, the findings stay in the order of zones. *)
LEMMA AllFindingsByZone ==
    ASSUME NEW c \in Contents \cup {Nothing}, NEW read, read.findings = c.findings
    PROVE  ByZone(AllFindings(read))
<1> DEFINE s == c.findings
           a == AllFindings(read)
<1>1. ByZone(s)
  BY StoredByZone
<1>2. Len(s) \in Nat /\ DOMAIN s = 1..Len(s)
  BY <1>1 DEF ByZone
<1>3. a = [i \in 1..Len(s) |-> FindingFromRow(s[i], read.factors)]
  BY <1>2 DEF AllFindings
<1>4. a \in Seq(EntriesOf(a)) /\ DOMAIN a = 1..Len(s)
  <2>1. a = [i \in 1..Len(s) |-> a[i]]
    BY <1>3
  <2> HIDE DEF a, s
  <2> QED
    BY <1>2, <2>1, SequenceOfEntries
<1>5. \A i \in 1..Len(s) : a[i].zone = s[i].zone /\ s[i].zone \in Nat
  <2> SUFFICES ASSUME NEW i \in 1..Len(s) PROVE a[i].zone = s[i].zone /\ s[i].zone \in Nat
    OBVIOUS
  <2>1. s[i] \in EntriesOf(s)
    BY <1>2 DEF EntriesOf
  <2>2. c \in Contents
    BY <1>2 DEF Nothing
  <2>3. s[i] = [zone |-> s[i].zone, network |-> s[i].network, place |-> s[i].place,
                signal |-> s[i].signal]
    BY <2>1, <2>2, FindingsAssumption
  <2>4. a[i] = FindingFromRow(s[i], read.factors)
    BY <1>3
  <2>5. s[i].zone \in Nat
    BY <1>1, <2>1 DEF ByZone
  <2> HIDE DEF a, s
  <2> QED
    BY <2>3, <2>4, <2>5, RowKeepsZone
<1> HIDE DEF a, s
<1>6. \A f \in EntriesOf(a) : f.zone \in Nat
  BY <1>4, <1>5 DEF EntriesOf
<1>7. \A i, j \in DOMAIN a : i <= j => a[i].zone <= a[j].zone
  BY <1>1, <1>2, <1>4, <1>5 DEF ByZone
<1> QED
  BY <1>4, <1>6, <1>7 DEF ByZone, a

(* Read together with their factors, the findings are those of the round. *)
LEMMA WholeRead ==
    ASSUME NEW c \in Contents, NEW read,
           read.findings = c.findings, read.factors = c.findings
    PROVE  AllFindings(read) = c.findings
<1> DEFINE s == c.findings
<1>1. s \in Seq(EntriesOf(s))
  BY FindingsAssumption
<1>2. ASSUME NEW i \in DOMAIN s PROVE FindingFromRow(s[i], s) = s[i]
  <2> DEFINE f == s[i]
             own == {g \in EntriesOf(s) : SameKey(f, g)}
  <2>1. f \in EntriesOf(s)
    BY DEF EntriesOf
  <2>2. ASSUME NEW g \in own PROVE g = f
    <3>1. PICK j \in DOMAIN s : g = s[j]
      BY DEF EntriesOf
    <3>2. i \in Nat \ {0} /\ j \in Nat \ {0}
      BY <1>1
    <3>3. ~(j \in 1..(i - 1)) /\ ~(i \in 1..(j - 1))
      BY <3>1, ContentsAssumption DEF SameKey
    <3>4. i = j
      BY <3>2, <3>3
    <3> QED
      BY <3>1, <3>4
  <2>3. f \in own
    BY <2>1 DEF SameKey
  <2>4. own # {} /\ (CHOOSE g \in own : TRUE) = f
    <3> HIDE DEF own, f
    <3> QED
      BY <2>2, <2>3
  <2>5. f = [zone |-> f.zone, network |-> f.network, place |-> f.place, signal |-> f.signal]
    BY <2>1, FindingsAssumption
  <2>6. FindingFromRow(f, s) = [f EXCEPT !.signal = IF own = {} THEN "none"
                                                    ELSE (CHOOSE g \in own : TRUE).signal]
    BY DEF FindingFromRow
  <2> HIDE DEF own, f
  <2>7. FindingFromRow(f, s) = [f EXCEPT !.signal = f.signal]
    BY <2>4, <2>6
  <2>8. FindingFromRow(f, s) = f
    BY <2>5, <2>7
  <2> QED
    BY <2>8 DEF f
<1>3. AllFindings(read) = [i \in DOMAIN s |-> FindingFromRow(s[i], s)]
  BY DEF AllFindings
<1>4. s = [i \in DOMAIN s |-> s[i]]
  BY <1>1
<1> HIDE DEF s
<1>5. AllFindings(read) = s
  BY <1>2, <1>3, <1>4
<1> QED
  BY <1>5 DEF s

(* The page raises on findings whose factors are gone. *)
LEMMA LostFactorsRaise ==
    ASSUME NEW c \in Contents, NEW read, NEW filters,
           read.findings = c.findings, read.factors = <<>>
    PROVE  LoadRaises(filters, AllFindings(read))
<1> DEFINE s == c.findings
           a == AllFindings(read)
<1>1. s \in Seq(EntriesOf(s)) /\ s # <<>>
  BY FindingsAssumption, ContentsAssumption
<1>2. 1 \in DOMAIN s
  BY <1>1
<1>3. s[1] \in EntriesOf(s)
  BY <1>2 DEF EntriesOf
<1>4. s[1] = [zone |-> s[1].zone, network |-> s[1].network, place |-> s[1].place,
              signal |-> s[1].signal]
  BY <1>3, FindingsAssumption
<1>5. FindingFromRow(s[1], <<>>).signal = "none"
  <2>1. {g \in EntriesOf(<<>>) : SameKey(s[1], g)} = {}
    BY DEF EntriesOf
  <2>2. FindingFromRow(s[1], <<>>) = [s[1] EXCEPT !.signal = "none"]
    BY <2>1 DEF FindingFromRow
  <2> HIDE DEF s
  <2> QED
    BY <1>4, <2>2
<1>6. 1 \in DOMAIN a /\ a[1].signal = "none"
  BY <1>2, <1>5 DEF AllFindings
<1>7. "weak" \in SIGNALS /\ \A j \in 1..(1 - 1) : a[j].signal # "weak"
  BY DEF SIGNALS
<1> HIDE DEF a
<1>8. \E x \in SIGNALS : \A j \in 1..(1 - 1) : a[j].signal # x
  BY <1>7
<1>9. LoadRaises(filters, a)
  BY <1>6, <1>8 DEF LoadRaises
<1> QED
  BY <1>9 DEF a

-----------------------------------------------------------------------------
(* The box that is ticked is that of a confirmed round, and only the round *)
(* on the page can be confirmed while the page is drawn; the session stays *)
(* on its page while it deletes.                                           *)
ConsentInv ==
    /\ ticked \subseteq consent
    /\ page \in {"idle", "deleting"} => consent \subseteq {round}
    /\ page \notin {"idle", "list"} => round \in Rounds
    /\ page = "idle" /\ screen.kind = "overview" => round \in Rounds
    /\ deletion[Me].pc \notin Ended =>
          page = "deleting" /\ deletion[Me].round = round /\ round \in consent

SessionInv == StorageInv /\ ConsentInv

-----------------------------------------------------------------------------
(* The end of a run of the script, and steps that do not end it. *)
LEMMA DrawKeepsConsent ==
    ASSUME ConsentInv, UNCHANGED storageVars, round' = round, page # "deleting",
           NEW s, NEW boxes \in SUBSET {round}, NEW m, Draw(s, boxes, m),
           round \in Rounds \/ screen'.kind # "overview"
    PROVE  ConsentInv'
BY DEF ConsentInv, Draw, storageVars

(* A run of the script that starts keeps what was confirmed. *)
LEMMA RunKeepsConsent ==
    ASSUME ConsentInv, UNCHANGED storageVars, UNCHANGED <<ticked, consent>>,
           page # "deleting", page' \notin {"idle", "deleting"},
           page' = "list" \/ round' \in Rounds
    PROVE  ConsentInv'
BY DEF ConsentInv, storageVars

(* Reading a table keeps what was confirmed. *)
LEMMA ReadsKeepConsent ==
    ASSUME ConsentInv, UNCHANGED storageVars, NEW from, NEW to, NEW i, NEW table, NEW value,
           Reads(from, to, i, table, value),
           from \notin {"idle", "list", "deleting"}, to \notin {"idle", "list", "deleting"}
    PROVE  ConsentInv'
BY DEF ConsentInv, Reads, storageVars

(* Every step of the script. *)
LEMMA ScriptKeepsConsent == ConsentInv /\ ScriptStep => ConsentInv'
<1> SUFFICES ASSUME ConsentInv, ScriptStep PROVE ConsentInv'
  OBVIOUS
<1>0. UNCHANGED storageVars
  BY DEF ScriptStep
<1>e. ASSUME ShowError, page \notin {"idle", "list", "deleting"} PROVE ConsentInv'
  BY <1>0, <1>e, DrawKeepsConsent DEF ShowError, ConsentInv
<1>1. CASE List
  <2>1. CASE \E r \in Rounds : Retained(r) /\ round' = r /\ page' = "round1"
                               /\ UNCHANGED <<ticked, consent>>
    BY <1>0, <1>1, <2>1, RunKeepsConsent DEF List
  <2>2. CASE Draw([Blank EXCEPT !.kind = "no_rounds"], {}, NoMarker) /\ UNCHANGED round
    <3>1. screen'.kind = "no_rounds"
      BY <2>2 DEF Draw, Blank
    <3> QED
      BY <1>0, <1>1, <2>2, <3>1, DrawKeepsConsent DEF List
  <2> QED
    BY <1>1, <2>1, <2>2 DEF List
<1>2. CASE ReadRound
  <2>1. PICK i \in 1..2 :
            /\ page = <<"round1", "round2">>[i]
            /\ \/ Reads(page, <<"zones1", "findings2">>[i], i, "zones", {})
               \/ ShowError
    BY <1>2 DEF ReadRound
  <2> QED
    BY <1>0, <1>e, <2>1, ReadsKeepConsent
<1>3. CASE ReadZones
  BY <1>0, <1>3, ReadsKeepConsent DEF ReadZones
<1>4. CASE ReadFindings
  <2>1. PICK i \in 1..2 :
            Reads(<<"findings1", "findings2">>[i], <<"factors1", "factors2">>[i], i, "findings",
                  stored[round].findings)
    BY <1>4 DEF ReadFindings
  <2> QED
    BY <1>0, <2>1, ReadsKeepConsent
<1>5. CASE ReadFactors
  <2>1. PICK i \in 1..2 :
            /\ page = <<"factors1", "factors2">>[i]
            /\ \/ Reads(page, <<"round2", "draw">>[i], i, "factors", stored[round].findings)
               \/ ShowError
    BY <1>5 DEF ReadFactors
  <2> QED
    BY <1>0, <1>e, <2>1, ReadsKeepConsent
<1>6. CASE ShowDetail
  <2>1. page = "draw" /\ UNCHANGED round /\ round \in Rounds
    BY <1>6 DEF ShowDetail, ConsentInv
  <2>2. \/ Rerun /\ UNCHANGED <<ticked, consent>>
        \/ \E s : Draw(s, {}, NoMarker)
    BY <1>6 DEF ShowDetail
  <2> QED
    BY <1>0, <2>1, <2>2, RunKeepsConsent, DrawKeepsConsent DEF Rerun
<1>7. CASE BreakPage
  <2>1. page = "draw" /\ UNCHANGED round /\ round \in Rounds
    BY <1>7 DEF BreakPage, ConsentInv
  <2> QED
    BY <1>0, <1>7, <2>1, DrawKeepsConsent DEF BreakPage
<1>8. CASE SubmitFilters
  BY <1>0, <1>8, RunKeepsConsent DEF SubmitFilters, Rerun
<1>9. CASE ShowOverview
  <2>1. page = "draw" /\ UNCHANGED round /\ round \in Rounds
    BY <1>9 DEF ShowOverview, ConsentInv
  <2>2. \/ Rerun /\ UNCHANGED <<ticked, consent>>
        \/ \E s, m : Draw(s, IF Dialog = "delete" THEN {ConfirmKey(round)} ELSE {}, m)
    BY <1>9 DEF ShowOverview
  <2> QED
    BY <1>0, <2>1, <2>2, RunKeepsConsent, DrawKeepsConsent DEF Rerun, ConfirmKey
<1> QED
  BY <1>1, <1>2, <1>3, <1>4, <1>5, <1>6, <1>7, <1>8, <1>9 DEF ScriptStep

-----------------------------------------------------------------------------
(* The operator; a new session starts without consent. *)
LEMMA OperatorKeepsConsent ==
    StorageInv /\ ConsentInv /\ (Operator \/ FinishDeletion) => ConsentInv'
<1> SUFFICES ASSUME StorageInv, ConsentInv, Operator \/ FinishDeletion PROVE ConsentInv'
  OBVIOUS
<1>c. ASSUME NEW e, Click(e) PROVE ConsentInv'
  BY <1>c, RunKeepsConsent DEF Click
<1>1. CASE PressButton \/ StageFilters \/ ClickMarker \/ Cancel
  BY <1>c, <1>1 DEF PressButton, Press, StageFilters, ClickMarker, Cancel
<1>2. CASE Tick
  BY <1>2 DEF Tick, ConsentInv, ConfirmKey, storageVars
<1>3. CASE ConfirmDeletion
  <2>1. page = "idle" /\ round \in Rounds /\ round \in consent
    BY <1>3 DEF ConfirmDeletion, OnOverview, ConsentInv, ConfirmKey
  <2>2. deletion'[Me].round = round
    BY <1>3, MeAssumption DEF ConfirmDeletion, BeginDelete, StorageInv, StorageTypeOK
  <2> QED
    BY <1>3, <2>1, <2>2 DEF ConfirmDeletion, ConsentInv
<1>4. CASE NewSession
  BY <1>4 DEF NewSession, ConsentInv, storageVars
<1>5. CASE FinishDeletion
  <2>1. deletion' = deletion /\ deletion[Me].pc \in Ended /\ page = "deleting" /\ round' = round
    BY <1>5 DEF FinishDeletion, DeleteAt, Ended, storageVars
  <2>2. CASE /\ ticked' = ticked \ {ConfirmKey(round)} /\ consent' = {} /\ Rerun
    BY <2>1, <2>2 DEF ConsentInv, ConfirmKey, Rerun
  <2>3. CASE page' = "idle" /\ UNCHANGED <<ticked, consent>>
    BY <2>1, <2>3 DEF ConsentInv
  <2> QED
    BY <1>5, <2>2, <2>3 DEF FinishDeletion
<1> QED
  BY <1>1, <1>2, <1>3, <1>4, <1>5 DEF Operator

(* The pipeline, faults and other operators never start a deletion of Me. *)
LEMMA OthersKeepConsent ==
    ASSUME StorageInv, ConsentInv, AlsoPage,
           StorageNext \/ StorageFaults \/ OtherDeletes
    PROVE  ConsentInv'
<1>1. /\ UNCHANGED <<page, round, ticked, screen, consent>>
  BY DEF AlsoPage
<1>2. deletion'[Me].pc \notin Ended =>
          deletion[Me].pc \notin Ended /\ deletion'[Me].round = deletion[Me].round
  BY OnlyBeginStarts, MeAssumption DEF OtherDeletes
<1> QED
  BY <1>1, <1>2 DEF ConsentInv

-----------------------------------------------------------------------------
(* The world outside the page, in one of three ways. *)
WorldStep == AlsoPage /\ (StorageNext \/ StorageFaults \/ OtherDeletes)

(* The next-state relation, grouped by who acts. *)
LEMMA StepsOfNext ==
    Next => \/ ScriptStep
            \/ Operator \/ FinishDeletion
            \/ WorldStep
BY DEF Next, WorldStep, StorageNext, PipelineStep, DeletionStep

(* Storage changes only by its own actions, whoever takes them. *)
LEMMA StorageOfNext ==
    ASSUME ConsentInv, [Next]_vars
    PROVE  StorageMoves \/ UNCHANGED storageVars
<1>1. CASE ScriptStep \/ FinishDeletion
  BY <1>1 DEF ScriptStep, FinishDeletion
<1>2. CASE Operator
  <2>1. CASE ConfirmDeletion
    <3>1. round \in Rounds
      BY <2>1 DEF ConfirmDeletion, OnOverview, ConsentInv
    <3> QED
      BY <2>1, <3>1, MeAssumption DEF ConfirmDeletion, StorageMoves
  <2>2. CASE ~ConfirmDeletion
    BY <1>2, <2>2 DEF Operator, PressButton, Press, StageFilters, ClickMarker, Cancel, Click,
                      Tick, NewSession
  <2> QED
    BY <2>1, <2>2
<1>3. CASE WorldStep
  BY <1>3 DEF WorldStep, OtherDeletes, StorageMoves
<1>4. CASE UNCHANGED vars
  BY <1>4 DEF vars
<1> QED
  BY <1>1, <1>2, <1>3, <1>4, StepsOfNext

(* Every step preserves the invariant of database and session. *)
LEMMA SessionStep == SessionInv /\ [Next]_vars => SessionInv'
<1> SUFFICES ASSUME SessionInv, [Next]_vars PROVE SessionInv'
  OBVIOUS
<1>1. StorageInv /\ ConsentInv
  BY DEF SessionInv
<1>2. StorageInv'
  BY <1>1, StorageOfNext, StorageStep, StorageStutters
<1>3. ConsentInv'
  <2>1. CASE ScriptStep
    BY <1>1, <2>1, ScriptKeepsConsent
  <2>2. CASE Operator \/ FinishDeletion
    BY <1>1, <2>2, OperatorKeepsConsent
  <2>3. CASE WorldStep
    BY <1>1, <2>3, OthersKeepConsent DEF WorldStep
  <2>4. CASE UNCHANGED vars
    BY <1>1, <2>4 DEF vars, pageVars, storageVars, ConsentInv
  <2> QED
    BY <2>1, <2>2, <2>3, <2>4, StepsOfNext
<1> QED
  BY <1>2, <1>3 DEF SessionInv

(* The invariant of database and session holds in every reachable state. *)
THEOREM Invariance == Spec => []SessionInv
<1>1. Init => SessionInv
  <2> SUFFICES ASSUME Init PROVE SessionInv
    OBVIOUS
  <2>1. StorageInv
    BY StorageStarts DEF Init
  <2>2. ConsentInv
    BY NoDeletionType, MeAssumption
    DEF Init, SessionInit, StorageInit, ConsentInv, Ended, DeleteSteps
  <2> QED
    BY <2>1, <2>2 DEF SessionInv
<1> QED
  BY <1>1, SessionStep, PTL DEF Spec

-----------------------------------------------------------------------------
(* What the operator is told of a deletion, and what the activity log      *)
(* says, is true, with any number of operators and failures.               *)
THEOREM DeletionsToldTruly == Spec => []DeletionToldTruly
<1>1. SessionInv => DeletionToldTruly
  BY DEF SessionInv, StorageInv, DeletionInv, DeletionToldTruly, DeleteAt
<1> QED
  BY <1>1, Invariance, PTL

(* The pipeline reports its results as verified only while they are stored.*)
THEOREM VerifiedIsStored == Spec => VerifiedMeansStored
<1>1. SessionInv /\ [Next]_vars =>
          [pipe.pc = "committed" /\ pipe'.pc = "verified"
              => stored[pipe.round] = pipe.content]_storageVars
  <2> SUFFICES ASSUME SessionInv, [Next]_vars, pipe.pc = "committed", pipe'.pc = "verified"
               PROVE  stored[pipe.round] = pipe.content
    OBVIOUS
  <2>1. StorageInv /\ ConsentInv
    BY DEF SessionInv
  <2> QED
    BY <2>1, StorageOfNext, VerifiedStep
<1> QED
  BY <1>1, Invariance, PTL DEF Spec, VerifiedMeansStored

(* A session deletes only a round that was confirmed in the open dialog.   *)
THEOREM OnlyConfirmedDeleted == Spec => []DeletesOnlyConfirmedRounds
<1>1. SessionInv => DeletesOnlyConfirmedRounds
  BY DEF SessionInv, ConsentInv, DeletesOnlyConfirmedRounds
<1> QED
  BY <1>1, Invariance, PTL

-----------------------------------------------------------------------------
(* What the two loads return, table by table. *)
RowsForm ==
    /\ rows = [i \in 1..2 |-> rows[i]]
    /\ \A i \in 1..2 : rows[i] = [zones |-> rows[i].zones, findings |-> rows[i].findings,
                                  factors |-> rows[i].factors]

(* What the session keeps. *)
StateForm ==
    /\ state = [filters |-> state.filters, selected |-> state.selected,
                dialog |-> state.dialog, told |-> state.told]
    /\ state.dialog \in {"none", "pdf", "delete"} /\ state.told \in BOOLEAN

(* The screen is empty while the script runs, but for the dialog whose     *)
(* deletion has ended; a session that deletes is on its overview.          *)
PageInv ==
    /\ page \in {"idle", "list", "round1", "zones1", "findings1", "factors1", "round2",
                 "findings2", "factors2", "draw", "deleting"}
    /\ round \in Rounds \cup {NoRound}
    /\ RowsForm
    /\ StateForm
    /\ consent \subseteq Rounds
    /\ event.kind \in {"none", "pdf", "delete", "apply", "reset", "back"}
    /\ screen.kind \in {"blank", "no_rounds", "error", "broken", "detail", "overview"}
    /\ page # "idle" => screen.kind \in {"blank", "overview"}
    /\ page = "deleting" => screen.kind = "overview"
    /\ restored \in BOOLEAN /\ outdated \in BOOLEAN
    /\ restarts \in 0..3 /\ clicks \in 0..MaxClicks

(* Before the first statement there is nothing in the tables. *)
LEMMA NoRowsForm ==
    ASSUME rows = NoRows
    PROVE  RowsForm
BY DEF RowsForm, NoRows, Unread

(* A statement that found this value fills one table. *)
Filled(i, table, value) ==
    /\ \A j \in 1..2 : j # i => rows'[j] = rows[j]
    /\ rows'[i].zones = IF table = "zones" THEN value ELSE rows[i].zones
    /\ rows'[i].findings = IF table = "findings" THEN value ELSE rows[i].findings
    /\ rows'[i].factors = IF table = "factors" THEN value ELSE rows[i].factors
    /\ UNCHANGED <<round, state, preview, ticked, event, marker, screen, aimed, consent, restored,
                   outdated, restarts, clicks>>

(* A statement fills one table and leaves the other load alone.            *)
LEMMA ReadsFill ==
    ASSUME RowsForm, NEW from, NEW to, NEW i \in 1..2, NEW value,
           NEW table \in {"zones", "findings", "factors"},
           Reads(from, to, i, table, value)
    PROVE  RowsForm' /\ Filled(i, table, value) /\ page = from /\ page' = to
<1> DEFINE old == rows[i]
           new == [old EXCEPT ![table] = value]
<1>1. rows' = [rows EXCEPT ![i] = new]
  BY DEF Reads
<1>2. old = [zones |-> old.zones, findings |-> old.findings, factors |-> old.factors]
  BY DEF RowsForm
<1>3. new = [zones    |-> IF table = "zones" THEN value ELSE old.zones,
             findings |-> IF table = "findings" THEN value ELSE old.findings,
             factors  |-> IF table = "factors" THEN value ELSE old.factors]
  <2> HIDE DEF old
  <2>1. ASSUME NEW z, NEW f, NEW g,
               old = [zones |-> z, findings |-> f, factors |-> g]
        PROVE  [old EXCEPT ![table] = value] =
                    [zones    |-> IF table = "zones" THEN value ELSE z,
                     findings |-> IF table = "findings" THEN value ELSE f,
                     factors  |-> IF table = "factors" THEN value ELSE g]
    BY <2>1
  <2> QED
    BY <1>2, <2>1
<1> HIDE DEF new
<1>4. /\ rows' = [j \in 1..2 |-> rows'[j]]
      /\ rows'[i] = new /\ \A j \in 1..2 : j # i => rows'[j] = rows[j]
  BY <1>1 DEF RowsForm
<1>5. RowsForm'
  <2>1. new = [zones |-> new.zones, findings |-> new.findings, factors |-> new.factors]
    BY <1>3
  <2>2. ASSUME NEW j \in 1..2
        PROVE  rows'[j] = [zones |-> rows'[j].zones, findings |-> rows'[j].findings,
                           factors |-> rows'[j].factors]
    <3>1. CASE j = i
      BY <1>4, <2>1, <3>1
    <3>2. CASE j # i
      BY <1>4, <3>2 DEF RowsForm
    <3> QED
      BY <3>1, <3>2
  <2> QED
    BY <1>4, <2>2 DEF RowsForm
<1>6. /\ new.zones = IF table = "zones" THEN value ELSE old.zones
      /\ new.findings = IF table = "findings" THEN value ELSE old.findings
      /\ new.factors = IF table = "factors" THEN value ELSE old.factors
  BY <1>3
<1> QED
  BY <1>4, <1>5, <1>6 DEF Filled, Reads

(* All fields of a screen. *)
ScreenForm(s) ==
    s = [kind |-> s.kind, findings |-> s.findings, options |-> s.options, detail |-> s.detail,
         pdf |-> s.pdf, restored |-> s.restored]

(* A run has ended with a page of this kind. *)
RunEnds(kind) ==
    /\ page' = "idle" /\ event' = NoEvent /\ rows' = NoRows
    /\ restored' = FALSE /\ restarts' = 0
    /\ consent' \subseteq consent
    /\ screen'.kind = kind /\ screen'.restored = restored

(* A drawn screen is the one that was made. *)
LEMMA DrawShows ==
    ASSUME NEW s, ScreenForm(s), NEW boxes, NEW m, Draw(s, boxes, m)
    PROVE  /\ RunEnds(s.kind) /\ marker' = m
           /\ screen'.findings = s.findings /\ screen'.options = s.options
           /\ screen'.detail = s.detail /\ screen'.pdf = s.pdf
<1>1. ASSUME NEW k, NEW f, NEW o, NEW d, NEW p, NEW r,
             s = [kind |-> k, findings |-> f, options |-> o, detail |-> d, pdf |-> p,
                  restored |-> r]
      PROVE  [s EXCEPT !.restored = restored] =
                  [kind |-> k, findings |-> f, options |-> o, detail |-> d, pdf |-> p,
                   restored |-> restored]
  BY <1>1
<1>2. screen' = [s EXCEPT !.restored = restored]
  BY DEF Draw
<1>3. screen' = [kind |-> s.kind, findings |-> s.findings, options |-> s.options,
                 detail |-> s.detail, pdf |-> s.pdf, restored |-> restored]
  BY <1>1, <1>2 DEF ScreenForm
<1>4. consent' \subseteq consent
  BY DEF Draw
<1> QED
  BY <1>3, <1>4 DEF Draw, RunEnds

(* The pages that only say something. *)
LEMMA ErrorEnds ==
    ASSUME ShowError
    PROVE  RunEnds("error") /\ screen'.pdf = NoPreview /\ marker' = NoMarker
<1>0. PICK s : s = [Blank EXCEPT !.kind = "error"]
  OBVIOUS
<1>1. ScreenForm(s) /\ s.kind = "error" /\ s.pdf = NoPreview
  BY <1>0 DEF Blank, ScreenForm
<1>2. Draw(s, {}, NoMarker)
  BY <1>0, Zenon DEF ShowError
<1> QED
  BY <1>1, <1>2, DrawShows

(* The page that a stale filter broke. *)
LEMMA BreakEnds ==
    ASSUME BreakPage
    PROVE  RunEnds("broken") /\ screen'.pdf = NoPreview /\ marker' = NoMarker
<1>0. PICK s : s = [Blank EXCEPT !.kind = "broken"]
  OBVIOUS
<1>1. ScreenForm(s) /\ s.kind = "broken" /\ s.pdf = NoPreview
  BY <1>0 DEF Blank, ScreenForm
<1>2. Draw(s, {}, NoMarker)
  BY <1>0, Zenon DEF BreakPage
<1> QED
  BY <1>1, <1>2, DrawShows

(* No round is stored. *)
LEMMA ListEnds ==
    ASSUME List, page' # "round1"
    PROVE  /\ RunEnds("no_rounds") /\ screen'.pdf = NoPreview /\ marker' = NoMarker
           /\ round' = round /\ state' = [state EXCEPT !.told = FALSE]
<1>0. PICK s : s = [Blank EXCEPT !.kind = "no_rounds"]
  OBVIOUS
<1>1. ScreenForm(s) /\ s.kind = "no_rounds" /\ s.pdf = NoPreview
  BY <1>0 DEF Blank, ScreenForm
<1>2. Draw(s, {}, NoMarker) /\ round' = round /\ state' = [state EXCEPT !.told = FALSE]
  BY <1>0, Zenon DEF List
<1> QED
  BY <1>1, <1>2, DrawShows

(* The detail of the first finding of the selected network. *)
LEMMA DetailEnds ==
    ASSUME ShowDetail, event.kind # "back"
    PROVE  /\ RunEnds("detail") /\ screen'.pdf = NoPreview /\ marker' = NoMarker
           /\ screen'.findings = Findings
           /\ screen'.detail = Findings[CHOOSE i \in Chosen : \A j \in Chosen : i <= j]
           /\ UNCHANGED <<state, aimed>>
<1> DEFINE d == Findings[CHOOSE i \in Chosen : \A j \in Chosen : i <= j]
<1>0. PICK s : s = [Blank EXCEPT !.kind = "detail", !.findings = Findings, !.detail = d]
  OBVIOUS
<1>1. Draw(s, {}, NoMarker) /\ UNCHANGED <<state, aimed>>
  BY <1>0, Zenon DEF ShowDetail
<1> HIDE DEF d
<1>2. /\ ScreenForm(s) /\ s.kind = "detail" /\ s.pdf = NoPreview /\ s.findings = Findings
      /\ s.detail = d
  BY <1>0 DEF Blank, ScreenForm
<1> QED
  BY <1>1, <1>2, DrawShows DEF d

(* The overview, or the click that was made on it. *)
LEMMA OverviewEnds ==
    ASSUME ShowOverview
    PROVE  \E p \in Previews :
              /\ preview' = p.kept
              /\ \/ /\ SelectedFromMap(Findings, Clicked) = {}
                    /\ RunEnds("overview") /\ marker' = Clicked
                    /\ screen'.findings = Findings /\ screen'.options = Options
                    /\ screen'.pdf = p.shown
                    /\ state' = [state EXCEPT !.dialog = Dialog]
                    /\ aimed' = NoFinding
                 \/ /\ Rerun
                    /\ \E f \in SelectedFromMap(Findings, Clicked) :
                          state' = [state EXCEPT !.dialog = Dialog, !.selected = f.network]
                    /\ aimed' = IF Clicked.drawn = Findings THEN Findings[Clicked.position]
                                ELSE NoFinding
                    /\ UNCHANGED <<ticked, consent, marker, screen>>
<1> DEFINE drawn == [Blank EXCEPT !.kind = "overview", !.findings = Findings, !.options = Options]
           boxes == IF Dialog = "delete" THEN {ConfirmKey(round)} ELSE {}
<1>1. PICK p \in Previews :
              /\ preview' = p.kept
              /\ \/ /\ SelectedFromMap(Findings, Clicked) = {}
                    /\ Draw([drawn EXCEPT !.pdf = p.shown], boxes, Clicked)
                    /\ state' = [state EXCEPT !.dialog = Dialog]
                    /\ aimed' = NoFinding
                 \/ /\ Rerun
                    /\ \E f \in SelectedFromMap(Findings, Clicked) :
                          state' = [state EXCEPT !.dialog = Dialog, !.selected = f.network]
                    /\ aimed' = IF Clicked.drawn = Findings THEN Findings[Clicked.position]
                                ELSE NoFinding
                    /\ UNCHANGED <<ticked, consent, marker, screen>>
  BY Zenon DEF ShowOverview
<1>2. PICK s : s = [drawn EXCEPT !.pdf = p.shown]
  OBVIOUS
<1>3. PICK b : b = drawn
  OBVIOUS
<1>4. /\ ScreenForm(b) /\ b.kind = "overview" /\ b.findings = Findings /\ b.options = Options
  BY <1>3 DEF Blank, ScreenForm
<1>5. \/ /\ SelectedFromMap(Findings, Clicked) = {} /\ Draw(s, boxes, Clicked)
         /\ state' = [state EXCEPT !.dialog = Dialog] /\ aimed' = NoFinding
      \/ /\ Rerun
         /\ \E f \in SelectedFromMap(Findings, Clicked) :
               state' = [state EXCEPT !.dialog = Dialog, !.selected = f.network]
         /\ aimed' = IF Clicked.drawn = Findings THEN Findings[Clicked.position]
                     ELSE NoFinding
         /\ UNCHANGED <<ticked, consent, marker, screen>>
  BY <1>1, <1>2, Zenon
<1>6. s = [b EXCEPT !.pdf = p.shown]
  BY <1>2, <1>3, Zenon
<1> HIDE DEF drawn, boxes
<1>7. /\ ScreenForm(s) /\ s.kind = "overview" /\ s.pdf = p.shown /\ s.findings = Findings
      /\ s.options = Options
  <2>1. ASSUME NEW k, NEW f, NEW o, NEW d, NEW q, NEW r, NEW shown,
               b = [kind |-> k, findings |-> f, options |-> o, detail |-> d, pdf |-> q,
                    restored |-> r],
               s = [b EXCEPT !.pdf = shown]
        PROVE  s = [kind |-> k, findings |-> f, options |-> o, detail |-> d, pdf |-> shown,
                    restored |-> r]
    BY <2>1
  <2>2. s = [kind |-> b.kind, findings |-> b.findings, options |-> b.options,
             detail |-> b.detail, pdf |-> p.shown, restored |-> b.restored]
    BY <1>4, <1>6, <2>1, Zenon DEF ScreenForm
  <2> QED
    BY <1>4, <2>2 DEF ScreenForm
<1>8. ASSUME Draw(s, boxes, Clicked)
      PROVE  /\ RunEnds("overview") /\ marker' = Clicked
             /\ screen'.findings = Findings /\ screen'.options = Options
             /\ screen'.pdf = p.shown
  BY <1>7, <1>8, DrawShows
<1> QED
  BY <1>1, <1>5, <1>8, Zenon

-----------------------------------------------------------------------------
(* How a step may change what the session keeps. *)
LEMMA StateChanges ==
    ASSUME StateForm, NEW x, NEW y,
           \/ state' = state
           \/ state' = [state EXCEPT !.told = FALSE]
           \/ state' = [state EXCEPT !.selected = x]
           \/ state' = [state EXCEPT !.dialog = y] /\ y \in {"none", "pdf", "delete"}
           \/ state' = [state EXCEPT !.dialog = y, !.selected = x] /\ y \in {"none", "pdf", "delete"}
           \/ state' = [ClearResultState(state) EXCEPT !.filters = x]
           \/ state' = [ClearResultState(state) EXCEPT !.told = TRUE]
           \/ state' = NewState
    PROVE  StateForm'
<1>1. CASE state' = state
  BY <1>1 DEF StateForm
<1>2. CASE state' = [state EXCEPT !.told = FALSE]
  BY <1>2 DEF StateForm
<1>3. CASE state' = [state EXCEPT !.selected = x]
  BY <1>3 DEF StateForm
<1>4. CASE state' = [state EXCEPT !.dialog = y] /\ y \in {"none", "pdf", "delete"}
  BY <1>4 DEF StateForm
<1>5. CASE state' = [state EXCEPT !.dialog = y, !.selected = x] /\ y \in {"none", "pdf", "delete"}
  BY <1>5 DEF StateForm
<1>6. CASE state' = [ClearResultState(state) EXCEPT !.filters = x]
  BY <1>6 DEF StateForm, ClearResultState
<1>7. CASE state' = [ClearResultState(state) EXCEPT !.told = TRUE]
  BY <1>7 DEF StateForm, ClearResultState
<1>8. CASE state' = NewState
  BY <1>8 DEF StateForm, NewState
<1> QED
  BY <1>1, <1>2, <1>3, <1>4, <1>5, <1>6, <1>7, <1>8

(* The end of a run keeps the shape of the page. *)
LEMMA PageEnds ==
    ASSUME PageInv, NEW how, RunEnds(how), StateForm', round' \in Rounds \cup {NoRound},
           how \in {"no_rounds", "error", "broken", "detail", "overview"},
           UNCHANGED <<outdated, clicks>>
    PROVE  PageInv'
<1>1. RowsForm'
  BY DEF RunEnds, RowsForm, NoRows, Unread
<1>2. restored' \in BOOLEAN
  BY Zenon DEF RunEnds
<1>4. outdated' \in BOOLEAN
  BY DEF PageInv
<1>5. /\ page' = "idle" /\ consent' \subseteq Rounds /\ event'.kind = "none"
      /\ screen'.kind = how /\ restarts' \in 0..3 /\ clicks' \in 0..MaxClicks
  BY DEF RunEnds, NoEvent, PageInv
<1>6. screen'.kind \in {"blank", "no_rounds", "error", "broken", "detail", "overview"}
  BY <1>5
<1> HIDE DEF RunEnds
<1> QED
  BY <1>1, <1>2, <1>4, <1>5, <1>6 DEF PageInv

(* So does the script that starts again or goes on. *)
LEMMA PageGoesOn ==
    ASSUME PageInv, page # "idle", RowsForm', StateForm',
           page' \in {"list", "round1", "zones1", "findings1", "factors1", "round2",
                      "findings2", "factors2", "draw"},
           round' \in Rounds \cup {NoRound},
           event' \in {event, NoEvent}, consent' \subseteq consent, screen' = screen,
           restored' \in BOOLEAN, outdated' \in BOOLEAN, restarts' \in 0..3, clicks' = clicks
    PROVE  PageInv'
BY DEF PageInv, NoEvent

(* A script that starts again has read nothing. *)
LEMMA RerunRows ==
    ASSUME Rerun, restarts \in 0..3
    PROVE  RowsForm' /\ restarts' \in 0..3 /\ page' = "list" /\ event' = NoEvent /\ restored' = FALSE
BY DEF Rerun, RowsForm, NoRows, Unread

(* The pages between the list of rounds and the drawn page. *)
Running == {"round1", "zones1", "findings1", "factors1", "round2", "findings2", "factors2", "draw"}

(* Reading a table goes on to the next statement. *)
LEMMA ReadsGoOn ==
    ASSUME PageInv, NEW from \in Running, NEW to \in Running, NEW i \in 1..2, NEW value,
           NEW table \in {"zones", "findings", "factors"}, Reads(from, to, i, table, value)
    PROVE  PageInv'
<1>1. RowsForm'
  BY ReadsFill DEF PageInv
<1>2. page' = to /\ page = from /\ UNCHANGED <<round, state, event, screen, consent, restored,
                                              outdated, restarts, clicks>>
  BY DEF Reads
<1>3. StateForm'
  BY <1>2 DEF PageInv, StateForm
<1> QED
  BY <1>1, <1>2, <1>3, PageGoesOn DEF PageInv, Running

(* What the statements of the script do. *)
LEMMA ScriptReads ==
    ASSUME ReadRound \/ ReadZones \/ ReadFindings \/ ReadFactors
    PROVE  \/ ShowError /\ page \in Running
           \/ \E i \in 1..2, from \in Running, to \in Running,
                 table \in {"zones", "findings", "factors"} : \E value :
                 Reads(from, to, i, table, value)
<1>1. CASE ReadRound
  BY <1>1 DEF ReadRound, Running
<1>2. CASE ReadZones
  BY <1>2 DEF ReadZones, Running
<1>3. CASE ReadFindings
  BY <1>3 DEF ReadFindings, Running
<1>4. CASE ReadFactors
  BY <1>4 DEF ReadFactors, Running
<1> QED
  BY <1>1, <1>2, <1>3, <1>4

(* The script. *)
LEMMA ScriptKeepsPage == PageInv /\ ScriptStep => PageInv'
<1> SUFFICES ASSUME PageInv, ScriptStep PROVE PageInv'
  OBVIOUS
<1>0. StateForm /\ round \in Rounds \cup {NoRound} /\ restarts \in 0..3
  BY DEF PageInv
<1>1. CASE List
  <2>1. CASE page' = "round1"
    <3>1. page = "list" /\ round' \in Rounds
          /\ UNCHANGED <<rows, state, event, screen, consent, restored, outdated, restarts, clicks>>
      BY <1>1, <2>1 DEF List, Draw
    <3>2. RowsForm' /\ StateForm'
      BY <3>1 DEF PageInv, RowsForm, StateForm
    <3> QED
      BY <2>1, <3>1, <3>2, PageGoesOn DEF PageInv
  <2>2. CASE page' # "round1"
    BY <1>0, <1>1, <2>2, ListEnds, StateChanges, PageEnds DEF List
  <2> QED
    BY <2>1, <2>2
<1>2. CASE ReadRound \/ ReadZones \/ ReadFindings \/ ReadFactors
  <2>1. CASE ShowError
    <3>1. StateForm'
      BY <1>0, <2>1, StateChanges DEF ShowError
    <3> QED
      BY <1>0, <2>1, <3>1, ErrorEnds, PageEnds DEF ShowError
  <2> QED
    BY <1>2, <2>1, ScriptReads, ReadsGoOn
<1>3. CASE ShowDetail
  <2>1. CASE event.kind = "back"
    <3>1. page = "draw" /\ Rerun /\ UNCHANGED <<round, screen, consent, outdated, clicks>>
          /\ state' = [state EXCEPT !.selected = NoNetwork]
      BY <1>3, <2>1 DEF ShowDetail
    <3>2. StateForm'
      BY <1>0, <3>1, StateChanges
    <3> QED
      BY <1>0, <3>1, <3>2, RerunRows, PageGoesOn DEF PageInv
  <2>2. CASE event.kind # "back"
    <3>1. RunEnds("detail") /\ UNCHANGED <<round, outdated, clicks, state>>
      BY <1>3, <2>2, DetailEnds DEF ShowDetail
    <3>2. StateForm'
      BY <1>0, <3>1, StateChanges
    <3> QED
      BY <1>0, <3>1, <3>2, PageEnds
  <2> QED
    BY <2>1, <2>2
<1>4. CASE BreakPage
  <2>1. RunEnds("broken") /\ UNCHANGED <<round, outdated, clicks, state>>
    BY <1>4, BreakEnds DEF BreakPage
  <2>2. StateForm'
    BY <1>0, <2>1, StateChanges
  <2> QED
    BY <1>0, <2>1, <2>2, PageEnds
<1>5. CASE SubmitFilters
  <2>1. page = "draw" /\ Rerun /\ UNCHANGED <<round, screen, consent, clicks>>
        /\ outdated' = restored /\ restored \in BOOLEAN
        /\ \E x : state' = [ClearResultState(state) EXCEPT !.filters = x]
    BY <1>5, Zenon DEF SubmitFilters, PageInv
  <2>2. StateForm'
    BY <1>0, <2>1, StateChanges
  <2> QED
    BY <1>0, <2>1, <2>2, RerunRows, PageGoesOn DEF PageInv
<1>6. CASE ShowOverview
  <2>1. page = "draw" /\ UNCHANGED <<round, outdated, clicks>>
        /\ Dialog \in {"none", "pdf", "delete"}
    BY <1>0, <1>6 DEF ShowOverview, Dialog, StateForm
  <2>2. CASE RunEnds("overview") /\ state' = [state EXCEPT !.dialog = Dialog]
    <3>1. StateForm'
      BY <1>0, <2>1, <2>2, StateChanges
    <3> QED
      BY <1>0, <2>1, <2>2, <3>1, PageEnds
  <2>3. CASE /\ Rerun /\ UNCHANGED <<consent, screen>>
             /\ \E x : state' = [state EXCEPT !.dialog = Dialog, !.selected = x]
    <3>1. StateForm'
      BY <1>0, <2>1, <2>3, StateChanges
    <3>2. outdated' \in BOOLEAN
      BY <2>1 DEF PageInv
    <3> QED
      BY <1>0, <2>1, <2>3, <3>1, <3>2, RerunRows, PageGoesOn
  <2> QED
    BY <1>6, <2>2, <2>3, OverviewEnds
<1> QED
  BY <1>1, <1>2, <1>3, <1>4, <1>5, <1>6 DEF ScriptStep

-----------------------------------------------------------------------------
(* An interaction starts a run on an empty screen. *)
LEMMA ClickStarts ==
    ASSUME NEW e, Click(e)
    PROVE  /\ page = "idle" /\ page' = "list" /\ event' = e /\ screen'.kind = "blank"
           /\ screen'.pdf = NoPreview /\ screen'.findings = <<>>
           /\ e.kind = "apply" => screen'.options = screen.options
<1>1. PICK s : s = [Blank EXCEPT !.options = screen.options]
  OBVIOUS
<1>2. s.kind = "blank" /\ s.pdf = NoPreview /\ s.findings = <<>> /\ s.options = screen.options
  BY <1>1 DEF Blank
<1>3. Blank.kind = "blank" /\ Blank.pdf = NoPreview /\ Blank.findings = <<>>
  BY DEF Blank
<1>4. screen' = IF e.kind = "apply" THEN s ELSE Blank
  BY <1>1, Zenon DEF Click
<1> QED
  BY <1>2, <1>3, <1>4 DEF Click

(* An interaction leads to a click, and most change nothing else. *)
LEMMA OperatorActs ==
    ASSUME PageInv, Operator
    PROVE  \/ \E e : /\ Click(e)
                     /\ e.kind \in {"none", "pdf", "delete", "apply", "reset", "back"}
                     /\ e.kind = "apply" => /\ OnOverview
                                            /\ e.staged.zones \subseteq screen.options.zones
                                            /\ e.staged.signals \subseteq screen.options.signals
                     /\ state' \in {state, [state EXCEPT !.dialog = "none"]}
                     /\ \/ marker' = marker
                        \/ /\ marker'.position \in DOMAIN marker'.drawn
                           /\ marker'.drawn = screen.findings
           \/ Tick
           \/ ConfirmDeletion
           \/ NewSession
<1>1. \A k : [NoEvent EXCEPT !.kind = k].kind = k
  BY DEF NoEvent
<1>2. CASE PressButton
  <2>1. PICK k \in {"none", "pdf", "delete", "reset", "back"} : Press(k)
    BY <1>2 DEF PressButton
  <2>2. PICK e : e = [NoEvent EXCEPT !.kind = k]
    OBVIOUS
  <2>3. e.kind = k
    BY <2>2 DEF NoEvent
  <2>4. Click(e) /\ UNCHANGED <<state, marker>>
    BY <2>1, <2>2, Zenon DEF Press
  <2> QED
    BY <2>3, <2>4
<1>3. CASE StageFilters
  <2>1. PICK f \in StagedFilters :
            /\ f.zones \subseteq screen.options.zones /\ f.signals \subseteq screen.options.signals
            /\ Click([kind |-> "apply", staged |-> f])
    BY <1>3 DEF StageFilters
  <2>2. OnOverview /\ UNCHANGED <<state, marker>>
    BY <1>3 DEF StageFilters
  <2> QED
    BY <2>1, <2>2
<1>4. CASE ClickMarker
  <2>1. PICK i \in DOMAIN screen.findings :
            marker' = [position |-> i, place |-> screen.findings[i].place,
                       drawn |-> screen.findings, filters |-> state.filters, round |-> round]
    BY <1>4 DEF ClickMarker
  <2>2. Click(NoEvent) /\ state' = state
    BY <1>4 DEF ClickMarker
  <2>3. marker'.position = i /\ marker'.drawn = screen.findings
    BY <2>1
  <2> QED
    BY <2>2, <2>3 DEF NoEvent
<1>5. CASE Cancel
  <2>1. Click(NoEvent) /\ state' = [state EXCEPT !.dialog = "none"] /\ marker' = marker
    BY <1>5 DEF Cancel
  <2> QED
    BY <2>1 DEF NoEvent
<1> QED
  BY <1>2, <1>3, <1>4, <1>5 DEF Operator

(* The interactions keep the shape of the page. *)
LEMMA OperatorKeepsPage ==
    StorageInv /\ ConsentInv /\ PageInv /\ (Operator \/ FinishDeletion) => PageInv'
<1> SUFFICES ASSUME StorageInv, ConsentInv, PageInv, Operator \/ FinishDeletion PROVE PageInv'
  OBVIOUS
<1>0. /\ StateForm /\ RowsForm /\ round \in Rounds \cup {NoRound} /\ restarts \in 0..3
      /\ clicks \in 0..MaxClicks /\ consent \subseteq Rounds
      /\ outdated \in BOOLEAN /\ restored \in BOOLEAN
  BY DEF PageInv
<1>1. MoreEvents => clicks + 1 \in 0..MaxClicks
  <2>1. used.faults \in Nat /\ MaxClicks \in Nat
    BY MeAssumption DEF StorageInv, StorageTypeOK
  <2> QED
    BY <1>0, <2>1 DEF MoreEvents
<1>2. ASSUME NEW e, Click(e),
             e.kind \in {"none", "pdf", "delete", "apply", "reset", "back"},
             state' \in {state, [state EXCEPT !.dialog = "none"]}
      PROVE  PageInv'
  <2>1. StateForm'
    BY <1>0, <1>2, StateChanges
  <2>2. /\ UNCHANGED <<round, rows, consent, restored, outdated, restarts>> /\ clicks' = clicks + 1
        /\ MoreEvents
    BY <1>2 DEF Click
  <2>3. RowsForm'
    BY <1>0, <2>2 DEF RowsForm
  <2>4. page' = "list" /\ event' = e /\ screen'.kind = "blank"
    BY <1>2, ClickStarts
  <2> QED
    BY <1>0, <1>1, <1>2, <2>1, <2>2, <2>3, <2>4 DEF PageInv
<1>3. CASE Tick
  <2>1. round \in Rounds /\ page = "idle" /\ screen.kind = "overview"
    BY <1>3 DEF Tick, ConsentInv, OnOverview
  <2>2. consent' = consent \cup {round}
        /\ UNCHANGED <<page, round, rows, state, event, screen, restored, outdated, restarts, clicks>>
    BY <1>3 DEF Tick
  <2>3. RowsForm' /\ StateForm'
    BY <1>0, <2>2 DEF RowsForm, StateForm
  <2> QED
    BY <1>0, <2>1, <2>2, <2>3 DEF PageInv
<1>4. CASE ConfirmDeletion
  <2>1. page' = "deleting" /\ screen.kind = "overview"
        /\ UNCHANGED <<round, rows, state, event, screen, consent, restored, outdated, restarts,
                       clicks>>
    BY <1>4 DEF ConfirmDeletion, OnOverview
  <2>2. RowsForm' /\ StateForm'
    BY <1>0, <2>1 DEF RowsForm, StateForm
  <2> QED
    BY <1>0, <2>1, <2>2 DEF PageInv
<1>5. CASE NewSession
  <2>1. /\ page' = "list" /\ round' = NoRound /\ rows' = NoRows /\ state' = NewState
        /\ event' = NoEvent /\ screen' = Blank /\ consent' = {}
        /\ restarts' = 0 /\ clicks' = clicks + 1 /\ MoreEvents
    BY <1>5 DEF NewSession
  <2>2. restored' \in BOOLEAN /\ outdated' \in BOOLEAN
    BY <1>5, Zenon DEF NewSession
  <2>3. RowsForm' /\ StateForm'
    BY <1>0, <2>1, StateChanges DEF RowsForm, NoRows, Unread
  <2>4. event'.kind = "none" /\ screen'.kind = "blank"
    BY <2>1 DEF NoEvent, Blank
  <2> QED
    BY <1>1, <2>1, <2>2, <2>3, <2>4 DEF PageInv
<1>6. CASE FinishDeletion
  <2>1. page = "deleting" /\ UNCHANGED <<round, screen, outdated, clicks>>
    BY <1>6 DEF FinishDeletion
  <2>2. CASE /\ state' = [ClearResultState(state) EXCEPT !.told = TRUE]
             /\ consent' = {} /\ Rerun
    <3>1. StateForm'
      BY <1>0, <2>2, StateChanges
    <3>2. outdated' \in BOOLEAN /\ clicks' = clicks
      BY <1>0, <2>1
    <3> QED
      BY <1>0, <2>1, <2>2, <3>1, <3>2, RerunRows, PageGoesOn
  <2>3. CASE page' = "idle" /\ UNCHANGED <<rows, state, event, consent, restored, restarts>>
    <3>1. RowsForm' /\ StateForm'
      BY <1>0, <2>3 DEF RowsForm, StateForm
    <3> QED
      BY <1>0, <2>1, <2>3, <3>1 DEF PageInv
  <2> QED
    BY <1>6, <2>2, <2>3 DEF FinishDeletion
<1> QED
  BY <1>2, <1>3, <1>4, <1>5, <1>6, OperatorActs

(* So do all others, who see no page. *)
LEMMA WorldKeepsPage == PageInv /\ AlsoPage => PageInv'
<1> SUFFICES ASSUME PageInv, AlsoPage PROVE PageInv'
  OBVIOUS
<1>1. UNCHANGED <<page, round, rows, state, event, screen, consent, clicks>>
  BY DEF AlsoPage
<1>2. restarts' \in {restarts, 0}
  BY DEF AlsoPage
<1>3. RowsForm' /\ StateForm'
  BY <1>1 DEF PageInv, RowsForm, StateForm
<1>4. restored' \in BOOLEAN /\ outdated' \in BOOLEAN
  BY Zenon DEF AlsoPage
<1> QED
  BY <1>1, <1>2, <1>3, <1>4 DEF PageInv

(* A new session. *)
LEMMA PageStarts == SessionInit => PageInv
<1> SUFFICES ASSUME SessionInit PROVE PageInv
  OBVIOUS
<1>1. RowsForm /\ StateForm
  BY DEF SessionInit, RowsForm, NoRows, Unread, StateForm, NewState
<1>2. event.kind = "none" /\ screen.kind = "blank"
  BY DEF SessionInit, NoEvent, Blank
<1>3. restored \in BOOLEAN /\ outdated \in BOOLEAN
  BY Zenon DEF SessionInit
<1>4. page = "list" /\ round = NoRound /\ consent = {} /\ restarts = 0 /\ clicks = 0
  BY DEF SessionInit
<1> QED
  BY <1>1, <1>2, <1>3, <1>4, MeAssumption DEF PageInv

-----------------------------------------------------------------------------
(* The key of a preview tells what was put into it. *)
Keyed(p) == p # NoPreview => p.key = <<p.key[1], p.findings, p.filters>>

(* A PDF on the screen is one of the findings there, and of the filters    *)
(* until the next run begins.                                              *)
PdfInv ==
    /\ Keyed(preview)
    /\ OnOverview /\ screen.pdf # NoPreview =>
          /\ screen.pdf.findings = screen.findings
          /\ page \in {"idle", "deleting"} => screen.pdf.filters = state.filters

(* What the dialog shows is of this page, also when it is kept from an     *)
(* earlier run.                                                            *)
LEMMA PreviewsOfThisView ==
    ASSUME Keyed(preview), NEW p \in Previews
    PROVE  /\ Keyed(p.kept)
           /\ p.shown # NoPreview => p.shown.findings = Findings /\ p.shown.filters = state.filters
<1> DEFINE made == [key |-> PreviewKey(Findings), findings |-> Findings, filters |-> state.filters]
<1>1. /\ made.key = <<round, Findings, state.filters>>
      /\ made.findings = Findings /\ made.filters = state.filters
  BY DEF PreviewKey
<1>2. \/ p.shown = NoPreview /\ p.kept = preview
      \/ /\ p.shown = preview /\ p.kept = preview
         /\ preview # NoPreview /\ preview.key = made.key
      \/ p.shown = made /\ p.kept = made
  BY DEF Previews
<1> HIDE DEF made
<1>3. CASE p.shown = NoPreview /\ p.kept = preview
  BY <1>3
<1>4. CASE /\ p.shown = preview /\ p.kept = preview
           /\ preview # NoPreview /\ preview.key = made.key
  <2>1. <<preview.key[1], preview.findings, preview.filters>> = <<round, Findings, state.filters>>
    BY <1>1, <1>4 DEF Keyed
  <2>2. preview.findings = Findings /\ preview.filters = state.filters
    BY <2>1
  <2> QED
    BY <1>4, <2>2
<1>5. CASE p.shown = made /\ p.kept = made
  <2>1. made.key[1] = round
    BY <1>1
  <2>2. Keyed(made)
    BY <1>1, <2>1 DEF Keyed
  <2> QED
    BY <1>1, <1>5, <2>2
<1> QED
  BY <1>2, <1>3, <1>4, <1>5

(* A page without a PDF, and a run that goes on or starts again. *)
LEMMA PdfKept ==
    ASSUME PdfInv, preview' \in {preview, NoPreview},
           \/ screen'.pdf = NoPreview
           \/ screen' = screen /\ page' \notin {"idle", "deleting"}
           \/ screen' = screen /\ state' = state /\ page \in {"idle", "deleting"}
    PROVE  PdfInv'
BY DEF PdfInv, Keyed, OnOverview

(* Every step. *)
LEMMA ScriptKeepsPdf == PdfInv /\ ScriptStep => PdfInv'
<1> SUFFICES ASSUME PdfInv, ScriptStep PROVE PdfInv'
  OBVIOUS
<1>1. CASE List
  <2>1. CASE page' = "round1"
    BY <1>1, <2>1, PdfKept DEF List, Draw
  <2> QED
    BY <1>1, <2>1, ListEnds, PdfKept DEF List
<1>2. CASE ReadRound \/ ReadZones \/ ReadFindings \/ ReadFactors
  <2>1. CASE ShowError
    BY <2>1, ErrorEnds, PdfKept DEF ShowError
  <2>2. ASSUME NEW i, NEW from, NEW to \in Running, NEW table, NEW value,
               Reads(from, to, i, table, value)
        PROVE  PdfInv'
    BY <2>2, PdfKept DEF Reads, Running
  <2> QED
    BY <1>2, <2>1, <2>2, ScriptReads
<1>3. CASE ShowDetail
  <2>1. CASE event.kind = "back"
    BY <1>3, <2>1, PdfKept DEF ShowDetail, Rerun
  <2>2. CASE event.kind # "back"
    BY <1>3, <2>2, DetailEnds, PdfKept DEF ShowDetail
  <2> QED
    BY <2>1, <2>2
<1>4. CASE BreakPage
  BY <1>4, BreakEnds, PdfKept DEF BreakPage
<1>5. CASE SubmitFilters
  BY <1>5, PdfKept DEF SubmitFilters, Rerun
<1>6. CASE ShowOverview
  <2>1. Keyed(preview)
    BY DEF PdfInv
  <2>2. PICK p \in Previews :
            /\ preview' = p.kept
            /\ \/ /\ screen'.findings = Findings /\ screen'.pdf = p.shown
                  /\ state' = [state EXCEPT !.dialog = Dialog]
               \/ Rerun /\ screen' = screen
    BY <1>6, OverviewEnds
  <2>3. /\ Keyed(p.kept)
        /\ p.shown # NoPreview => p.shown.findings = Findings /\ p.shown.filters = state.filters
    BY <2>1, PreviewsOfThisView
  <2>4. Keyed(preview)'
    BY <2>2, <2>3 DEF Keyed
  <2>5. CASE Rerun /\ screen' = screen
    BY <2>4, <2>5 DEF PdfInv, OnOverview, Rerun
  <2>6. CASE /\ screen'.findings = Findings /\ screen'.pdf = p.shown
             /\ state' = [state EXCEPT !.dialog = Dialog]
    <3>1. state'.filters = state.filters
      BY <2>6
    <3> QED
      BY <2>3, <2>4, <2>6, <3>1 DEF PdfInv
  <2> QED
    BY <2>2, <2>5, <2>6
<1> QED
  BY <1>1, <1>2, <1>3, <1>4, <1>5, <1>6 DEF ScriptStep

(* Steps outside the script. *)
LEMMA OthersKeepPdf ==
    PageInv /\ PdfInv /\ (Operator \/ FinishDeletion \/ WorldStep) => PdfInv'
<1> SUFFICES ASSUME PageInv, PdfInv, Operator \/ FinishDeletion \/ WorldStep PROVE PdfInv'
  OBVIOUS
<1>1. ASSUME NEW e, Click(e) PROVE PdfInv'
  BY <1>1, ClickStarts, PdfKept DEF Click
<1>2. CASE Tick
  BY <1>2, PdfKept DEF Tick
<1>3. CASE ConfirmDeletion
  BY <1>3, PdfKept DEF ConfirmDeletion
<1>4. CASE NewSession
  BY <1>4, PdfKept DEF NewSession, Blank
<1>5. CASE FinishDeletion
  BY <1>5, PdfKept DEF FinishDeletion, Rerun
<1>6. CASE WorldStep
  <2>1. UNCHANGED <<page, state, preview, screen>>
    BY <1>6 DEF WorldStep, AlsoPage
  <2> QED
    BY <2>1 DEF PdfInv, Keyed, OnOverview
<1> QED
  BY <1>1, <1>2, <1>3, <1>4, <1>5, <1>6, OperatorActs

(* A new session has no PDF. *)
LEMMA PdfStarts == SessionInit => PdfInv
BY DEF SessionInit, PdfInv, Keyed, OnOverview, Blank

-----------------------------------------------------------------------------
(* From one statement to the next, with what it found. *)
StatementStep ==
    /\ UNCHANGED <<round, state, preview, ticked, event, marker, screen, aimed, consent, restored,
                   outdated, restarts, clicks>>
    /\ \/ page = "round1" /\ page' = "zones1" /\ Retained(round)
       \/ /\ page = "zones1" /\ page' = "findings1"
          /\ rows'[1].zones = stored[round].zones
       \/ /\ page = "findings1" /\ page' = "factors1"
          /\ rows'[1].zones = rows[1].zones
          /\ rows'[1].findings = stored[round].findings
       \/ /\ page = "factors1" /\ page' = "round2"
          /\ rows'[1].zones = rows[1].zones
          /\ rows'[1].findings = rows[1].findings
          /\ rows'[1].factors = stored[round].findings
       \/ /\ page = "round2" /\ page' = "findings2" /\ Retained(round)
          /\ rows'[1] = rows[1]
       \/ /\ page = "findings2" /\ page' = "factors2"
          /\ rows'[1] = rows[1]
          /\ rows'[2].findings = stored[round].findings
       \/ /\ page = "factors2" /\ page' = "draw"
          /\ rows'[1] = rows[1]
          /\ rows'[2].findings = rows[2].findings
          /\ rows'[2].factors = stored[round].findings
          /\ ~LoadRaises(state.filters, AllFindings(rows'[2]))

(* Every statement ends the run with the error page or leads to the next.  *)
LEMMA StatementSteps ==
    ASSUME RowsForm, ReadRound \/ ReadZones \/ ReadFindings \/ ReadFactors
    PROVE  (ShowError /\ page \in Running) \/ StatementStep
<1>e. CASE ShowError
  <2>1. page' = "idle"
    BY <1>e, ErrorEnds DEF RunEnds
  <2>2. ASSUME NEW i, NEW from, NEW to \in Running, NEW table, NEW value,
               Reads(from, to, i, table, value)
        PROVE  FALSE
    BY <2>1, <2>2 DEF Reads, Running
  <2> QED
    BY <1>e, <2>2, ScriptReads
<1>1. CASE ReadRound /\ ~ShowError
  <2>1. \/ page = "round1" /\ Retained(round) /\ Reads("round1", "zones1", 1, "zones", {})
        \/ page = "round2" /\ Retained(round) /\ Reads("round2", "findings2", 2, "zones", {})
    BY <1>1 DEF ReadRound
  <2>2. CASE page = "round1" /\ Retained(round) /\ Reads("round1", "zones1", 1, "zones", {})
    <3>1. Filled(1, "zones", {}) /\ page' = "zones1"
      BY <2>2, ReadsFill
    <3> QED
      BY <2>2, <3>1 DEF StatementStep, Filled
  <2>3. CASE page = "round2" /\ Retained(round) /\ Reads("round2", "findings2", 2, "zones", {})
    <3>0. 2 \in 1..2 /\ "zones" \in {"zones", "findings", "factors"}
      OBVIOUS
    <3>1. Filled(2, "zones", {}) /\ page' = "findings2"
      BY <2>3, <3>0, ReadsFill, Zenon
    <3>2. rows'[1] = rows[1]
      BY <3>1 DEF Filled
    <3> QED
      BY <2>3, <3>1, <3>2 DEF StatementStep, Filled
  <2> QED
    BY <2>1, <2>2, <2>3
<1>2. CASE ReadZones
  <2>1. Filled(1, "zones", stored[round].zones) /\ page = "zones1" /\ page' = "findings1"
    BY <1>2, ReadsFill DEF ReadZones
  <2> QED
    BY <2>1 DEF StatementStep, Filled
<1>3. CASE ReadFindings
  <2>1. \/ Reads("findings1", "factors1", 1, "findings", stored[round].findings)
        \/ Reads("findings2", "factors2", 2, "findings", stored[round].findings)
    BY <1>3 DEF ReadFindings
  <2>2. CASE Reads("findings1", "factors1", 1, "findings", stored[round].findings)
    <3>1. /\ Filled(1, "findings", stored[round].findings)
          /\ page = "findings1" /\ page' = "factors1"
      BY <2>2, ReadsFill
    <3> QED
      BY <3>1 DEF StatementStep, Filled
  <2>3. CASE Reads("findings2", "factors2", 2, "findings", stored[round].findings)
    <3>1. /\ Filled(2, "findings", stored[round].findings)
          /\ page = "findings2" /\ page' = "factors2"
      BY <2>3, ReadsFill
    <3> QED
      BY <3>1 DEF StatementStep, Filled
  <2> QED
    BY <2>1, <2>2, <2>3
<1>4. CASE ReadFactors /\ ~ShowError
  <2>1. \/ Reads("factors1", "round2", 1, "factors", stored[round].findings)
        \/ /\ Reads("factors2", "draw", 2, "factors", stored[round].findings)
           /\ ~LoadRaises(state.filters,
                          AllFindings([rows[2] EXCEPT !.factors = stored[round].findings]))
    BY <1>4 DEF ReadFactors
  <2>2. CASE Reads("factors1", "round2", 1, "factors", stored[round].findings)
    <3>1. /\ Filled(1, "factors", stored[round].findings)
          /\ page = "factors1" /\ page' = "round2"
      BY <2>2, ReadsFill
    <3> QED
      BY <3>1 DEF StatementStep, Filled
  <2>3. CASE /\ Reads("factors2", "draw", 2, "factors", stored[round].findings)
             /\ ~LoadRaises(state.filters,
                            AllFindings([rows[2] EXCEPT !.factors = stored[round].findings]))
    <3>1. /\ Filled(2, "factors", stored[round].findings)
          /\ page = "factors2" /\ page' = "draw"
      BY <2>3, ReadsFill
    <3>2. rows'[2] = [rows[2] EXCEPT !.factors = stored[round].findings]
      BY <2>3 DEF Reads, RowsForm
    <3>3. ~LoadRaises(state.filters, AllFindings(rows'[2]))
      BY <2>3, <3>2, Zenon
    <3> QED
      BY <3>1, <3>3 DEF StatementStep, Filled
  <2> QED
    BY <2>1, <2>2, <2>3
<1> QED
  BY <1>e, <1>1, <1>2, <1>3, <1>4

-----------------------------------------------------------------------------
(* The findings of a stored round. *)
FindingsIn(r) == AllFindings([findings |-> stored[r].findings, factors |-> stored[r].findings])

(* The selected network has a finding on the page of the round. *)
SelectedIn(r) ==
    LET shown == Filtered(state.filters, FindingsIn(r))
    IN  \E i \in DOMAIN shown : shown[i].network = state.selected

(* A run that was not started by the operator has no interaction to handle *)
(* and reads what is stored; the second such run finds the detail of what  *)
(* the first one selected.                                                 *)
RestartInv ==
    /\ page \in {"idle", "deleting"} => restarts = 0
    /\ restarts # 0 => event.kind = "none"
    /\ restarts # 0 /\ page \in Running => Retained(round)
    /\ restarts # 0 /\ page \in {"factors2", "draw"} => rows[2].findings = stored[round].findings
    /\ restarts # 0 /\ page = "draw" => rows[2].factors = stored[round].findings
    /\ restarts = 2 => \A r \in Rounds : Retained(r) => SelectedIn(r)
    /\ restarts \in 0..2

(* On an unchanged round the page shows the findings that are stored. *)
LEMMA PageOfStored ==
    ASSUME rows[2].findings = stored[round].findings, rows[2].factors = stored[round].findings
    PROVE  Findings = Filtered(state.filters, FindingsIn(round))
BY DEF Findings, FindingsIn, AllFindings

(* Any selection on the map is of a finding of the page. *)
LEMMA SelectionIsShown ==
    ASSUME NEW findings, NEW m, NEW f \in SelectedFromMap(findings, m)
    PROVE  \E i \in DOMAIN findings : f = findings[i]
BY DEF SelectedFromMap, EntriesOf

(* A run that ends, and one that the operator started or ends by starting  *)
(* again.                                                                  *)
LEMMA RestartOnce ==
    ASSUME RestartInv, restarts = 0, Rerun
    PROVE  RestartInv'
BY DEF RestartInv, Rerun, NoEvent, Running

(* A run that has drawn its page. *)
LEMMA RestartEnds ==
    ASSUME NEW kind, RunEnds(kind)
    PROVE  RestartInv'
BY DEF RestartInv, RunEnds, NoEvent, Running

(* A run that goes on. *)
LEMMA RestartKept ==
    ASSUME RestartInv, UNCHANGED <<stored, round, event, restarts>>,
           state'.selected = state.selected, state'.filters = state.filters,
           \/ restarts = 0
           \/ page' \in Running \ {"factors2", "draw"} /\ page \in Running
           \/ page' = "factors2" /\ page \in Running /\ rows'[2].findings = stored[round].findings
           \/ /\ page' = "draw" /\ page \in Running
              /\ rows'[2].findings = stored[round].findings
              /\ rows'[2].factors = stored[round].findings
    PROVE  RestartInv'
<1>1. CASE restarts = 0
  BY <1>1 DEF RestartInv
<1>2. CASE restarts # 0
  <2>1. /\ page' \in Running /\ page \in Running
        /\ page' \in {"factors2", "draw"} => rows'[2].findings = stored[round].findings
        /\ page' = "draw" => rows'[2].factors = stored[round].findings
    BY <1>2 DEF Running
  <2>2. \A r \in Rounds : Retained(r)' = Retained(r) /\ SelectedIn(r)' = SelectedIn(r)
    BY DEF Retained, SelectedIn, FindingsIn
  <2>3. Retained(round)' = Retained(round)
    BY DEF Retained
  <2>4. page' \notin {"idle", "deleting"}
    BY <2>1 DEF Running
  <2> QED
    BY <1>2, <2>1, <2>2, <2>3, <2>4 DEF RestartInv
<1> QED
  BY <1>1, <1>2

(* The script starts again on its own at most twice: the second time the   *)
(* selected network is on the page, which draws its detail.                *)
LEMMA ScriptKeepsRestarts ==
    OneRoundInv /\ ConsentInv /\ PageInv /\ RestartInv /\ ScriptStep => RestartInv'
<1> SUFFICES ASSUME OneRoundInv, ConsentInv, PageInv, RestartInv, ScriptStep PROVE RestartInv'
  OBVIOUS
<1>0. UNCHANGED storageVars /\ stored' = stored /\ RowsForm /\ restarts \in 0..2
  BY DEF ScriptStep, storageVars, PageInv, RestartInv
<1>1. CASE List
  <2>1. CASE page' = "round1"
    <3>1. /\ page = "list" /\ UNCHANGED <<event, restarts, state, rows>> /\ Retained(round')
          /\ round' \in Rounds
      BY <1>1, <2>1 DEF List, Draw
    <3>2. Retained(round)' /\ \A r \in Rounds : Retained(r)' = Retained(r) /\ SelectedIn(r)' = SelectedIn(r)
      BY <1>0, <3>1 DEF Retained, SelectedIn, FindingsIn
    <3> QED
      BY <2>1, <3>1, <3>2 DEF RestartInv
  <2> QED
    BY <1>1, <2>1, ListEnds, RestartEnds
<1>2. CASE ReadRound \/ ReadZones \/ ReadFindings \/ ReadFactors
  <2>1. CASE ShowError
    BY <2>1, ErrorEnds, RestartEnds
  <2>2. CASE StatementStep
    <3>1. UNCHANGED <<round, event, restarts, state>>
      BY <2>2 DEF StatementStep
    <3>2. CASE page' \in Running \ {"factors2", "draw"}
      BY <1>0, <2>2, <3>1, <3>2, RestartKept DEF StatementStep, Running
    <3>3. CASE page' = "factors2"
      <4>1. page = "findings2" /\ rows'[2].findings = stored[round].findings
        BY <2>2, <3>3 DEF StatementStep
      <4> QED
        BY <1>0, <3>1, <3>3, <4>1, RestartKept DEF Running
    <3>4. CASE page' = "draw"
      <4>1. /\ page = "factors2" /\ rows'[2].findings = rows[2].findings
            /\ rows'[2].factors = stored[round].findings
        BY <2>2, <3>4 DEF StatementStep
      <4>2. restarts # 0 => rows'[2].findings = stored[round].findings
        BY <4>1 DEF RestartInv
      <4> QED
        BY <1>0, <3>1, <3>4, <4>1, <4>2, RestartKept DEF Running
    <3> QED
      BY <2>2, <3>2, <3>3, <3>4 DEF StatementStep, Running
  <2> QED
    BY <1>0, <1>2, <2>1, <2>2, StatementSteps
<1>6. CASE ShowDetail
  <2>1. CASE event.kind = "back"
    BY <1>6, <2>1, RestartOnce DEF ShowDetail, RestartInv
  <2>2. CASE event.kind # "back"
    BY <1>6, <2>2, DetailEnds, RestartEnds
  <2> QED
    BY <2>1, <2>2
<1>7. CASE BreakPage
  BY <1>7, BreakEnds, RestartEnds
<1>8. CASE SubmitFilters
  BY <1>8, RestartOnce DEF SubmitFilters, RestartInv
<1>9. CASE ShowOverview
  <2>0. page = "draw" /\ round' = round /\ round \in Rounds /\ Chosen = {}
    BY <1>9 DEF ShowOverview, HasDetail, ConsentInv
  <2>1. CASE RunEnds("overview")
    BY <2>1, RestartEnds
  <2>2. CASE restarts = 0 /\ Rerun
    BY <2>2, RestartOnce
  <2>3. CASE /\ restarts # 0 /\ Rerun
             /\ \E f \in SelectedFromMap(Findings, Clicked) :
                   state' = [state EXCEPT !.dialog = Dialog, !.selected = f.network]
    <3>1. Findings = Filtered(state.filters, FindingsIn(round)) /\ Retained(round)
      BY <2>0, <2>3, PageOfStored DEF RestartInv, Running
    <3>2. restarts # 2
      <4> SUFFICES ASSUME restarts = 2 PROVE FALSE
        OBVIOUS
      <4>1. SelectedIn(round)
        BY <2>0, <3>1 DEF RestartInv
      <4> QED
        BY <2>0, <3>1, <4>1 DEF SelectedIn, Chosen
    <3>3. restarts' = 2 /\ page' = "list" /\ event' = NoEvent
      BY <1>0, <2>3, <3>2 DEF Rerun
    <3>4. PICK f \in SelectedFromMap(Findings, Clicked) :
              state' = [state EXCEPT !.dialog = Dialog, !.selected = f.network]
      BY <2>3
    <3>a. state'.filters = state.filters /\ state'.selected = f.network
      BY <3>4 DEF PageInv, StateForm
    <3>b. PICK i \in DOMAIN Findings : f = Findings[i]
      BY SelectionIsShown
    <3>5. state'.filters = state.filters /\ state'.selected = Findings[i].network
      BY <3>a, <3>b
    <3>6. SelectedIn(round)'
      <4>1. Filtered(state.filters, FindingsIn(round))' = Findings
        BY <1>0, <2>0, <3>1, <3>5 DEF FindingsIn
      <4> QED
        BY <3>5, <4>1 DEF SelectedIn
    <3>7. \A r \in Rounds : Retained(r)' => SelectedIn(r)'
      BY <1>0, <2>0, <3>1, <3>6 DEF OneRoundInv, Retained
    <3> QED
      BY <3>3, <3>7 DEF RestartInv, NoEvent, Running
  <2> QED
    BY <1>9, <2>1, <2>2, <2>3, OverviewEnds
<1> QED
  BY <1>1, <1>2, <1>6, <1>7, <1>8, <1>9 DEF ScriptStep

(* An operator acts on a drawn page only; a change of Storage counts anew. *)
LEMMA OthersKeepRestarts ==
    PageInv /\ RestartInv /\ (Operator \/ FinishDeletion \/ WorldStep) => RestartInv'
<1> SUFFICES ASSUME PageInv, RestartInv, Operator \/ FinishDeletion \/ WorldStep
             PROVE  RestartInv'
  OBVIOUS
<1>0. ASSUME restarts' = 0 PROVE RestartInv'
  BY <1>0 DEF RestartInv
<1>1. ASSUME NEW e, Click(e) PROVE RestartInv'
  BY <1>0, <1>1 DEF Click, RestartInv
<1>2. CASE Tick \/ ConfirmDeletion
  BY <1>0, <1>2 DEF Tick, ConfirmDeletion, RestartInv
<1>3. CASE NewSession
  BY <1>0, <1>3 DEF NewSession
<1>4. CASE FinishDeletion
  <2>1. restarts = 0
    BY <1>4 DEF FinishDeletion, RestartInv
  <2> QED
    BY <1>0, <1>4, <2>1, RestartOnce DEF FinishDeletion
<1>5. CASE WorldStep
  <2>1. UNCHANGED <<page, round, rows, state, event>>
        /\ restarts' = IF stored' = stored THEN restarts ELSE 0
    BY <1>5 DEF WorldStep, AlsoPage
  <2>2. CASE stored' = stored
    <3>1. \A r : Retained(r)' = Retained(r) /\ SelectedIn(r)' = SelectedIn(r)
      BY <2>1, <2>2 DEF Retained, SelectedIn, FindingsIn
    <3>2. Retained(round)' = Retained(round) /\ restarts' = restarts
      BY <2>1, <2>2 DEF Retained
    <3> QED
      BY <2>1, <2>2, <3>1, <3>2 DEF RestartInv
  <2> QED
    BY <1>0, <2>1, <2>2
<1> QED
  BY <1>1, <1>2, <1>3, <1>4, <1>5, OperatorActs

(* A new session has not started again. *)
LEMMA RestartsStart == SessionInit => RestartInv
BY DEF SessionInit, RestartInv, NoEvent, Running

-----------------------------------------------------------------------------
(* The first load has found all of this round. *)
WholeFirst(c) ==
    rows[1].zones = c.zones /\ rows[1].findings = c.findings /\ rows[1].factors = c.findings

(* The first load has found what is stored, as far as it is. *)
FirstLoad ==
    /\ page \in {"findings1", "factors1", "round2"} => rows[1].zones = stored[round].zones
    /\ page \in {"factors1", "round2"} => rows[1].findings = stored[round].findings
    /\ page = "round2" => rows[1].factors = stored[round].findings

(* The second load finds the same round or nothing of it. *)
SecondLoad(c) ==
    /\ WholeFirst(c)
    /\ stored[round] \in {c, Nothing}
    /\ page \in {"factors2", "draw"} => rows[2].findings \in {c.findings, <<>>}
    /\ page = "draw" => AllFindings(rows[2]) \in {c.findings, <<>>}

(* Statements in four snapshots of their own agree as long as no round is  *)
(* stored while they run: a round that is deleted among them either ends   *)
(* the run or leaves nothing more to find.                                 *)
ReadInv ==
    /\ page \in {"factors2", "draw"} =>
          \E c \in Contents \cup {Nothing} : rows[2].findings = c.findings
    /\ page \in Running /\ ~restored =>
          /\ \A r \in Rounds \ {round} : ~Retained(r)
          /\ Retained(round) => FirstLoad
          /\ page \in {"findings2", "factors2", "draw"} => \E c \in Contents : SecondLoad(c)

(* The four statements that a load consists of, one after another. *)
LEMMA StatementsKeepRead ==
    ASSUME StorageTypeOK, round \in Rounds, ReadInv, StatementStep, stored' = stored
    PROVE  ReadInv'
<1>1. stored[round] \in Contents \cup {Nothing}
  BY DEF StorageTypeOK
<1>2. UNCHANGED <<round, restored, state>> /\ page \in Running /\ page # "draw"
  BY DEF StatementStep, Running
<1>3. ASSUME page' \in {"factors2", "draw"}
      PROVE  \E c \in Contents \cup {Nothing} : rows'[2].findings = c.findings
  BY <1>1, <1>3 DEF StatementStep, ReadInv
<1>4. ASSUME ~restored
      PROVE  /\ \A r \in Rounds \ {round} : ~Retained(r)
             /\ Retained(round) => FirstLoad
             /\ page \in {"findings2", "factors2", "draw"} => \E c \in Contents : SecondLoad(c)
  BY <1>2, <1>4 DEF ReadInv
<1>5. \A r : Retained(r)' = Retained(r)
  BY DEF Retained
<1>6. ASSUME ~restored, Retained(round) PROVE FirstLoad'
  BY <1>2, <1>4, <1>6 DEF FirstLoad, StatementStep
<1>7. ASSUME ~restored, page' \in {"findings2", "factors2", "draw"}
      PROVE  \E c \in Contents : SecondLoad(c)'
  <2>1. CASE page = "round2"
    <3>1. Retained(round) /\ rows'[1] = rows[1] /\ page' = "findings2"
      BY <2>1 DEF StatementStep
    <3>2. stored[round] \in Contents
      BY <1>1, <3>1 DEF Retained
    <3>3. SecondLoad(stored[round])'
      BY <1>2, <1>4, <1>7, <2>1, <3>1 DEF SecondLoad, FirstLoad, WholeFirst
    <3> QED
      BY <1>2, <3>2, <3>3
  <2>2. CASE page = "findings2"
    <3>1. PICK c \in Contents : SecondLoad(c)
      BY <1>4, <1>7, <2>2
    <3>2. rows'[1] = rows[1] /\ page' = "factors2" /\ rows'[2].findings = stored[round].findings
      BY <2>2 DEF StatementStep
    <3>3. rows'[2].findings \in {c.findings, <<>>}
      BY <3>1, <3>2 DEF SecondLoad, Nothing
    <3> QED
      BY <1>2, <3>1, <3>2, <3>3 DEF SecondLoad, WholeFirst
  <2>3. CASE page = "factors2"
    <3>1. PICK c \in Contents : SecondLoad(c)
      BY <1>4, <1>7, <2>3
    <3>2. /\ rows'[1] = rows[1] /\ page' = "draw" /\ rows'[2].findings = rows[2].findings
          /\ rows'[2].factors = stored[round].findings
          /\ ~LoadRaises(state.filters, AllFindings(rows'[2]))
      BY <2>3 DEF StatementStep
    <3>3. rows'[2].findings \in {c.findings, <<>>} /\ rows'[2].factors \in {c.findings, <<>>}
      BY <2>3, <3>1, <3>2 DEF SecondLoad, Nothing
    <3>4. AllFindings(rows'[2]) \in {c.findings, <<>>}
      <4>1. CASE rows'[2].findings = <<>>
        <5>1. AllFindings(rows'[2]) = <<>>
          BY <4>1 DEF AllFindings
        <5> QED
          BY <5>1
      <4>2. CASE rows'[2].findings = c.findings /\ rows'[2].factors = c.findings
        BY <4>2, WholeRead
      <4>3. CASE rows'[2].findings = c.findings /\ rows'[2].factors = <<>>
        BY <3>2, <4>3, LostFactorsRaise
      <4> QED
        BY <3>3, <4>1, <4>2, <4>3
    <3> QED
      BY <1>2, <3>1, <3>2, <3>3, <3>4 DEF SecondLoad, WholeFirst
  <2> QED
    BY <1>7, <2>1, <2>2, <2>3 DEF StatementStep
<1>8. ASSUME page' \in Running, ~restored'
      PROVE  /\ \A r \in Rounds \ {round'} : ~Retained(r)'
             /\ Retained(round)' => FirstLoad'
             /\ page' \in {"findings2", "factors2", "draw"} => \E c \in Contents : SecondLoad(c)'
  BY <1>2, <1>4, <1>5, <1>6, <1>7, <1>8
<1> QED
  BY <1>3, <1>8 DEF ReadInv

(* The script. *)
LEMMA ScriptKeepsRead ==
    StorageInv /\ OneRoundInv /\ ConsentInv /\ PageInv /\ ReadInv /\ ScriptStep => ReadInv'
<1> SUFFICES ASSUME StorageInv, OneRoundInv, ConsentInv, PageInv, ReadInv, ScriptStep
             PROVE  ReadInv'
  OBVIOUS
<1>0. stored' = stored /\ StorageTypeOK /\ RowsForm
  BY DEF ScriptStep, storageVars, StorageInv, PageInv
<1>1. ASSUME page' \notin Running PROVE ReadInv'
  BY <1>1 DEF ReadInv, Running
<1>2. ASSUME NEW kind, RunEnds(kind) PROVE ReadInv'
  BY <1>1, <1>2 DEF RunEnds, Running
<1>3. ASSUME Rerun PROVE ReadInv'
  BY <1>1, <1>3 DEF Rerun, Running
<1>4. CASE List
  <2>1. CASE page' = "round1"
    <3>1. Retained(round') /\ round' \in Rounds
      BY <1>4, <2>1 DEF List, Draw
    <3>2. \A r \in Rounds \ {round'} : ~Retained(r)'
      BY <1>0, <3>1 DEF OneRoundInv, Retained
    <3> QED
      BY <2>1, <3>2 DEF ReadInv, FirstLoad
  <2> QED
    BY <1>2, <1>4, <2>1, ListEnds
<1>5. CASE ReadRound \/ ReadZones \/ ReadFindings \/ ReadFactors
  <2>1. CASE ShowError
    BY <1>2, <2>1, ErrorEnds
  <2>2. CASE StatementStep
    <3>1. round \in Rounds
      BY <2>2 DEF StatementStep, ConsentInv
    <3> QED
      BY <1>0, <2>2, <3>1, StatementsKeepRead
  <2> QED
    BY <1>0, <1>5, <2>1, <2>2, StatementSteps
<1>6. CASE ShowDetail
  BY <1>2, <1>3, <1>6, DetailEnds DEF ShowDetail
<1>7. CASE BreakPage
  BY <1>2, <1>7, BreakEnds
<1>8. CASE SubmitFilters
  BY <1>3, <1>8 DEF SubmitFilters
<1>9. CASE ShowOverview
  BY <1>2, <1>3, <1>9, OverviewEnds
<1> QED
  BY <1>4, <1>5, <1>6, <1>7, <1>8, <1>9 DEF ScriptStep

(* A round that is not stored anew stays or goes. *)
LEMMA OthersKeepRead ==
    ConsentInv /\ PageInv /\ ReadInv /\ (Operator \/ FinishDeletion \/ WorldStep) => ReadInv'
<1> SUFFICES ASSUME ConsentInv, PageInv, ReadInv, Operator \/ FinishDeletion \/ WorldStep
             PROVE  ReadInv'
  OBVIOUS
<1>1. ASSUME page' \notin Running PROVE ReadInv'
  BY <1>1 DEF ReadInv, Running
<1>2. CASE Operator \/ FinishDeletion
  <2>1. page' \in {"list", "idle", "deleting"}
    BY <1>2, OperatorActs
    DEF Click, Tick, ConfirmDeletion, NewSession, FinishDeletion, Rerun
  <2> QED
    BY <1>1, <2>1 DEF Running
<1>3. CASE WorldStep
  <2>1. UNCHANGED <<page, round, rows>>
    BY <1>3 DEF WorldStep, AlsoPage
  <2>2. ASSUME page \in Running, ~restored'
        PROVE  ~restored /\ \A r \in Rounds : stored'[r] \in {stored[r], Nothing}
    BY <1>3, <2>2 DEF WorldStep, AlsoPage, Running
  <2>3. ASSUME page \in Running, ~restored'
        PROVE  /\ \A r \in Rounds \ {round} : ~Retained(r)'
               /\ Retained(round)' => FirstLoad'
               /\ page \in {"findings2", "factors2", "draw"} => \E c \in Contents : SecondLoad(c)'
    <3>0. ~restored /\ \A r \in Rounds : stored'[r] \in {stored[r], Nothing}
      BY <2>2, <2>3
    <3>1. \A r \in Rounds \ {round} : ~Retained(r)'
      BY <2>3, <3>0 DEF ReadInv, Retained
    <3>2. ASSUME round \in Rounds PROVE Retained(round)' => FirstLoad'
      BY <2>1, <2>3, <3>0, <3>2 DEF ReadInv, Retained, FirstLoad
    <3>3. ASSUME round \in Rounds, page \in {"findings2", "factors2", "draw"}
          PROVE  \E c \in Contents : SecondLoad(c)'
      <4>1. PICK c \in Contents : SecondLoad(c)
        BY <2>3, <3>0, <3>3 DEF ReadInv
      <4>2. SecondLoad(c)'
        BY <2>1, <3>0, <3>3, <4>1 DEF SecondLoad, WholeFirst
      <4> QED
        BY <4>2
    <3>4. round \in Rounds
      BY <2>3 DEF ConsentInv, Running
    <3> QED
      BY <3>1, <3>2, <3>3, <3>4
  <2> QED
    BY <2>1, <2>3 DEF ReadInv
<1> QED
  BY <1>2, <1>3

(* A new session has read nothing. *)
LEMMA ReadStarts == SessionInit => ReadInv
BY DEF SessionInit, ReadInv, Running

-----------------------------------------------------------------------------
(* Of findings with an order by zone, a page shows some in that order. *)
LEMMA PageByZone ==
    ASSUME ReadInv, page = "draw"
    PROVE  ByZone(Findings) /\ EntriesOf(Findings) \subseteq EntriesOf(AllFindings(rows[2]))
<1>1. PICK c \in Contents \cup {Nothing} : rows[2].findings = c.findings
  BY DEF ReadInv
<1>2. ByZone(AllFindings(rows[2]))
  BY <1>1, AllFindingsByZone
<1>3. /\ Findings \in Seq(EntriesOf(AllFindings(rows[2])))
      /\ ByZone(Findings)
  BY <1>2, FilteredKeepsOrder DEF Findings
<1> HIDE DEF Findings
<1>4. \A i \in DOMAIN Findings : Findings[i] \in EntriesOf(AllFindings(rows[2]))
  BY <1>3
<1> QED
  BY <1>3, <1>4 DEF EntriesOf

(* A drawn page shows what one round had. *)
LEMMA DrawnIsWhole ==
    ASSUME ReadInv, page = "draw", screen'.findings = Findings, screen'.restored = restored
    PROVE  ShownFindingsAreWhole'
<1> SUFFICES ASSUME ~restored
             PROVE  \E c \in Contents : EntriesOf(screen'.findings) \subseteq EntriesOf(c.findings)
  BY DEF ShownFindingsAreWhole
<1>1. PICK c \in Contents : SecondLoad(c)
  BY DEF ReadInv, Running
<1>2. EntriesOf(Findings) \subseteq EntriesOf(AllFindings(rows[2]))
  BY PageByZone
<1>3. AllFindings(rows[2]) \in {c.findings, <<>>}
  BY <1>1 DEF SecondLoad
<1>4. EntriesOf(<<>>) = {}
  BY DEF EntriesOf
<1> QED
  BY <1>2, <1>3, <1>4

(* The selection is of the network whose marker was clicked. *)
AimInv ==
    /\ aimed # NoFinding => state.selected = aimed.network
    /\ marker = NoMarker \/ marker.position \in DOMAIN marker.drawn

(* A click that is handled while the map is still true selects the finding *)
(* that was clicked.                                                       *)
LEMMA ClickSelects ==
    ASSUME AimInv, NEW f \in SelectedFromMap(Findings, Clicked), Clicked.drawn = Findings
    PROVE  f = Findings[Clicked.position]
<1>1. CASE Clicked = NoMarker
  <2>1. Clicked.position = 0 /\ Findings = <<>>
    BY <1>1 DEF NoMarker
  <2>2. SelectedFromMap(Findings, Clicked) = {}
    BY <2>1 DEF SelectedFromMap
  <2> QED
    BY <2>2
<1>2. CASE Clicked = marker /\ marker # NoMarker
  <2>1. Clicked.position \in DOMAIN Findings
    BY <1>2 DEF AimInv
  <2> QED
    BY <2>1 DEF SelectedFromMap
<1> QED
  BY <1>1, <1>2 DEF Clicked

(* The detail is of the first finding of the network in the order of zones.*)
LEMMA DetailIsFirst ==
    ASSUME ReadInv, AimInv, page = "draw", HasDetail, screen'.findings = Findings,
           screen'.detail = Findings[CHOOSE i \in Chosen : \A j \in Chosen : i <= j],
           aimed' = aimed
    PROVE  DetailIsOfClickedNetwork'
<1> DEFINE first == CHOOSE i \in Chosen : \A j \in Chosen : i <= j
<1>1. ByZone(Findings)
  BY PageByZone
<1>2. Chosen \subseteq DOMAIN Findings /\ DOMAIN Findings \subseteq Nat
  BY <1>1 DEF Chosen, ByZone
<1>3. first \in Chosen /\ \A j \in Chosen : first <= j
  BY <1>2, LeastNumber DEF HasDetail
<1> HIDE DEF first
<1>4. first \in DOMAIN Findings /\ Findings[first].network = state.selected
  BY <1>3 DEF Chosen
<1> SUFFICES ASSUME aimed # NoFinding
             PROVE  /\ Findings[first].network = aimed.network
                    /\ (\E f \in EntriesOf(Findings) : SameKey(f, aimed)) =>
                          Findings[first].zone <= aimed.zone
  BY DEF DetailIsOfClickedNetwork, first
<1>5. Findings[first].network = aimed.network
  BY <1>4 DEF AimInv
<1>6. ASSUME NEW f \in EntriesOf(Findings), SameKey(f, aimed)
      PROVE  Findings[first].zone <= aimed.zone
  <2>1. PICK j \in DOMAIN Findings : f = Findings[j]
    BY DEF EntriesOf
  <2>2. j \in Chosen /\ f.zone = aimed.zone
    BY <1>4, <1>5, <1>6, <2>1 DEF Chosen, SameKey
  <2>3. Findings[first].zone <= Findings[j].zone
    BY <1>1, <1>3, <1>4, <2>1, <2>2 DEF ByZone
  <2> QED
    BY <2>1, <2>2, <2>3
<1> QED
  BY <1>5, <1>6

(* What is on the screen. *)
ShownInv == ShownFindingsAreWhole /\ DetailIsOfClickedNetwork

(* A screen without findings, and one that stays. *)
LEMMA ShownKept ==
    ASSUME ShownInv,
           \/ screen'.kind \notin {"overview", "detail"}
           \/ screen' = screen /\ aimed' = aimed
           \/ screen' = screen /\ screen.kind # "detail"
    PROVE  ShownInv'
BY DEF ShownInv, ShownFindingsAreWhole, DetailIsOfClickedNetwork

(* The script. *)
LEMMA ScriptKeepsShown ==
    PageInv /\ ReadInv /\ AimInv /\ ShownInv /\ ScriptStep => ShownInv'
<1> SUFFICES ASSUME PageInv, ReadInv, AimInv, ShownInv, ScriptStep PROVE ShownInv'
  OBVIOUS
<1>1. CASE List
  <2>1. CASE page' = "round1"
    BY <1>1, <2>1, ShownKept DEF List, Draw
  <2> QED
    BY <1>1, <2>1, ListEnds, ShownKept DEF RunEnds
<1>2. CASE ReadRound \/ ReadZones \/ ReadFindings \/ ReadFactors
  <2>1. CASE ShowError
    BY <2>1, ErrorEnds, ShownKept DEF RunEnds
  <2>2. CASE StatementStep
    BY <2>2, ShownKept DEF StatementStep
  <2> QED
    BY <1>2, <2>1, <2>2, StatementSteps DEF PageInv
<1>3. CASE ShowDetail
  <2>1. page = "draw" /\ HasDetail
    BY <1>3 DEF ShowDetail
  <2>2. CASE event.kind = "back"
    BY <1>3, <2>1, <2>2, ShownKept DEF ShowDetail, PageInv
  <2>3. CASE event.kind # "back"
    BY <1>3, <2>1, <2>3, DetailEnds, DrawnIsWhole, DetailIsFirst DEF RunEnds, ShownInv
  <2> QED
    BY <2>2, <2>3
<1>4. CASE BreakPage
  BY <1>4, BreakEnds, ShownKept DEF RunEnds
<1>5. CASE SubmitFilters
  BY <1>5, ShownKept DEF SubmitFilters, PageInv
<1>6. CASE ShowOverview
  <2>1. page = "draw"
    BY <1>6 DEF ShowOverview
  <2>2. CASE screen' = screen
    BY <2>1, <2>2, ShownKept DEF PageInv
  <2>3. CASE RunEnds("overview") /\ screen'.findings = Findings
    <3>1. ShownFindingsAreWhole'
      BY <2>1, <2>3, DrawnIsWhole DEF RunEnds
    <3>2. DetailIsOfClickedNetwork'
      BY <2>3 DEF RunEnds, DetailIsOfClickedNetwork
    <3> QED
      BY <3>1, <3>2 DEF ShownInv
  <2> QED
    BY <1>6, <2>2, <2>3, OverviewEnds
<1> QED
  BY <1>1, <1>2, <1>3, <1>4, <1>5, <1>6 DEF ScriptStep

(* Everybody else. *)
LEMMA OthersKeepShown ==
    PageInv /\ ShownInv /\ (Operator \/ FinishDeletion \/ WorldStep) => ShownInv'
<1> SUFFICES ASSUME PageInv, ShownInv, Operator \/ FinishDeletion \/ WorldStep PROVE ShownInv'
  OBVIOUS
<1>1. ASSUME NEW e, Click(e) PROVE ShownInv'
  BY <1>1, ClickStarts, ShownKept
<1>2. CASE Tick \/ ConfirmDeletion
  BY <1>2, ShownKept DEF Tick, ConfirmDeletion
<1>3. CASE NewSession
  BY <1>3, ShownKept DEF NewSession, Blank
<1>4. CASE FinishDeletion
  BY <1>4, ShownKept DEF FinishDeletion, PageInv
<1>5. CASE WorldStep
  BY <1>5, ShownKept DEF WorldStep, AlsoPage
<1> QED
  BY <1>1, <1>2, <1>3, <1>4, <1>5, OperatorActs

(* The selection. *)
LEMMA ScriptKeepsAim == PageInv /\ AimInv /\ ScriptStep => AimInv'
<1> SUFFICES ASSUME PageInv, AimInv, ScriptStep PROVE AimInv'
  OBVIOUS
<1>0. StateForm /\ RowsForm
  BY DEF PageInv
<1>1. ASSUME UNCHANGED aimed, state'.selected = state.selected, marker' \in {marker, NoMarker}
      PROVE  AimInv'
  BY <1>1 DEF AimInv
<1>2. ASSUME aimed' = NoFinding, marker' \in {marker, NoMarker}
      PROVE  AimInv'
  BY <1>2 DEF AimInv
<1>3. CASE List
  <2>1. CASE page' = "round1"
    BY <1>1, <1>3, <2>1 DEF List, Draw
  <2>2. CASE page' # "round1"
    <3>1. state' = [state EXCEPT !.told = FALSE] /\ marker' = NoMarker
      BY <1>3, <2>2, ListEnds
    <3>2. state'.selected = state.selected
      BY <1>0, <3>1 DEF StateForm
    <3> QED
      BY <1>1, <1>3, <3>1, <3>2 DEF List
  <2> QED
    BY <2>1, <2>2
<1>4. CASE ReadRound \/ ReadZones \/ ReadFindings \/ ReadFactors
  <2>1. CASE ShowError
    BY <1>1, <2>1, ErrorEnds DEF ShowError
  <2>2. CASE StatementStep
    BY <1>1, <2>2 DEF StatementStep
  <2> QED
    BY <1>0, <1>4, <2>1, <2>2, StatementSteps
<1>5. CASE ShowDetail
  <2>1. CASE event.kind = "back"
    BY <1>2, <1>5, <2>1 DEF ShowDetail
  <2>2. CASE event.kind # "back"
    BY <1>1, <1>5, <2>2, DetailEnds
  <2> QED
    BY <2>1, <2>2
<1>6. CASE BreakPage
  BY <1>1, <1>6, BreakEnds DEF BreakPage
<1>7. CASE SubmitFilters
  BY <1>2, <1>7 DEF SubmitFilters
<1>8. CASE ShowOverview
  <2>0. Clicked \in {marker, NoMarker}
    BY DEF Clicked
  <2>1. CASE aimed' = NoFinding /\ marker' = Clicked
    BY <1>2, <2>0, <2>1
  <2>2. CASE /\ \E f \in SelectedFromMap(Findings, Clicked) :
                   state' = [state EXCEPT !.dialog = Dialog, !.selected = f.network]
             /\ aimed' = IF Clicked.drawn = Findings THEN Findings[Clicked.position]
                         ELSE NoFinding
             /\ marker' = marker
    <3>1. PICK f \in SelectedFromMap(Findings, Clicked) :
              state' = [state EXCEPT !.dialog = Dialog, !.selected = f.network]
      BY <2>2
    <3>2. state'.selected = f.network
      BY <1>0, <3>1 DEF StateForm
    <3>3. CASE Clicked.drawn = Findings
      <4>1. aimed' = f
        BY <2>2, <3>3, ClickSelects
      <4> QED
        BY <2>2, <3>2, <4>1 DEF AimInv
    <3>4. CASE Clicked.drawn # Findings
      BY <1>2, <2>2, <3>4
    <3> QED
      BY <3>3, <3>4
  <2> QED
    BY <1>8, <2>1, <2>2, OverviewEnds
<1> QED
  BY <1>3, <1>4, <1>5, <1>6, <1>7, <1>8 DEF ScriptStep

(* Steps outside the script keep the selection or drop it. *)
LEMMA OthersKeepAim ==
    PageInv /\ AimInv /\ (Operator \/ FinishDeletion \/ WorldStep) => AimInv'
<1> SUFFICES ASSUME PageInv, AimInv, Operator \/ FinishDeletion \/ WorldStep PROVE AimInv'
  OBVIOUS
<1>0. StateForm
  BY DEF PageInv
<1>1. ASSUME UNCHANGED <<aimed, state, marker>> PROVE AimInv'
  BY <1>1 DEF AimInv
<1>2. ASSUME NEW e, Click(e), state' \in {state, [state EXCEPT !.dialog = "none"]},
             \/ marker' = marker
             \/ marker'.position \in DOMAIN marker'.drawn
      PROVE  AimInv'
  <2>1. state'.selected = state.selected
    BY <1>0, <1>2 DEF StateForm
  <2>2. aimed' = aimed
    BY <1>2 DEF Click
  <2> QED
    BY <1>2, <2>1, <2>2 DEF AimInv
<1>3. CASE Tick \/ ConfirmDeletion
  BY <1>1, <1>3 DEF Tick, ConfirmDeletion
<1>4. CASE NewSession
  BY <1>4 DEF NewSession, AimInv
<1>5. CASE FinishDeletion
  <2>1. CASE aimed' = NoFinding
    BY <1>5, <2>1 DEF FinishDeletion, AimInv
  <2>2. CASE UNCHANGED <<aimed, state>>
    BY <1>1, <1>5, <2>2 DEF FinishDeletion
  <2> QED
    BY <1>5, <2>1, <2>2 DEF FinishDeletion
<1>6. CASE WorldStep
  BY <1>1, <1>6 DEF WorldStep, AlsoPage
<1> QED
  BY <1>2, <1>3, <1>4, <1>5, <1>6, OperatorActs

(* A new session shows and selects nothing. *)
LEMMA ShownStarts == SessionInit => ShownInv /\ AimInv
BY DEF SessionInit, ShownInv, ShownFindingsAreWhole, DetailIsOfClickedNetwork, AimInv, Blank

-----------------------------------------------------------------------------
(* Filters that this round offers. *)
Offers(c, filters) ==
    /\ filters.zones \subseteq c.zones
    /\ filters.signals \subseteq {f.signal : f \in EntriesOf(c.findings)} \cap SIGNALS

(* As long as nothing was stored since the filters were applied, what is   *)
(* stored offers them, and so does the page that is being loaded.          *)
FilterInv ==
    /\ ~outdated /\ state.filters # NoFilters =>
          /\ ~restored
          /\ \A r \in Rounds : Retained(r) => Offers(stored[r], state.filters)
          /\ page \in {"findings2", "factors2", "draw"} => ~Stale
    /\ event.kind = "apply" =>
          /\ event.staged.zones \subseteq screen.options.zones
          /\ event.staged.signals \subseteq screen.options.signals
    /\ BrokenOnlyByStaleFilters

(* The options of a whole load. *)
LEMMA WholeOptions ==
    ASSUME NEW c \in Contents, WholeFirst(c)
    PROVE  /\ Options.zones = c.zones
           /\ Options.signals = {f.signal : f \in EntriesOf(c.findings)} \cap SIGNALS
<1>1. AllFindings(rows[1]) = c.findings
  BY WholeRead DEF WholeFirst
<1>2. Options = [zones |-> rows[1].zones,
                 signals |-> {f.signal : f \in EntriesOf(AllFindings(rows[1]))} \cap SIGNALS]
  BY DEF Options, FilterOptions
<1> QED
  BY <1>1, <1>2 DEF WholeFirst

(* Filters that a round offers are not stale on its page. *)
LEMMA OfferedIsNotStale ==
    ASSUME NEW c \in Contents, WholeFirst(c)
    PROVE  Offers(c, state.filters) <=> ~Stale
BY WholeOptions DEF Offers, Stale

(* The filters that are applied are offered by the page, and so by what is *)
(* stored.                                                                 *)
LEMMA AppliedIsOffered ==
    ASSUME FilterInv, event.kind = "apply", ~Stale, NEW c \in Contents, WholeFirst(c)
    PROVE  Offers(c, Applied)
<1>1. /\ Applied.zones = IF Options.zones = screen.options.zones THEN event.staged.zones
                         ELSE state.filters.zones
      /\ Applied.signals = IF Options.signals = screen.options.signals THEN event.staged.signals
                           ELSE state.filters.signals
  BY DEF Applied
<1>2. Applied.zones \subseteq Options.zones /\ Applied.signals \subseteq Options.signals
  BY <1>1 DEF FilterInv, Stale
<1> QED
  BY <1>2, WholeOptions DEF Offers

(* A run that ends, starts again or goes on with the same filters.         *)
LEMMA FiltersKept ==
    ASSUME FilterInv, UNCHANGED <<stored, outdated>>, state'.filters = state.filters,
           restored' \in {restored, FALSE},
           event' = NoEvent \/ UNCHANGED <<event, screen>>,
           page' \in {"findings2", "factors2", "draw"} => (~Stale)',
           page' # "idle" \/ screen'.kind # "broken"
    PROVE  FilterInv'
<1>1. \A r : Retained(r)' = Retained(r)
  BY DEF Retained
<1>2. BrokenOnlyByStaleFilters'
  BY DEF BrokenOnlyByStaleFilters
<1>3. event'.kind = "apply" => UNCHANGED <<event, screen>>
  BY DEF NoEvent
<1>4. ~restored => ~restored'
  BY Zenon
<1>5. ~outdated' /\ state'.filters # NoFilters =>
          /\ ~restored'
          /\ \A r \in Rounds : Retained(r)' => Offers(stored'[r], state'.filters)
          /\ page' \in {"findings2", "factors2", "draw"} => (~Stale)'
  BY <1>1, <1>4 DEF FilterInv
<1> QED
  BY <1>2, <1>3, <1>5 DEF FilterInv

(* The script. *)
LEMMA ScriptKeepsFilters ==
    StorageInv /\ ConsentInv /\ PageInv /\ ReadInv /\ FilterInv /\ ScriptStep => FilterInv'
<1> SUFFICES ASSUME StorageInv, ConsentInv, PageInv, ReadInv, FilterInv, ScriptStep
             PROVE  FilterInv'
  OBVIOUS
<1>0. stored' = stored /\ StorageTypeOK /\ RowsForm /\ StateForm
  BY DEF ScriptStep, storageVars, StorageInv, PageInv
<1>1. ASSUME NEW kind, RunEnds(kind), kind # "broken", outdated' = outdated,
             state'.filters = state.filters
      PROVE  FilterInv'
  BY <1>0, <1>1, FiltersKept DEF RunEnds
<1>2. ASSUME Rerun, outdated' = outdated, state'.filters = state.filters
      PROVE  FilterInv'
  BY <1>0, <1>2, FiltersKept DEF Rerun
<1>3. CASE List
  <2>1. CASE page' = "round1"
    BY <1>0, <1>3, <2>1, FiltersKept DEF List, Draw
  <2>2. CASE page' # "round1"
    <3>1. RunEnds("no_rounds") /\ state' = [state EXCEPT !.told = FALSE]
      BY <1>3, <2>2, ListEnds
    <3>2. state'.filters = state.filters
      BY <1>0, <3>1 DEF StateForm
    <3> QED
      BY <1>1, <1>3, <3>1, <3>2 DEF List
  <2> QED
    BY <2>1, <2>2
<1>4. CASE ReadRound \/ ReadZones \/ ReadFindings \/ ReadFactors
  <2>1. CASE ShowError
    BY <1>1, <2>1, ErrorEnds DEF ShowError
  <2>2. CASE StatementStep
    <3>1. UNCHANGED <<state, restored, outdated, event, screen>> /\ page' # "idle"
      BY <2>2 DEF StatementStep
    <3>2. CASE page' \notin {"findings2", "factors2", "draw"}
      BY <1>0, <3>1, <3>2, FiltersKept
    <3>3. CASE page' = "findings2"
      <4>1. page = "round2" /\ Retained(round) /\ rows'[1] = rows[1]
        BY <2>2, <3>3 DEF StatementStep
      <4>2. ASSUME ~outdated, state.filters # NoFilters PROVE (~Stale)'
        <5>1. round \in Rounds /\ ~restored /\ page \in Running
          BY <4>1, <4>2 DEF FilterInv, ConsentInv, Running
        <5>2. WholeFirst(stored[round])
          BY <4>1, <5>1 DEF ReadInv, FirstLoad, WholeFirst
        <5>3. Offers(stored[round], state.filters) /\ stored[round] \in Contents
          BY <1>0, <4>1, <4>2, <5>1 DEF FilterInv, StorageTypeOK, Retained
        <5>4. ~Stale
          BY <5>2, <5>3, OfferedIsNotStale
        <5> QED
          BY <3>1, <4>1, <5>4 DEF Stale, Options, FilterOptions
      <4> QED
        BY <1>0, <3>1, <3>3, <4>2 DEF FilterInv, Retained, BrokenOnlyByStaleFilters
    <3>4. CASE page' \in {"factors2", "draw"}
      <4>1. page \in {"findings2", "factors2"} /\ rows'[1] = rows[1]
        BY <2>2, <3>4 DEF StatementStep
      <4>2. Stale' = Stale
        BY <3>1, <4>1 DEF Stale, Options, FilterOptions
      <4> QED
        BY <1>0, <3>1, <3>4, <4>1, <4>2 DEF FilterInv, Retained, BrokenOnlyByStaleFilters
    <3> QED
      BY <3>2, <3>3, <3>4
  <2> QED
    BY <1>0, <1>4, <2>1, <2>2, StatementSteps
<1>5. CASE ShowDetail
  <2>1. CASE event.kind = "back"
    <3>1. state' = [state EXCEPT !.selected = NoNetwork] /\ Rerun /\ outdated' = outdated
      BY <1>5, <2>1 DEF ShowDetail
    <3>2. state'.filters = state.filters
      BY <1>0, <3>1 DEF StateForm
    <3> QED
      BY <1>2, <3>1, <3>2
  <2>2. CASE event.kind # "back"
    BY <1>1, <1>5, <2>2, DetailEnds DEF ShowDetail
  <2> QED
    BY <2>1, <2>2
<1>6. CASE BreakPage
  <2>1. page = "draw" /\ Stale /\ UNCHANGED <<state, outdated>>
    BY <1>6 DEF BreakPage
  <2>2. state.filters # NoFilters
    BY <2>1 DEF Stale, NoFilters
  <2>3. outdated
    BY <2>1, <2>2 DEF FilterInv
  <2>4. page' = "idle" /\ event' = NoEvent
    BY <1>6, BreakEnds DEF RunEnds
  <2> QED
    BY <2>1, <2>2, <2>3, <2>4 DEF FilterInv, BrokenOnlyByStaleFilters, NoEvent
<1>7. CASE SubmitFilters
  <2>1. /\ page = "draw" /\ ~Stale /\ event.kind \in {"apply", "reset"}
        /\ outdated' = restored /\ Rerun
        /\ state' = [ClearResultState(state) EXCEPT
                        !.filters = IF event.kind = "reset" THEN NoFilters ELSE Applied]
    BY <1>7 DEF SubmitFilters
  <2>2. state'.filters = IF event.kind = "reset" THEN NoFilters ELSE Applied
    BY <1>0, <2>1 DEF ClearResultState, StateForm
  <2>3. page' = "list" /\ event' = NoEvent
    BY <2>1 DEF Rerun
  <2>4. ~restored'
    BY <2>1, Zenon DEF Rerun
  <2>5. ASSUME ~restored, event.kind = "apply", NEW r \in Rounds, Retained(r)'
        PROVE  Offers(stored[r], Applied)
    <3>1. page \in Running /\ page \in {"findings2", "factors2", "draw"}
      BY <2>1 DEF Running
    <3>2. PICK c \in Contents : SecondLoad(c)
      BY <2>5, <3>1 DEF ReadInv
    <3>3. Retained(r) /\ r = round
      BY <1>0, <2>5, <3>1 DEF ReadInv, Retained
    <3>4. stored[r] = c /\ WholeFirst(c)
      BY <3>2, <3>3 DEF SecondLoad, Retained
    <3> QED
      BY <2>1, <2>5, <3>4, AppliedIsOffered
  <2>6. ~outdated' => ~restored
    BY <2>1, Zenon
  <2>7. ~outdated' /\ state'.filters # NoFilters =>
            \A r \in Rounds : Retained(r)' => Offers(stored'[r], state'.filters)
    BY <1>0, <2>1, <2>2, <2>5, <2>6
  <2> QED
    BY <2>3, <2>4, <2>7 DEF FilterInv, BrokenOnlyByStaleFilters, NoEvent
<1>8. CASE ShowOverview
  <2>1. outdated' = outdated
    BY <1>8 DEF ShowOverview
  <2>2. CASE RunEnds("overview") /\ state' = [state EXCEPT !.dialog = Dialog]
    <3>1. state'.filters = state.filters
      BY <1>0, <2>2 DEF StateForm
    <3> QED
      BY <1>1, <2>1, <2>2, <3>1
  <2>3. CASE Rerun /\ \E x : state' = [state EXCEPT !.dialog = Dialog, !.selected = x]
    <3>1. state'.filters = state.filters
      BY <1>0, <2>3 DEF StateForm
    <3> QED
      BY <1>2, <2>1, <2>3, <3>1
  <2> QED
    BY <1>8, <2>2, <2>3, OverviewEnds
<1> QED
  BY <1>3, <1>4, <1>5, <1>6, <1>7, <1>8 DEF ScriptStep

(* Everybody else.  A new session has no filters. *)
LEMMA OthersKeepFilters ==
    PageInv /\ FilterInv /\ (Operator \/ FinishDeletion \/ WorldStep) => FilterInv'
<1> SUFFICES ASSUME PageInv, FilterInv, Operator \/ FinishDeletion \/ WorldStep PROVE FilterInv'
  OBVIOUS
<1>0. StateForm
  BY DEF PageInv
<1>1. ASSUME NEW e, Click(e), state' \in {state, [state EXCEPT !.dialog = "none"]},
             e.kind = "apply" => /\ e.staged.zones \subseteq screen.options.zones
                                 /\ e.staged.signals \subseteq screen.options.signals
      PROVE  FilterInv'
  <2>1. state'.filters = state.filters
    BY <1>0, <1>1 DEF StateForm
  <2>2. UNCHANGED <<stored, restored, outdated>> /\ page' = "list" /\ event' = e
    BY <1>1 DEF Click, storageVars
  <2>3. e.kind = "apply" => screen'.options = screen.options
    BY <1>1, ClickStarts
  <2> QED
    BY <1>1, <2>1, <2>2, <2>3 DEF FilterInv, BrokenOnlyByStaleFilters, Retained
<1>2. CASE Tick
  <2>1. /\ UNCHANGED <<stored, page, state, restored, outdated, event, screen>>
        /\ page = "idle" /\ screen.kind = "overview"
    BY <1>2 DEF Tick, OnOverview, storageVars
  <2> QED
    BY <2>1, FiltersKept
<1>3. CASE ConfirmDeletion
  <2>1. UNCHANGED <<stored, state, restored, outdated, event, screen>> /\ page' = "deleting"
    BY <1>3 DEF ConfirmDeletion, BeginDelete
  <2> QED
    BY <2>1, FiltersKept
<1>4. CASE NewSession
  <2>1. state'.filters = NoFilters /\ page' = "list" /\ event' = NoEvent
    BY <1>4 DEF NewSession, NewState
  <2> QED
    BY <2>1 DEF FilterInv, BrokenOnlyByStaleFilters, NoEvent
<1>5. CASE FinishDeletion
  <2>1. page = "deleting" /\ UNCHANGED <<stored, screen, outdated>> /\ screen.kind = "overview"
    BY <1>5 DEF FinishDeletion, storageVars, PageInv
  <2>2. CASE state' = [ClearResultState(state) EXCEPT !.told = TRUE] /\ Rerun
    <3>1. state'.filters = state.filters
      BY <1>0, <2>2 DEF ClearResultState, StateForm
    <3> QED
      BY <2>1, <2>2, <3>1, FiltersKept DEF Rerun
  <2>3. CASE page' = "idle" /\ UNCHANGED <<state, event, restored>>
    BY <2>1, <2>3, FiltersKept
  <2> QED
    BY <1>5, <2>2, <2>3 DEF FinishDeletion
<1>6. CASE WorldStep
  <2>1. UNCHANGED <<page, rows, state, event, screen>>
    BY <1>6 DEF WorldStep, AlsoPage
  <2>2. outdated => outdated'
    BY <1>6, Zenon DEF WorldStep, AlsoPage
  <2>3. Stale' = Stale
    BY <2>1 DEF Stale, Options, FilterOptions
  <2>4. ASSUME ~outdated', state.filters # NoFilters
        PROVE  /\ ~outdated /\ ~restored'
               /\ \A r \in Rounds : stored'[r] \in {stored[r], Nothing}
    <3>1. ~outdated /\ \A r \in Rounds : stored'[r] \in {stored[r], Nothing}
      BY <1>6, <2>4 DEF WorldStep, AlsoPage
    <3>2. ~restored
      BY <2>4, <3>1 DEF FilterInv
    <3> QED
      BY <1>6, <3>1, <3>2 DEF WorldStep, AlsoPage
  <2>5. ASSUME ~outdated', state.filters # NoFilters
        PROVE  \A r \in Rounds : Retained(r)' => Offers(stored'[r], state.filters)
    BY <2>4, <2>5 DEF FilterInv, Retained
  <2> QED
    BY <2>1, <2>2, <2>3, <2>4, <2>5 DEF FilterInv, BrokenOnlyByStaleFilters
<1> QED
  BY <1>1, <1>2, <1>3, <1>4, <1>5, <1>6, OperatorActs

(* A new session has no filters. *)
LEMMA FiltersStart == SessionInit => FilterInv
<1> SUFFICES ASSUME SessionInit PROVE FilterInv
  OBVIOUS
<1>1. state.filters = NoFilters /\ page = "list" /\ event.kind = "none"
  BY DEF SessionInit, NewState, NoEvent
<1> QED
  BY <1>1 DEF FilterInv, BrokenOnlyByStaleFilters

-----------------------------------------------------------------------------
(* The invariant of the page. *)
DashboardInv ==
    /\ StorageInv /\ OneRoundInv /\ ConsentInv
    /\ PageInv /\ PdfInv /\ RestartInv
    /\ ReadInv /\ AimInv /\ ShownInv /\ FilterInv

(* Nothing of it changes while nothing does. *)
LEMMA DashboardStutters ==
    ASSUME DashboardInv, UNCHANGED vars
    PROVE  PageInv' /\ PdfInv' /\ RestartInv' /\ ReadInv' /\ AimInv' /\ ShownInv' /\ FilterInv'
<1>0. UNCHANGED storageVars /\ UNCHANGED pageVars /\ stored' = stored
  BY DEF vars, storageVars
<1>1. PageInv' /\ PdfInv'
  BY <1>0 DEF DashboardInv, pageVars, PageInv, RowsForm, StateForm, PdfInv, Keyed, OnOverview
<1>2. RestartInv'
  <2>1. \A r : Retained(r)' = Retained(r) /\ SelectedIn(r)' = SelectedIn(r)
    BY <1>0 DEF Retained, SelectedIn, FindingsIn, pageVars
  <2>2. Retained(round)' = Retained(round)
    BY <1>0 DEF Retained, pageVars
  <2> QED
    BY <1>0, <2>1, <2>2 DEF DashboardInv, pageVars, RestartInv
<1>3. ReadInv'
  BY <1>0 DEF DashboardInv, pageVars, ReadInv, Retained, FirstLoad, SecondLoad, WholeFirst
<1>4. AimInv' /\ ShownInv'
  BY <1>0
  DEF DashboardInv, pageVars, AimInv, ShownInv, ShownFindingsAreWhole, DetailIsOfClickedNetwork
<1>5. FilterInv'
  <2>1. Stale' = Stale
    BY <1>0 DEF Stale, Options, FilterOptions, pageVars
  <2> QED
    BY <1>0, <2>1 DEF DashboardInv, pageVars, FilterInv, Retained, BrokenOnlyByStaleFilters
<1> QED
  BY <1>1, <1>2, <1>3, <1>4, <1>5

(* Every step preserves it. *)
LEMMA DashboardStep == DashboardInv /\ [Next]_vars => DashboardInv'
<1> SUFFICES ASSUME DashboardInv, [Next]_vars PROVE DashboardInv'
  OBVIOUS
<1>0. /\ StorageInv /\ OneRoundInv /\ ConsentInv /\ PageInv /\ PdfInv /\ RestartInv
      /\ ReadInv /\ AimInv /\ ShownInv /\ FilterInv
  BY DEF DashboardInv
<1>1. StorageInv' /\ ConsentInv'
  BY <1>0, SessionStep DEF SessionInv
<1>2. OneRoundInv'
  BY <1>0, StorageOfNext, OneRoundStep
<1>3. CASE ScriptStep
  BY <1>0, <1>1, <1>2, <1>3, ScriptKeepsPage, ScriptKeepsPdf, ScriptKeepsRestarts,
     ScriptKeepsRead, ScriptKeepsAim, ScriptKeepsShown, ScriptKeepsFilters DEF DashboardInv
<1>4. ASSUME Operator \/ FinishDeletion \/ WorldStep PROVE PageInv'
  BY <1>0, <1>4, OperatorKeepsPage, WorldKeepsPage DEF WorldStep
<1>5. CASE Operator \/ FinishDeletion \/ WorldStep
  BY <1>0, <1>1, <1>2, <1>4, <1>5, OthersKeepPdf, OthersKeepRestarts, OthersKeepRead,
     OthersKeepAim, OthersKeepShown, OthersKeepFilters DEF DashboardInv
<1>6. CASE UNCHANGED vars
  BY <1>1, <1>2, <1>6, DashboardStutters DEF DashboardInv
<1> QED
  BY <1>3, <1>5, <1>6, StepsOfNext

(* So it holds in every reachable state. *)
THEOREM DashboardInvariance == Spec => []DashboardInv
<1>1. Init => DashboardInv
  <2> SUFFICES ASSUME Init PROVE DashboardInv
    OBVIOUS
  <2>1. StorageInv /\ OneRoundInv
    BY StorageStarts, OneRoundStarts DEF Init
  <2>2. ConsentInv
    BY NoDeletionType, MeAssumption
    DEF Init, SessionInit, StorageInit, ConsentInv, Ended, DeleteSteps
  <2> QED
    BY <2>1, <2>2, PageStarts, PdfStarts, RestartsStart, ReadStarts, ShownStarts, FiltersStart
    DEF Init, DashboardInv
<1> QED
  BY <1>1, DashboardStep, PTL DEF Spec

(* Every variable of the session and of Storage keeps its type.            *)
THEOREM TypeCorrect == Spec => []TypeOK
<1>1. DashboardInv => TypeOK
  <2> SUFFICES ASSUME DashboardInv PROVE TypeOK
    OBVIOUS
  <2>1. StorageTypeOK /\ ticked \subseteq consent
    BY DEF DashboardInv, StorageInv, ConsentInv
  <2>2. PageInv
    BY DEF DashboardInv
  <2>3. /\ round \in Rounds \cup {NoRound} /\ consent \subseteq Rounds
        /\ restarts \in 0..3 /\ clicks \in 0..MaxClicks
        /\ state.dialog \in {"none", "pdf", "delete"}
    BY <2>2 DEF PageInv, StateForm
  <2>4. state.told \in BOOLEAN /\ restored \in BOOLEAN /\ outdated \in BOOLEAN
    BY <2>2 DEF PageInv, StateForm
  <2>5. /\ page \in {"idle", "list", "round1", "zones1", "findings1", "factors1", "round2",
                     "findings2", "factors2", "draw", "deleting"}
        /\ event.kind \in {"none", "pdf", "delete", "apply", "reset", "back"}
        /\ screen.kind \in {"blank", "no_rounds", "error", "broken", "detail", "overview"}
    BY <2>2 DEF PageInv
  <2>6. ticked \subseteq Rounds
    BY <2>1, <2>3
  <2> QED
    BY <2>1, <2>3, <2>4, <2>5, <2>6 DEF TypeOK
<1> QED
  BY <1>1, DashboardInvariance, PTL

(* The PDF on offer is of the page behind it, also one from an earlier run.*)
THEOREM PdfAlwaysOfThisView == Spec => []PdfIsOfThisView
<1>1. DashboardInv => PdfIsOfThisView
  BY DEF DashboardInv, PdfInv, PdfIsOfThisView
<1> QED
  BY <1>1, DashboardInvariance, PTL

(* The script starts again at most twice on its own. *)
THEOREM RerunsEnd == Spec => []NoEndlessRerun
<1>1. DashboardInv => NoEndlessRerun
  BY DEF DashboardInv, RestartInv, NoEndlessRerun
<1> QED
  BY <1>1, DashboardInvariance, PTL

(* What is on the screen is of one round, unless a round was stored anew   *)
(* while the run that drew it was reading.                                 *)
THEOREM ShownAlwaysWhole == Spec => []ShownFindingsAreWhole
<1>1. DashboardInv => ShownFindingsAreWhole
  BY DEF DashboardInv, ShownInv
<1> QED
  BY <1>1, DashboardInvariance, PTL

(* The detail is of the network that was clicked, and of its finding or    *)
(* one in an earlier zone.                                                 *)
THEOREM DetailAlwaysOfClicked == Spec => []DetailIsOfClickedNetwork
<1>1. DashboardInv => DetailIsOfClickedNetwork
  BY DEF DashboardInv, ShownInv
<1> QED
  BY <1>1, DashboardInvariance, PTL

(* Only a round that is stored after the filters were applied can make     *)
(* them break the page.                                                    *)
THEOREM OnlyStaleFiltersBreak == Spec => []BrokenOnlyByStaleFilters
<1>1. DashboardInv => BrokenOnlyByStaleFilters
  BY DEF DashboardInv, FilterInv
<1> QED
  BY <1>1, DashboardInvariance, PTL
=============================================================================
