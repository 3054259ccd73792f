-------------------------- MODULE DashboardSession --------------------------
(***************************************************************************)
(* One browser session of the dashboard (presentation/app.py) over the     *)
(* rounds in Storage.  Every interaction runs the page's script again from *)
(* the top: it lists the rounds, loads the round twice (without and with   *)
(* the applied filters), four statements each, each in its own snapshot    *)
(* (presentation/repository.py), and then draws the page.  The pipeline    *)
(* and other operators change Storage in between.                          *)
(*                                                                         *)
(* Streamlit, as app.py uses it: a button counts in the run it starts, and *)
(* is lost when that run does not reach it; a widget that is not drawn     *)
(* loses its value, one whose options or default changed starts again from *)
(* its default; a default that is not among the options is an error.       *)
(* Bands, channels, encryptions and score colours behave as the signal     *)
(* categories do, so filters are zones and signal categories.              *)
(***************************************************************************)
EXTENDS StorageRounds

CONSTANTS
    Me,            \* this session, as one that may delete
    NoRound, NoNetwork, NoPreview,
    StagedFilters, \* the filters the operator tries
    MaxClicks      \* bound on interactions and failures together

ASSUME MeAssumption == Me \in Operators /\ MaxClicks \in Nat

VARIABLES
    page,     \* where the script is; "idle": the page is drawn
    round,    \* the round this run shows: active_round_id
    rows,     \* what the statements of the two loads returned
    state,    \* session_state: filters, selected, dialog, told
    preview,  \* session_state: pdf_preview with its pdf_preview_key
    ticked,   \* the confirmation boxes that are ticked, by their keys
    event,    \* the interaction that started this run
    marker,   \* the last click on the map, a value the map component keeps
    screen,   \* what is drawn
    \* History, for the properties.
    aimed,    \* the finding that the operator clicked to select one
    consent,  \* the rounds whose deletion was confirmed in the open dialog
    restored, \* was a round stored since the run began?
    outdated, \* was a round stored since the filters were applied?
    restarts, \* how often the script started again since a page was drawn
    clicks

pageVars == <<page, round, rows, state, preview, ticked, event, marker, screen,
              aimed, consent, restored, outdated, restarts, clicks>>
vars == <<storageVars, pageVars>>

MoreEvents == clicks + used.faults < MaxClicks

SIGNALS == {"weak", "medium", "strong"}
Unread  == [zones |-> {}, findings |-> <<>>, factors |-> <<>>]
NoRows  == [i \in 1..2 |-> Unread]
NoFilters == [zones |-> {}, signals |-> {}]
NoFinding == [zone |-> 0, network |-> NoNetwork, place |-> 0, signal |-> "none"]
NoMarker  == [position |-> 0, place |-> 0, drawn |-> <<>>, filters |-> NoFilters, round |-> NoRound]
NoEvent   == [kind |-> "none", staged |-> NoFilters]
NewState  == [filters |-> NoFilters, selected |-> NoNetwork, dialog |-> "none", told |-> FALSE]
Blank     == [kind |-> "blank", findings |-> <<>>, options |-> NoFilters, detail |-> NoFinding,
              pdf |-> NoPreview, restored |-> FALSE]

EntriesOf(s) == {s[i] : i \in DOMAIN s}

(* The findings of a round, each in the signal category of its own factors.*)
ASSUME FindingsAssumption ==
    \A c \in Contents :
        /\ c.findings \in Seq(EntriesOf(c.findings))
        /\ \A f \in EntriesOf(c.findings) :
              /\ f = [zone |-> f.zone, network |-> f.network, place |-> f.place,
                      signal |-> f.signal]
              /\ f.zone \in Nat /\ f.signal \in SIGNALS

(***************************************************************************)
(* The data of a page (presentation/repository.py, models.py).             *)
(***************************************************************************)

(* A finding takes its signal category from its factors, which another     *)
(* statement read: none is left when they are gone by then.                *)
FindingFromRow(f, factors) ==
    LET own == {g \in EntriesOf(factors) : SameKey(f, g)}
    IN  [f EXCEPT !.signal = IF own = {} THEN "none" ELSE (CHOOSE g \in own : TRUE).signal]

AllFindings(read) == [i \in DOMAIN read.findings |-> FindingFromRow(read.findings[i], read.factors)]

Matches(filters, f) ==
    /\ filters.zones = {} \/ f.zone \in filters.zones
    /\ filters.signals = {} \/ f.signal \in filters.signals

(* One finding after another is kept or left out. *)
Filtered(filters, findings) ==
    LET kept[n \in 0..Len(findings)] ==
            IF n = 0 THEN <<>>
            ELSE IF Matches(filters, findings[n]) THEN Append(kept[n - 1], findings[n])
            ELSE kept[n - 1]
    IN  kept[Len(findings)]

FilterOptions(read) ==
    [zones |-> read.zones, signals |-> {f.signal : f \in EntriesOf(AllFindings(read))} \cap SIGNALS]

(* Variant: a default instead of the error. *)
LoadNeverRaises(filters, findings) == FALSE

(* Asking a finding without factors for its category raises: the filters   *)
(* ask all findings when one on the category is set, the options ask, for  *)
(* every category, the findings up to the first that has it.               *)
LoadRaises(filters, findings) ==
    \E i \in DOMAIN findings :
        /\ findings[i].signal = "none"
        /\ \/ filters.signals # {}
           \/ \E c \in SIGNALS : \A j \in 1..(i - 1) : findings[j].signal # c

(* Variant: the labels start at zero. *)
SelectedFromZero(findings, m) ==
    IF m.position > 0 /\ m.position + 1 \in DOMAIN findings THEN {findings[m.position + 1]} ELSE {}

(***************************************************************************)
(* The map (map_view.py): a marker's label is its position among the       *)
(* findings; a click elsewhere counts when exactly one finding is there.   *)
(***************************************************************************)
SelectedFromMap(findings, m) ==
    LET there == {f \in EntriesOf(findings) : f.place = m.place}
    IN  IF m.position \in DOMAIN findings THEN {findings[m.position]}
        ELSE IF m.position > 0 /\ Cardinality(there) = 1 THEN there
        ELSE {}

(* Variant: one key for every round. *)
ConfirmKeyShared(r) == CHOOSE key \in Rounds : r = r

(* The box of the delete dialog has a key of its own for every round. *)
ConfirmKey(r) == r

(* Variant: the findings are left out of the key. *)
PreviewKeyOfFilters(findings) == <<round, state.filters>>

PreviewKey(findings) == <<round, findings, state.filters>>

ClearResultState(s) == [s EXCEPT !.selected = NoNetwork, !.dialog = "none"]

(***************************************************************************)
(* The script, up to the loaded data.                                      *)
(***************************************************************************)
SessionInit ==
    /\ page = "list" /\ round = NoRound /\ rows = NoRows
    /\ state = NewState /\ preview = NoPreview /\ ticked = {}
    /\ event = NoEvent /\ marker = NoMarker /\ screen = Blank
    /\ aimed = NoFinding /\ consent = {} /\ restored = FALSE /\ outdated = FALSE
    /\ restarts = 0 /\ clicks = 0

(* The run ends with this page: boxes and markers that were not drawn lose *)
(* their value.                                                            *)
Draw(s, boxes, m) ==
    /\ page' = "idle"
    /\ screen' = [s EXCEPT !.restored = restored]
    /\ ticked' = ticked \cap boxes
    /\ consent' = IF boxes = {} THEN {} ELSE consent \cap {round}
    /\ marker' = m
    /\ event' = NoEvent
    /\ rows' = NoRows
    /\ restored' = FALSE
    /\ restarts' = 0

(* st.rerun: the script starts again; the count stops at 3. *)
Rerun ==
    /\ page' = "list"
    /\ restarts' = IF restarts < 3 THEN restarts + 1 ELSE 3
    /\ rows' = NoRows
    /\ event' = NoEvent
    /\ restored' = FALSE

List ==
    /\ page = "list"
    /\ UNCHANGED <<preview, aimed, outdated, clicks>>
    /\ \/ \E r \in Rounds :
            /\ Retained(r)
            /\ round' = r
            /\ page' = "round1"
            /\ UNCHANGED <<rows, state, ticked, event, marker, screen, consent, restored, restarts>>
       \/ /\ \A r \in Rounds : ~Retained(r)
          /\ Draw([Blank EXCEPT !.kind = "no_rounds"], {}, NoMarker)
          /\ state' = [state EXCEPT !.told = FALSE]
          /\ UNCHANGED round

(* One statement after another, each on what is committed by then. *)
Reads(from, to, i, table, value) ==
    /\ page = from
    /\ page' = to
    /\ rows' = [rows EXCEPT ![i][table] = value]
    /\ UNCHANGED <<round, state, preview, ticked, event, marker, screen, aimed, consent, restored,
                   outdated, restarts, clicks>>

ShowError ==
    /\ Draw([Blank EXCEPT !.kind = "error"], {}, NoMarker)
    /\ UNCHANGED <<round, state, preview, aimed, outdated, clicks>>

ReadRound ==
    \E i \in 1..2 :
        /\ page = <<"round1", "round2">>[i]
        /\ IF Retained(round)
             THEN Reads(page, <<"zones1", "findings2">>[i], i, "zones", {})
             ELSE ShowError

(* The zones of the second load are only drawn, so it is left out here. *)
ReadZones == Reads("zones1", "findings1", 1, "zones", stored[round].zones)

ReadFindings ==
    \E i \in 1..2 :
        Reads(<<"findings1", "findings2">>[i], <<"factors1", "factors2">>[i], i, "findings",
              stored[round].findings)

(* The last statement; then the data is put together, which may raise. *)
ReadFactors ==
    \E i \in 1..2 :
        LET read == [rows[i] EXCEPT !.factors = stored[round].findings]
        IN  /\ page = <<"factors1", "factors2">>[i]
            /\ IF LoadRaises(<<NoFilters, state.filters>>[i], AllFindings(read))
                 THEN ShowError
                 ELSE Reads(page, <<"round2", "draw">>[i], i, "factors", stored[round].findings)

(***************************************************************************)
(* Drawing the page.                                                       *)
(***************************************************************************)
Findings == Filtered(state.filters, AllFindings(rows[2]))
Options  == FilterOptions(rows[1])

(* Variant: the shortened network ID is compared, which is never equal. *)
ChosenByShortID == {i \in DOMAIN Findings : Findings[i].network = NoNetwork}

(* The findings that the selected network has on this page. *)
Chosen == {i \in DOMAIN Findings : Findings[i].network = state.selected}

HasDetail == Chosen # {}

(* A filter that is not among the options of its widget. *)
Stale ==
    ~(state.filters.zones \subseteq Options.zones /\ state.filters.signals \subseteq Options.signals)

ShowDetail ==
    LET first == CHOOSE i \in Chosen : \A j \in Chosen : i <= j
    IN  /\ page = "draw" /\ HasDetail
        /\ UNCHANGED <<round, preview, outdated, clicks>>
        /\ IF event.kind = "back"
             THEN /\ Rerun
                  /\ state' = [state EXCEPT !.selected = NoNetwork]
                  /\ aimed' = NoFinding
                  /\ UNCHANGED <<ticked, marker, screen, consent>>
             ELSE /\ Draw([Blank EXCEPT !.kind = "detail", !.findings = Findings,
                                        !.detail = Findings[first]], {}, NoMarker)
                  /\ UNCHANGED <<state, aimed>>

(* The widget raises outside the try, and the exception leaves main. *)
BreakPage ==
    /\ page = "draw" /\ ~HasDetail /\ Stale
    /\ Draw([Blank EXCEPT !.kind = "broken"], {}, NoMarker)
    /\ UNCHANGED <<round, state, preview, aimed, outdated, clicks>>

(* Variant: the staged values are applied whatever the options are now. *)
AppliedAsStaged == event.staged

(* The staged value of a widget counts only while its options are those it *)
(* was drawn with.                                                         *)
Applied ==
    [zones   |-> IF Options.zones = screen.options.zones THEN event.staged.zones
                 ELSE state.filters.zones,
     signals |-> IF Options.signals = screen.options.signals THEN event.staged.signals
                 ELSE state.filters.signals]

SubmitFilters ==
    /\ page = "draw" /\ ~HasDetail /\ ~Stale
    /\ event.kind \in {"apply", "reset"}
    /\ state' = [ClearResultState(state) EXCEPT
                    !.filters = IF event.kind = "reset" THEN NoFilters ELSE Applied]
    /\ preview' = NoPreview
    /\ aimed' = NoFinding
    /\ marker' = NoMarker
    /\ outdated' = restored
    /\ Rerun
    /\ UNCHANGED <<round, ticked, screen, consent, clicks>>

(* The overview with its open dialog; then the click on the map, which     *)
(* selects a finding and starts the script again.                          *)
Dialog == IF event.kind \in {"pdf", "delete"} THEN event.kind ELSE state.dialog

(* The preview that the dialog shows and the one the session keeps; making *)
(* a PDF can fail.                                                         *)
Previews ==
    LET made == [key |-> PreviewKey(Findings), findings |-> Findings, filters |-> state.filters]
        fresh == preview # NoPreview /\ preview.key = made.key
    IN  CASE Dialog # "pdf" -> {[shown |-> NoPreview, kept |-> preview]}
          [] Dialog = "pdf" /\ fresh -> {[shown |-> preview, kept |-> preview]}
          [] OTHER -> {[shown |-> made, kept |-> made], [shown |-> NoPreview, kept |-> preview]}

(* The map keeps its value while it is drawn with the same key. *)
Clicked == IF marker.round = round /\ marker.filters = state.filters THEN marker ELSE NoMarker

ShowOverview ==
    LET chosen == SelectedFromMap(Findings, Clicked)
        drawn  == [Blank EXCEPT !.kind = "overview", !.findings = Findings, !.options = Options]
    IN  /\ page = "draw" /\ ~HasDetail /\ ~Stale
        /\ event.kind \notin {"apply", "reset"}
        /\ \E p \in Previews :
              /\ preview' = p.kept
              /\ \/ /\ chosen = {}
                    /\ Draw([drawn EXCEPT !.pdf = p.shown],
                            IF Dialog = "delete" THEN {ConfirmKey(round)} ELSE {}, Clicked)
                    /\ state' = [state EXCEPT !.dialog = Dialog]
                    /\ aimed' = NoFinding
                 \/ /\ Rerun
                    /\ \E f \in chosen :
                          state' = [state EXCEPT !.dialog = Dialog, !.selected = f.network]
                    /\ aimed' = IF Clicked.drawn = Findings THEN Findings[Clicked.position]
                                ELSE NoFinding
                    /\ UNCHANGED <<ticked, consent, marker, screen>>
        /\ UNCHANGED <<round, outdated, clicks>>

ScriptStep ==
    /\ \/ List \/ ReadRound \/ ReadZones \/ ReadFindings \/ ReadFactors
       \/ ShowDetail \/ BreakPage \/ SubmitFilters \/ ShowOverview
    /\ UNCHANGED storageVars

(***************************************************************************)
(* The operator.                                                           *)
(***************************************************************************)
Click(e) ==
    /\ page = "idle"
    /\ MoreEvents
    /\ clicks' = clicks + 1
    /\ page' = "list"
    /\ event' = e
    /\ screen' = IF e.kind = "apply" THEN [Blank EXCEPT !.options = screen.options] ELSE Blank
    /\ UNCHANGED <<storageVars, round, rows, preview, ticked, aimed, consent, restored, outdated,
                   restarts>>

Press(kind) == Click([NoEvent EXCEPT !.kind = kind]) /\ UNCHANGED <<state, marker>>

OnOverview == screen.kind = "overview"

PressButton ==
    \/ Press("none")
    \/ OnOverview /\ \E kind \in {"pdf", "delete", "reset"} : Press(kind)
    \/ screen.kind = "detail" /\ Press("back")

StageFilters ==
    /\ OnOverview
    /\ \E f \in StagedFilters :
          /\ f.zones \subseteq screen.options.zones /\ f.signals \subseteq screen.options.signals
          /\ Click([kind |-> "apply", staged |-> f])
    /\ UNCHANGED <<state, marker>>

ClickMarker ==
    /\ OnOverview
    /\ \E i \in DOMAIN screen.findings :
          marker' = [position |-> i, place |-> screen.findings[i].place, drawn |-> screen.findings,
                     filters |-> state.filters, round |-> round]
    /\ Click(NoEvent)
    /\ UNCHANGED state

Cancel ==
    /\ OnOverview /\ state.dialog = "delete"
    /\ state' = [state EXCEPT !.dialog = "none"]
    /\ Click(NoEvent)
    /\ UNCHANGED marker

(* A tick runs the dialog again, not the page. *)
Tick ==
    /\ page = "idle" /\ OnOverview /\ state.dialog = "delete"
    /\ ticked' = ticked \cup {ConfirmKey(round)}
    /\ consent' = consent \cup {round}
    /\ UNCHANGED <<storageVars, page, round, rows, state, preview, event, marker, screen, aimed,
                   restored, outdated, restarts, clicks>>

ConfirmDeletion ==
    /\ page = "idle" /\ OnOverview /\ state.dialog = "delete"
    /\ ConfirmKey(round) \in ticked
    /\ BeginDelete(Me, round)
    /\ page' = "deleting"
    /\ UNCHANGED <<round, rows, state, preview, ticked, event, marker, screen, aimed, consent,
                   restored, outdated, restarts, clicks>>

(* Success clears what the session keeps of the round, but not its         *)
(* filters; an error leaves the dialog as it is.                           *)
FinishDeletion ==
    /\ page = "deleting"
    /\ UNCHANGED <<storageVars, round, marker, screen, outdated, clicks>>
    /\ \/ /\ DeleteAt(Me, "succeeded")
          /\ state' = [ClearResultState(state) EXCEPT !.told = TRUE]
          /\ preview' = NoPreview
          /\ ticked' = ticked \ {ConfirmKey(round)}
          /\ aimed' = NoFinding
          /\ consent' = {}
          /\ Rerun
       \/ /\ DeleteAt(Me, "failed")
          /\ page' = "idle"
          /\ UNCHANGED <<rows, state, preview, ticked, event, aimed, consent, restored, restarts>>

(* Loading the page again in the browser starts a new session. *)
NewSession ==
    /\ page = "idle" /\ MoreEvents
    /\ clicks' = clicks + 1
    /\ page' = "list" /\ round' = NoRound /\ rows' = NoRows
    /\ state' = NewState /\ preview' = NoPreview /\ ticked' = {}
    /\ event' = NoEvent /\ marker' = NoMarker /\ screen' = Blank
    /\ aimed' = NoFinding /\ consent' = {} /\ restored' = FALSE /\ outdated' = FALSE
    /\ restarts' = 0
    /\ UNCHANGED storageVars

Operator ==
    \/ PressButton \/ StageFilters \/ ClickMarker \/ Cancel \/ Tick \/ ConfirmDeletion
    \/ NewSession

(***************************************************************************)
(* The rest of the world: the pipeline, deletions, and other operators.    *)
(***************************************************************************)
AlsoPage ==
    /\ restarts' = IF stored' = stored THEN restarts ELSE 0
    /\ LET anew == \E r \in Rounds : stored'[r] \notin {stored[r], Nothing}
       IN  /\ restored' = (restored \/ (anew /\ page \notin {"idle", "list", "deleting"}))
           /\ outdated' = (outdated \/ (anew /\ state.filters # NoFilters))
    /\ UNCHANGED <<page, round, rows, state, preview, ticked, event, marker, screen, aimed, consent,
                   clicks>>

OtherDeletes == \E o \in Operators \ {Me}, r \in Rounds : BeginDelete(o, r)

Init == StorageInit /\ SessionInit

(* The script sees only what commits.  Everything else that happens while  *)
(* it runs might as well have happened before or after the run, and is     *)
(* taken there, except what leads from one commit to the next.             *)
AtRest == page \in {"idle", "deleting"}

Next ==
    \/ ScriptStep
    \/ Operator
    \/ FinishDeletion
    \/ (ReplaceWaited \/ CommitReplace) /\ AlsoPage
    \/ (\E o \in Operators : DeleteRow(o) \/ CommitDelete(o)) /\ AlsoPage
    \/ AtRest /\ StorageNext /\ AlsoPage
    \/ AtRest /\ OtherDeletes /\ AlsoPage
    \/ AtRest /\ MoreEvents /\ StorageFaults /\ AlsoPage

Spec == Init /\ [][Next]_vars

(***************************************************************************)
(* Properties.                                                             *)
(***************************************************************************)
TypeOK ==
    /\ StorageTypeOK
    /\ page \in {"idle", "list", "round1", "zones1", "findings1", "factors1", "round2",
                 "findings2", "factors2", "draw", "deleting"}
    /\ round \in Rounds \cup {NoRound}
    /\ state.dialog \in {"none", "pdf", "delete"} /\ state.told \in BOOLEAN
    /\ ticked \subseteq Rounds /\ consent \subseteq Rounds
    /\ event.kind \in {"none", "pdf", "delete", "apply", "reset", "back"}
    /\ screen.kind \in {"blank", "no_rounds", "error", "broken", "detail", "overview"}
    /\ restored \in BOOLEAN /\ outdated \in BOOLEAN
    /\ restarts \in 0..3 /\ clicks \in 0..MaxClicks

(* Findings on the screen have their factors and were stored together,     *)
(* although four statements read them: a deletion in between ends in the   *)
(* error page.  Only a round stored anew during the run can show a mixture *)
(* (presentation/repository.py 53-131).                                    *)
ShownFindingsAreWhole ==
    screen.kind \in {"overview", "detail"} /\ ~screen.restored =>
        \E c \in Contents : EntriesOf(screen.findings) \subseteq EntriesOf(c.findings)

(* The detail shows the network whose marker was clicked, as long as the   *)
(* map was still true when the click was handled.  The selection keeps no  *)
(* zone, so the same network in an earlier zone can take the place of the  *)
(* finding that was clicked, and no other can (app.py 110-117, 169-185).   *)
DetailIsOfClickedNetwork ==
    screen.kind = "detail" /\ aimed # NoFinding =>
        /\ screen.detail.network = aimed.network
        /\ (\E f \in EntriesOf(screen.findings) : SameKey(f, aimed)) =>
              screen.detail.zone <= aimed.zone

(* A session deletes only a round whose own box was ticked in the dialog   *)
(* that is open, although the dialog stays open when another operator      *)
(* deletes the round and a new one takes its place (app.py 207-231).       *)
DeletesOnlyConfirmedRounds == deletion[Me].pc \notin Ended => deletion[Me].round \in consent

(* The page breaks only when a round was stored after the filters were     *)
(* applied: no sequence of filters applied to one round's data breaks it,  *)
(* and a session without filters never does (app.py 277-350).              *)
BrokenOnlyByStaleFilters ==
    screen.kind = "broken" /\ page = "idle" => state.filters # NoFilters /\ outdated

(* The PDF that the dialog offers is of the findings and the filters of    *)
(* the page behind it, also when it was made in an earlier run (app.py     *)
(* 484-500).                                                               *)
PdfIsOfThisView ==
    OnOverview /\ screen.pdf # NoPreview =>
        /\ screen.pdf.findings = screen.findings
        /\ page = "idle" => screen.pdf.filters = state.filters

(* After an interaction the script comes to a drawn page: as long as       *)
(* Storage does not change, it starts again at most twice on its own, so   *)
(* handling a click never leads back to the same click (app.py 169-185).   *)
NoEndlessRerun == restarts <= 2
=============================================================================
