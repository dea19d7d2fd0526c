------------------------------ MODULE BlockFeed ------------------------------
(***************************************************************************)
(* The two verification pages of the web frontend and the route that feeds *)
(* one of them.                                                            *)
(*                                                                         *)
(* app/api/merkle-data/route.ts reads data.txt, drops the lines it cannot  *)
(* parse and answers with the blocks, newest first.  The GPU page turns    *)
(* the answer round, shows the first blocks at once and then streams the   *)
(* others, one per tick, into a window; at the end it starts over.  The DA *)
(* page numbers blocks it makes up itself: from the number it captured     *)
(* when its effect ran, and from a counter that survives the renders.      *)
(*                                                                         *)
(* A block is its sequence number, a line that does not parse is Broken.   *)
(* A development build runs every effect twice on mount, so the GPU page   *)
(* may send two requests, and the DA page fills its table twice.           *)
(***************************************************************************)
EXTENDS Naturals, Sequences, SequencesExt

CONSTANTS
  MaxLines,     \* bound: lines the logger writes to data.txt
  MaxEntries,   \* bound: entries the DA page makes up in one visit
  MaxCopies,    \* bound: copy marks waiting to fade
  Window,       \* rows a page keeps (50)
  Opening,      \* blocks the GPU page shows at once (5)
  Backlog,      \* entries the DA page starts with (10)
  FirstNumber   \* the block number the DA page starts from (1248923)

ASSUME FeedAssumption ==
  /\ {MaxLines, MaxEntries, MaxCopies, FirstNumber} \subseteq Nat
  /\ {Window, Opening, Backlog} \subseteq Nat \ {0}
  /\ Opening <= Window

VARIABLES
  file,   \* data.txt: one sequence number, or Broken, per line
  page,   \* the page the browser shows
  ask,    \* the requests of the GPU page: idle, sent, or answered
  gpu,    \* the state of the GPU page
  da      \* the state of the DA page

vars == <<file, page, ask, gpu, da>>

Broken == 0
None == 0
Request == {1, 2}
Field == {"merkle", "chain", "prev", "json"}

Idle == [at |-> "idle", ok |-> FALSE, data |-> <<>>]
Sent == [Idle EXCEPT !.at = "sent"]

\* Mutant: the list is never cut.
PushAll(row, rows) == <<row>> \o rows

\* setVisibleBlocks, setEntries: the new row on top, the oldest row dropped.
Push(row, rows) ==
  SubSeq(<<row>> \o rows, 1, IF Len(rows) < Window THEN Len(rows) + 1 ELSE Window)

-----------------------------------------------------------------------------
(* The route.                                                              *)

\* The logger appends a line; a reader may meet one that is only half written.
WriteLine ==
  /\ Len(file) < MaxLines
  /\ \E line \in {Broken, Len(file) + 1} : file' = Append(file, line)
  /\ UNCHANGED <<page, ask, gpu, da>>

FinishLine ==
  /\ file # <<>> /\ Last(file) = Broken
  /\ file' = [file EXCEPT ![Len(file)] = Len(file)]
  /\ UNCHANGED <<page, ask, gpu, da>>

\* The lines that parse, in their order.
Parsed(lines) ==
  LET kept[n \in 0 .. Len(lines)] ==
        IF n = 0 THEN <<>>
        ELSE IF lines[n] = Broken THEN kept[n - 1]
        ELSE Append(kept[n - 1], lines[n])
  IN kept[Len(lines)]

\* GET: the parsed lines, newest first; or a failure to read the file.
MerkleData == Reverse(Parsed(file))

Answer(r) ==
  /\ ask[r].at = "sent"
  /\ \E ok \in BOOLEAN :
       ask' = [ask EXCEPT ![r] =
                 [at |-> "answered", ok |-> ok, data |-> IF ok THEN MerkleData ELSE <<>>]]
  /\ UNCHANGED <<file, page, gpu, da>>

-----------------------------------------------------------------------------
(* The GPU page.                                                           *)

BlankGPU ==
  [loading |-> TRUE, all |-> <<>>, visible |-> <<>>, position |-> 0,
   fresh |-> None, selected |-> None, copied |-> {}, fading |-> 0]

\* Mutant: the stream moves behind the opening without showing it.
StreamSkipsOpening(g, blocks) ==
  IF blocks = <<>> THEN [g EXCEPT !.loading = FALSE, !.all = blocks]
  ELSE [g EXCEPT !.loading = FALSE, !.all = blocks, !.position = Opening]

\* The streaming effect runs when `loading` or `allBlocks` has changed: it
\* clears the interval of the last run and, if there are blocks, opens anew.
Stream(g, blocks) ==
  IF blocks = <<>> THEN [g EXCEPT !.loading = FALSE, !.all = blocks]
  ELSE [g EXCEPT !.loading = FALSE, !.all = blocks, !.position = Opening,
          !.visible = Reverse(SubSeq(blocks, 1,
                        IF Len(blocks) < Opening THEN Len(blocks) ELSE Opening))]

\* fetchData: what it sets when its answer is there.
Receive(r) ==
  /\ ask[r].at = "answered"
  /\ gpu' = IF ask[r].ok THEN Stream(gpu, Reverse(ask[r].data))
            ELSE [gpu EXCEPT !.loading = FALSE]
  /\ ask' = [ask EXCEPT ![r] = Idle]
  /\ UNCHANGED <<file, page, da>>

\* Mutant: the stream starts over behind the opening, as the effect
\* leaves it.
TickFromOpening ==
  /\ page = "gpu" /\ gpu.all # <<>> /\ gpu.fresh = None
  /\ gpu' = IF gpu.position >= Len(gpu.all)
            THEN [gpu EXCEPT !.position = Opening, !.visible = <<>>]
            ELSE LET block == gpu.all[gpu.position + 1] IN
                 [gpu EXCEPT !.position = @ + 1, !.fresh = block,
                             !.visible = Push(block, @)]
  /\ UNCHANGED <<file, page, ask, da>>

\* One tick of the interval.  It is longer than the highlight lasts, so the
\* mark of the last block has faded.
Tick ==
  /\ page = "gpu" /\ gpu.all # <<>> /\ gpu.fresh = None
  /\ gpu' = IF gpu.position >= Len(gpu.all)
            THEN [gpu EXCEPT !.position = 0, !.visible = <<>>]
            ELSE LET block == gpu.all[gpu.position + 1] IN
                 [gpu EXCEPT !.position = @ + 1, !.fresh = block,
                             !.visible = Push(block, @)]
  /\ UNCHANGED <<file, page, ask, da>>

Fade ==
  /\ gpu.fresh # None
  /\ gpu' = [gpu EXCEPT !.fresh = None]
  /\ UNCHANGED <<file, page, ask, da>>

\* The blocks the list offers; the spinner stands in for it while it loads.
Rows == IF gpu.loading THEN {} ELSE {gpu.visible[i] : i \in DOMAIN gpu.visible}

\* The figures on top: "Verified Blocks", and "Latest Sequence" with its root.
VerifiedBlocks == Len(gpu.visible)
LatestSequence == IF gpu.visible = <<>> THEN 0 ELSE gpu.visible[1]

Select ==
  /\ \E block \in Rows : gpu' = [gpu EXCEPT !.selected = block]
  /\ UNCHANGED <<file, page, ask, da>>

\* The copy buttons of the detail modal: the modal holds the block itself, so
\* it stays when the block scrolls out of the window.
CopyButtons == IF gpu.selected = None THEN {} ELSE Field

CloseModal ==
  /\ gpu.selected # None
  /\ gpu' = [gpu EXCEPT !.selected = None]
  /\ UNCHANGED <<file, page, ask, da>>

\* handleCopy marks the field and starts a timer that clears whatever is
\* marked when it ends, be it a later copy.
Copy ==
  /\ gpu.fading < MaxCopies
  /\ \E f \in CopyButtons : gpu' = [gpu EXCEPT !.copied = {f}, !.fading = @ + 1]
  /\ UNCHANGED <<file, page, ask, da>>

CopyFades ==
  /\ gpu.fading > 0
  /\ gpu' = [gpu EXCEPT !.copied = {}, !.fading = @ - 1]
  /\ UNCHANGED <<file, page, ask, da>>

-----------------------------------------------------------------------------
(* The DA page.                                                            *)

BlankDA == [entries |-> <<>>, latest |-> FirstNumber, id |-> 0]

\* Mutant: the number comes from the state, not the captured value.
AddEntryFromState(d) ==
  [entries |-> Push([id |-> d.id, number |-> d.latest + d.id + 1], d.entries),
   latest |-> d.latest + 1, id |-> d.id + 1]

\* addEntry: its `latestBlock` is the one of the render whose effect made it,
\* FirstNumber; the counter has moved on by the time the number is computed.
AddEntry(d) ==
  [entries |-> Push([id |-> d.id, number |-> FirstNumber + d.id + 1], d.entries),
   latest |-> d.latest + 1, id |-> d.id + 1]

\* The table after n calls.
Filled[n \in Nat] == IF n = 0 THEN BlankDA ELSE AddEntry(Filled[n - 1])

\* What the page shows: the figure "Latest Block", and the block log.
LatestBlock == da.latest
BlockLog == da.entries

DATick ==
  /\ page = "da" /\ da.id < MaxEntries
  /\ da' = AddEntry(da)
  /\ UNCHANGED <<file, page, ask, gpu>>

-----------------------------------------------------------------------------
(* Navigation.  A page that is left takes its state, its interval and the  *)
(* use of its late answers and timers with it.                             *)

VisitGPU ==
  /\ page = "none"
  /\ page' = "gpu"
  /\ \E sent \in {{1}, Request} :
       ask' = [r \in Request |-> IF r \in sent THEN Sent ELSE Idle]
  /\ UNCHANGED <<file, gpu, da>>

VisitDA ==
  /\ page = "none"
  /\ page' = "da"
  /\ \E times \in {1, 2} : da' = Filled[times * Backlog]
  /\ UNCHANGED <<file, ask, gpu>>

Leave ==
  /\ page # "none"
  /\ page' = "none"
  /\ ask' = [r \in Request |-> Idle]
  /\ gpu' = BlankGPU
  /\ da' = BlankDA
  /\ UNCHANGED file

Init ==
  /\ file = <<>>
  /\ page = "none"
  /\ ask = [r \in Request |-> Idle]
  /\ gpu = BlankGPU
  /\ da = BlankDA

Next ==
  \/ WriteLine \/ FinishLine \/ \E r \in Request : Answer(r) \/ Receive(r)
  \/ Tick \/ Fade \/ Select \/ CloseModal \/ Copy \/ CopyFades
  \/ DATick \/ VisitGPU \/ VisitDA \/ Leave

Spec == Init /\ [][Next]_vars

\* The timers and the network: intervals and timeouts of a page that is open
\* fire, a request is answered, and its answer is handled.
FairSpec ==
  /\ Spec
  /\ WF_vars(Tick) /\ WF_vars(Fade) /\ WF_vars(CopyFades)
  /\ \A r \in Request : WF_vars(Answer(r)) /\ WF_vars(Receive(r))

-----------------------------------------------------------------------------
(* Properties.                                                             *)

FeedTypeOK ==
  /\ file \in Seq(Nat) /\ Len(file) <= MaxLines
  /\ page \in {"none", "gpu", "da"}
  /\ ask \in [Request -> [at : {"idle", "sent", "answered"}, ok : BOOLEAN,
                          data : Seq(Nat \ {Broken})]]
  /\ gpu \in [loading : BOOLEAN, all : Seq(Nat \ {Broken}),
              visible : Seq(Nat \ {Broken}), position : Nat, fresh : Nat,
              selected : Nat, copied : SUBSET Field, fading : 0 .. MaxCopies]
  /\ da \in [entries : Seq([id : Nat, number : Nat]), latest : Nat, id : Nat]
  /\ Len(gpu.visible) <= Window /\ Len(da.entries) <= Window

\* Where the stream stands: how many of the blocks it has shown.
Shown == IF gpu.position < Len(gpu.all) THEN gpu.position ELSE Len(gpu.all)

\* The list of the GPU page is the run of blocks that ends at the stream's
\* position, newest first, without a gap or a repetition (React keys the rows
\* by sequence number), whatever answers come late or twice; so "Latest
\* Sequence" is the highest of the rows.  (In a development build an older,
\* empty answer may come last: it stops the stream and leaves the rows.)
WindowIsContiguous ==
  gpu.all # <<>> =>
  /\ VerifiedBlocks = IF Shown < Window THEN Shown ELSE Window
  /\ \A i \in 1 .. Len(gpu.visible) : gpu.visible[i] = gpu.all[Shown + 1 - i]
  /\ \A i \in 1 .. Len(gpu.visible) : gpu.visible[i] <= LatestSequence

\* The DA page counts twice, in `latestBlock` and in a reference; the numbers
\* of its table run down without a gap from the figure it shows as the latest.
NumbersMeetTheCounter ==
  \A i \in 1 .. Len(BlockLog) :
    /\ BlockLog[i].number = LatestBlock + 1 - i
    /\ BlockLog[i].id + i = da.id

\* As long as the page stays open, every block it was sent is on show again
\* and again: the stream starts over and skips none.
EveryBlockComesRound ==
  \A b \in 1 .. MaxLines :
    <>[](\E i \in DOMAIN gpu.all : gpu.all[i] = b)
      => []<>(\E i \in DOMAIN gpu.visible : gpu.visible[i] = b)

=============================================================================
