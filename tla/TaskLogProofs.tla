---------------------------- MODULE TaskLogProofs ----------------------------
(***************************************************************************)
(* What a viewer of a log is shown and what becomes of a build, for any    *)
(* number of builds, viewers, lines and dying workers.  The invariant ties *)
(* the inbox of a viewer, from the subscription on, to the lines the       *)
(* worker has broadcast, and what was shown to the first of the inbox.     *)
(***************************************************************************)
EXTENDS TaskLog, Integers, TLAPS

-----------------------------------------------------------------------------
\* The worker: a line is broadcast before the next is stored, the row says how
\* the task ended from task.finish on, and a success has left no directory.
Finished(b) == row[b] \in {"success", "failed"}
Finishing == {"image", "end", "done", "crashed"}

WorkerInv(b) ==
    /\ job[b].sent = stored[b] \/ job[b].sent + 1 = stored[b]
    /\ job[b].pc \notin Streams \cup {"crashed"} => job[b].sent = stored[b]
    /\ Finished(b) => job[b].pc \in Finishing /\ job[b].sent = stored[b]
                      /\ row[b] = job[b].result
    /\ job[b].pc \in {"image", "end", "done"} => Finished(b)
    /\ ended[b] <=> job[b].pc = "done"
    /\ job[b].pc = "none" => row[b] = "none"
    /\ job[b].pc \in {"build", "push", "untag"} => scratch[b] = "none"
    /\ job[b].result = "success" =>
          scratch[b] = "none" /\ job[b].pc \in {"untag", "finish"} \cup Finishing
    /\ job[b].pc = "image" => row[b] = "success"
    /\ job[b].pc \in {"end", "done"} /\ row[b] = "success" => VersionOf[b] \in images

ImageInv == \A w \in images : \E b \in Builds : VersionOf[b] = w /\ row[b] = "success"

\* The inbox goes on after line x: to the last line broadcast, and the end
\* after it when that was published since.
Awaits(v, x) ==
    LET n == Len(view[v].inbox)
        last == job[view[v].task].sent
    IN  /\ x \in 0 .. last
        /\ \/ n = last - x /\ \A i \in 1 .. n : view[v].inbox[i] = x + i
           \/ /\ n = last - x + 1 /\ ended[view[v].task] /\ view[v].inbox[n] = End
              /\ \A i \in 1 .. n - 1 : view[v].inbox[i] = x + i

\* Shown are the first m lines, then those from the seam to line x.
Seamed(v, m, x) ==
    LET s == view[v].shown
        n == Len(s)
    IN  /\ m \in 0 .. n /\ m <= stored[view[v].task]
        /\ 0 <= x - (n - m) /\ x - (n - m) <= m
        /\ \A i \in 1 .. m : s[i] = i
        /\ \A i \in m + 1 .. n : s[i] = x - n + i

AllShown(v) ==
    {view[v].shown[i] : i \in DOMAIN view[v].shown} = 1 .. stored[view[v].task]

ViewerInv(v) ==
    /\ view[v].pc \in {"new", "notfound", "known"} => view[v].inbox = <<>>
    /\ view[v].pc \in {"new", "notfound", "known", "subscribed"} => view[v].shown = <<>>
    /\ view[v].finished => Finished(view[v].task)
    /\ view[v].pc = "subscribed" => \E x \in Nat : Awaits(v, x)
    /\ view[v].pc = "following" /\ view[v].here =>
          \E x \in Nat, m \in Nat : Awaits(v, x) /\ Seamed(v, m, x)
    /\ \E x \in Nat, m \in Nat : Seamed(v, m, x)
    /\ view[v].pc = "closed" /\ view[v].here => Finished(view[v].task) /\ AllShown(v)

IInv ==
    /\ TypeOK
    /\ \A b \in Builds : WorkerInv(b)
    /\ ImageInv
    /\ \A v \in Viewers : ViewerInv(v)

\* Ranges that the steps need.
LEMMA Fields ==
  ASSUME TypeOK, NEW b \in Builds
  PROVE  /\ job[b].pc \in WorkerStates /\ job[b].sent \in 0 .. MaxLines
         /\ job[b].pushed \in BOOLEAN /\ job[b].result \in {"success", "failed"}
         /\ stored[b] \in 0 .. MaxLines /\ ended[b] \in BOOLEAN
         /\ row[b] \in {"none", "unfinished", "success", "failed"}
         /\ scratch[b] \in {"none", "upload", "work"}
BY DEF TypeOK

\* Before any build and with every viewer at the door (eru/api/websockets.py).
THEOREM InitOK == Init => IInv
<1> SUFFICES ASSUME Init PROVE IInv
  OBVIOUS
<1>1. MaxLines \in Nat
  BY TaskLogAssumption
<1>2. ASSUME NEW v \in Viewers
      PROVE  /\ view[v].pc = "new" /\ view[v].task \in Builds
             /\ view[v].finished = FALSE /\ view[v].here = TRUE
             /\ view[v].inbox = <<>> /\ view[v].shown = <<>>
  <2>1. view[v] \in {[pc |-> "new", task |-> b, finished |-> FALSE, here |-> TRUE,
                      inbox |-> <<>>, shown |-> <<>>] : b \in Builds}
    BY DEF Init
  <2> QED
    BY <2>1
<1>3. TypeOK
  <2>1. <<>> \in Seq(0 .. MaxLines) /\ <<>> \in Seq(1 .. MaxLines)
    OBVIOUS
  <2>2. 0 \in 0 .. MaxLines
    BY <1>1
  <2>3. view \in [Viewers -> [pc : ViewerStates, task : Builds, finished : BOOLEAN,
                              here : BOOLEAN, inbox : Seq(0 .. MaxLines),
                              shown : Seq(1 .. MaxLines)]]
    <3>1. "new" \in ViewerStates
      BY DEF ViewerStates
    <3>2. \A b \in Builds :
             [pc |-> "new", task |-> b, finished |-> FALSE, here |-> TRUE,
              inbox |-> <<>>, shown |-> <<>>]
               \in [pc : ViewerStates, task : Builds, finished : BOOLEAN, here : BOOLEAN,
                    inbox : Seq(0 .. MaxLines), shown : Seq(1 .. MaxLines)]
      BY <2>1, <3>1
    <3>3. view \in [Viewers -> {[pc |-> "new", task |-> b, finished |-> FALSE, here |-> TRUE,
                                 inbox |-> <<>>, shown |-> <<>>] : b \in Builds}]
      BY DEF Init
    <3>4. {[pc |-> "new", task |-> b, finished |-> FALSE, here |-> TRUE,
            inbox |-> <<>>, shown |-> <<>>] : b \in Builds}
              \subseteq [pc : ViewerStates, task : Builds, finished : BOOLEAN, here : BOOLEAN,
                         inbox : Seq(0 .. MaxLines), shown : Seq(1 .. MaxLines)]
      BY <3>2
    <3> QED
      BY <3>3, <3>4
  <2> QED
    BY <2>2, <2>3 DEF Init, TypeOK, WorkerStates
<1>4. \A b \in Builds : WorkerInv(b)
  BY <1>1 DEF Init, WorkerInv, Finished, Streams
<1>5. ImageInv
  BY DEF Init, ImageInv
<1>6. ASSUME NEW v \in Viewers PROVE ViewerInv(v)
  <2>1. stored[view[v].task] = 0
    BY <1>2 DEF Init
  <2>2. Seamed(v, 0, 0)
    <3>1. Len(view[v].shown) = 0
      <4>1. Len(<<>>) = 0 /\ view[v].shown = <<>>
        BY <1>2
      <4> QED
        BY <4>1
    <3>2. 0 - (0 - 0) = 0 /\ 0 \in 0 .. 0 /\ 0 <= 0
      OBVIOUS
    <3>3. \A i \in 1 .. 0 : FALSE
      OBVIOUS
    <3>4. \A i \in 0 + 1 .. 0 : FALSE
      OBVIOUS
    <3> QED
      BY <2>1, <3>1, <3>2, <3>3, <3>4 DEF Seamed
  <2> QED
    BY <1>2, <2>2 DEF ViewerInv
<1> QED
  BY <1>3, <1>4, <1>5, <1>6 DEF IInv

-----------------------------------------------------------------------------
(* Steps of a worker that its viewers do not see.                          *)

\* A viewer to whom nothing is sent: a log that has grown is still to come.
LEMMA ViewerKept ==
  ASSUME TypeOK, NEW v \in Viewers, ViewerInv(v), view'[v] = view[v],
         NEW b, b = view[v].task,
         job'[b].sent = job[b].sent, ended'[b] = ended[b],
         stored'[b] = stored[b] \/ (stored'[b] = stored[b] + 1 /\ ~Finished(b)),
         Finished(b) => Finished(b)'
  PROVE  ViewerInv(v)'
<1>1. b \in Builds /\ stored[b] \in Nat /\ stored'[b] \in Nat /\ stored[b] <= stored'[b]
  BY DEF TypeOK
<1>2. \A x : Awaits(v, x) => Awaits(v, x)'
  BY DEF Awaits
<1>3. ASSUME NEW m \in Nat, NEW x, Seamed(v, m, x) PROVE Seamed(v, m, x)'
  <2>1. m <= stored'[b]
    BY <1>1, <1>3 DEF Seamed
  <2> QED
    BY <1>3, <2>1 DEF Seamed
<1>4. Finished(b) /\ AllShown(v) => AllShown(v)'
  BY DEF AllShown
<1>5. /\ view'[v].pc \in {"new", "notfound", "known", "subscribed"} => view'[v].shown = <<>>
      /\ view'[v].finished => Finished(view[v].task)'
      /\ view'[v].pc = "closed" /\ view'[v].here => Finished(view[v].task)' /\ AllShown(v)'
  BY <1>4 DEF ViewerInv, Finished
<1>6. view'[v].pc = "subscribed" => \E x \in Nat : Awaits(v, x)'
  BY <1>2 DEF ViewerInv
<1>7. view'[v].pc = "following" /\ view'[v].here =>
          \E x \in Nat, m \in Nat : Awaits(v, x)' /\ Seamed(v, m, x)'
  BY <1>2, <1>3 DEF ViewerInv
<1>8. \E x \in Nat, m \in Nat : Seamed(v, m, x)'
  BY <1>3 DEF ViewerInv
<1> QED
  BY <1>5, <1>6, <1>7, <1>8 DEF ViewerInv

\* What a step does to the record of its own build only.
OnlyOf(b) ==
    \A c \in Builds \ {b} :
        /\ job'[c] = job[c] /\ row'[c] = row[c] /\ stored'[c] = stored[c]
        /\ ended'[c] = ended[c] /\ scratch'[c] = scratch[c]

LEMMA OtherWorkers ==
  ASSUME IInv, NEW b \in Builds, OnlyOf(b), images \subseteq images', WorkerInv(b)'
  PROVE  \A c \in Builds : WorkerInv(c)'
<1> SUFFICES ASSUME NEW c \in Builds, c # b PROVE WorkerInv(c)'
  OBVIOUS
<1>1. WorkerInv(c)
  BY DEF IInv
<1>2. /\ job'[c] = job[c] /\ row'[c] = row[c] /\ stored'[c] = stored[c]
      /\ ended'[c] = ended[c] /\ scratch'[c] = scratch[c]
  BY DEF OnlyOf
<1>3. VersionOf[c] \in images => VersionOf[c] \in images'
  OBVIOUS
<1> QED
  BY <1>1, <1>2, <1>3 DEF WorkerInv, Finished

LEMMA UnseenStep ==
  ASSUME IInv, NEW b \in Builds, TypeOK', OnlyOf(b), images \subseteq images', ImageInv',
         WorkerInv(b)', UNCHANGED view,
         job'[b].sent = job[b].sent, ended'[b] = ended[b],
         stored'[b] = stored[b] \/ (stored'[b] = stored[b] + 1 /\ ~Finished(b)),
         Finished(b) => row'[b] = row[b]
  PROVE  IInv'
<1>1. \A c \in Builds : WorkerInv(c)'
  BY OtherWorkers
<1>2. ASSUME NEW v \in Viewers PROVE ViewerInv(v)'
  <2> DEFINE t == view[v].task
  <2>1. t \in Builds /\ TypeOK /\ ViewerInv(v)
    BY DEF IInv, TypeOK
  <2>2. CASE t = b
    BY <2>1, <2>2, ViewerKept DEF Finished
  <2>3. CASE t # b
    <3>1. /\ job'[t] = job[t] /\ row'[t] = row[t] /\ stored'[t] = stored[t]
          /\ ended'[t] = ended[t]
      BY <2>1, <2>3 DEF OnlyOf
    <3> QED
      BY <2>1, <3>1, ViewerKept DEF Finished
  <2> QED
    BY <2>2, <2>3
<1> QED
  BY <1>1, <1>2 DEF IInv

\* A step that only moves the worker on, with a row that is not yet finished.
LEMMA ImagesKept ==
  ASSUME IInv, NEW b \in Builds, OnlyOf(b), row'[b] = row[b] \/ ~Finished(b),
         images' = images
  PROVE  ImageInv'
<1>1. \A c \in Builds : row[c] = "success" => row'[c] = "success"
  BY DEF OnlyOf, Finished
<1> QED
  BY <1>1 DEF IInv, ImageInv

\* The next state of a worker.
WorkerType == [pc : WorkerStates, sent : 0 .. MaxLines, pushed : BOOLEAN,
               result : {"success", "failed"}]

LEMMA GotoStep ==
  ASSUME IInv, NEW b \in Builds, NEW state \in WorkerStates, Goto(b, state)
  PROVE  /\ job' \in [Builds -> [pc : WorkerStates, sent : 0 .. MaxLines, pushed : BOOLEAN,
                                 result : {"success", "failed"}]]
         /\ job'[b].pc = state /\ job'[b].sent = job[b].sent
         /\ job'[b].result = job[b].result
         /\ \A c \in Builds \ {b} : job'[c] = job[c]
<1>1. TypeOK
  BY DEF IInv
<1> DEFINE w == [job[b] EXCEPT !.pc = state]
<1>2. job[b] \in WorkerType /\ job \in [Builds -> WorkerType]
  BY <1>1 DEF TypeOK, WorkerType
<1>3. w.pc = state /\ w.sent = job[b].sent /\ w.result = job[b].result
  BY <1>2 DEF WorkerType
<1>4. w \in WorkerType
  BY <1>2 DEF WorkerType
<1>5. job' = [job EXCEPT ![b] = w]
  BY DEF Goto
<1> HIDE DEF w
<1>6. job' \in [Builds -> WorkerType] /\ job'[b] = w /\ \A c \in Builds \ {b} : job'[c] = job[c]
  BY <1>2, <1>4, <1>5
<1> QED
  BY <1>3, <1>6 DEF WorkerType

-----------------------------------------------------------------------------
(* The handlers' and the worker's steps.                                   *)

LEMMA BuildImageKept ==
  ASSUME IInv, NEW b \in Builds, BuildImage(b) \/ BuildImageV2(b)
  PROVE  IInv'
<1>1. /\ job[b].pc = "none" /\ row' = [row EXCEPT ![b] = "unfinished"] /\ Goto(b, "created")
      /\ UNCHANGED <<images, stored, ended, view>> /\ TypeOK /\ WorkerInv(b)
      /\ scratch' = scratch \/ scratch' = [scratch EXCEPT ![b] = "upload"]
  BY DEF BuildImage, BuildImageV2, IInv
<1>2. "created" \in WorkerStates
  BY DEF WorkerStates
<1>3. TypeOK'
  BY <1>1, <1>2, GotoStep DEF TypeOK
<1>4. OnlyOf(b)
  BY <1>1, <1>2, GotoStep DEF OnlyOf, TypeOK
<1>5. row'[b] = "unfinished" /\ row[b] = "none"
  BY <1>1 DEF TypeOK, WorkerInv
<1>6. ImageInv'
  BY <1>1, <1>4, <1>5, ImagesKept DEF Finished
<1>7. WorkerInv(b)'
  BY <1>1, <1>2, <1>5, GotoStep DEF WorkerInv, Finished, Streams, Finishing
<1> QED
  BY <1>1, <1>2, <1>3, <1>4, <1>5, <1>6, <1>7, GotoStep, UnseenStep DEF Finished

\* Steps that only move the worker on.
LEMMA MoveOn ==
  ASSUME IInv, NEW b \in Builds, NEW state \in WorkerStates, Goto(b, state),
         UNCHANGED <<row, images, stored, ended, view>>,
         scratch' \in [Builds -> {"none", "upload", "work"}],
         \A c \in Builds \ {b} : scratch'[c] = scratch[c],
         WorkerInv(b)'
  PROVE  IInv'
<1>1. TypeOK'
  BY GotoStep DEF IInv, TypeOK
<1>2. OnlyOf(b)
  BY GotoStep DEF OnlyOf
<1>3. ImageInv'
  BY <1>2, ImagesKept
<1> QED
  BY <1>1, <1>2, <1>3, GotoStep, UnseenStep

LEMMA EnqueueKept ==
  ASSUME IInv, NEW b \in Builds, Enqueue(b) \/ StartBuild(b) \/ RemoveImage(b)
  PROVE  IInv'
<1>1. PICK state \in {"queued", "lost", "pull", "finish"} :
         /\ Goto(b, state)
         /\ job[b].pc \in {"created", "queued", "untag"}
         /\ state = "finish" <=> job[b].pc = "untag"
  BY DEF Enqueue, StartBuild, RemoveImage
<1>2. state \in WorkerStates
  BY DEF WorkerStates, Streams
<1>3. UNCHANGED <<row, images, stored, ended, scratch, view>>
  BY DEF Enqueue, StartBuild, RemoveImage
<1>4. WorkerInv(b)
  BY DEF IInv
<1>5. WorkerInv(b)'
  BY <1>1, <1>2, <1>3, <1>4, GotoStep DEF WorkerInv, Finished, Streams, Finishing
<1>6. scratch' \in [Builds -> {"none", "upload", "work"}]
  BY <1>3 DEF IInv, TypeOK
<1> QED
  BY <1>1, <1>2, <1>3, <1>5, <1>6, MoveOn

LEMMA CheckoutKept ==
  ASSUME IInv, NEW b \in Builds, Checkout(b)
  PROVE  IInv'
<1>1. /\ job[b].pc = "checkout" /\ Goto(b, "context")
      /\ UNCHANGED <<row, images, stored, ended, view>> /\ TypeOK /\ WorkerInv(b)
      /\ scratch' = [scratch EXCEPT ![b] = IF @ = "upload" THEN @ ELSE "work"]
  BY DEF Checkout, IInv
<1>2. "context" \in WorkerStates
  BY DEF WorkerStates
<1>3. scratch' \in [Builds -> {"none", "upload", "work"}]
      /\ \A c \in Builds \ {b} : scratch'[c] = scratch[c]
  BY <1>1 DEF TypeOK
<1>4. WorkerInv(b)'
  BY <1>1, <1>2, GotoStep DEF WorkerInv, Finished, Streams, Finishing
<1> QED
  BY <1>1, <1>2, <1>3, <1>4, MoveOn

LEMMA SendContextKept ==
  ASSUME IInv, NEW b \in Builds, SendContext(b)
  PROVE  IInv'
<1>1. /\ job[b].pc = "context" /\ Goto(b, "build")
      /\ UNCHANGED <<row, images, stored, ended, view>> /\ TypeOK /\ WorkerInv(b)
      /\ scratch' = [scratch EXCEPT ![b] = "none"]
  BY DEF SendContext, IInv
<1>2. "build" \in WorkerStates
  BY DEF WorkerStates, Streams
<1>3. scratch' \in [Builds -> {"none", "upload", "work"}] /\ scratch'[b] = "none"
      /\ \A c \in Builds \ {b} : scratch'[c] = scratch[c]
  BY <1>1 DEF TypeOK
<1>4. WorkerInv(b)'
  BY <1>1, <1>2, <1>3, GotoStep DEF WorkerInv, Finished, Streams, Finishing
<1> QED
  BY <1>1, <1>2, <1>3, <1>4, MoveOn

LEMMA CrashKept ==
  ASSUME IInv, NEW b \in Builds, Crash(b)
  PROVE  IInv'
<1>1. /\ job[b].pc \notin {"none", "done"} /\ Goto(b, "crashed")
      /\ UNCHANGED <<row, images, stored, ended, scratch, view>> /\ TypeOK /\ WorkerInv(b)
  BY DEF Crash, IInv
<1>2. "crashed" \in WorkerStates
  BY DEF WorkerStates
<1>3. scratch' \in [Builds -> {"none", "upload", "work"}]
  BY <1>1 DEF TypeOK
<1>4. WorkerInv(b)'
  BY <1>1, <1>2, GotoStep DEF WorkerInv, Finished, Streams, Finishing
<1> QED
  BY <1>1, <1>2, <1>3, <1>4, MoveOn

\* A worker whose next state carries a result.
LEMMA ResultStep ==
  ASSUME IInv, NEW b \in Builds, NEW state \in WorkerStates, NEW r \in {"success", "failed"},
         job' = [job EXCEPT ![b].pc = state, ![b].result = r]
  PROVE  /\ job' \in [Builds -> [pc : WorkerStates, sent : 0 .. MaxLines, pushed : BOOLEAN,
                                 result : {"success", "failed"}]]
         /\ job'[b].pc = state /\ job'[b].sent = job[b].sent /\ job'[b].result = r
         /\ \A c \in Builds \ {b} : job'[c] = job[c]
<1>1. TypeOK
  BY DEF IInv
<1> DEFINE w == [job[b] EXCEPT !.pc = state, !.result = r]
<1>2. job[b] \in WorkerType /\ job \in [Builds -> WorkerType]
  BY <1>1 DEF TypeOK, WorkerType
<1>3. w.pc = state /\ w.sent = job[b].sent /\ w.result = r
  BY <1>2 DEF WorkerType
<1>4. w \in WorkerType
  BY <1>2 DEF WorkerType
<1>5. job' = [job EXCEPT ![b] = w]
  OBVIOUS
<1> HIDE DEF w
<1>6. job' \in [Builds -> WorkerType] /\ job'[b] = w /\ \A c \in Builds \ {b} : job'[c] = job[c]
  BY <1>2, <1>4, <1>5
<1> QED
  BY <1>3, <1>6 DEF WorkerType

LEMMA StreamEndsKept ==
  ASSUME IInv, NEW b \in Builds, StreamEnds(b)
  PROVE  IInv'
<1>1. /\ job[b].sent = stored[b] /\ UNCHANGED <<row, images, stored, ended, scratch, view>>
      /\ TypeOK /\ WorkerInv(b)
  BY DEF StreamEnds, IInv
<1>2. scratch' \in [Builds -> {"none", "upload", "work"}]
  BY <1>1 DEF TypeOK
<1>3. CASE job[b].pc = "pull" /\ Goto(b, "checkout")
  <2>1. "checkout" \in WorkerStates
    BY DEF WorkerStates
  <2>2. WorkerInv(b)'
    BY <1>1, <1>3, <2>1, GotoStep DEF WorkerInv, Finished, Streams, Finishing
  <2> QED
    BY <1>1, <1>2, <1>3, <2>1, <2>2, MoveOn
<1>4. CASE job[b].pc = "build" /\ Goto(b, "push")
  <2>1. "push" \in WorkerStates
    BY DEF WorkerStates, Streams
  <2>2. WorkerInv(b)'
    BY <1>1, <1>4, <2>1, GotoStep DEF WorkerInv, Finished, Streams, Finishing
  <2> QED
    BY <1>1, <1>2, <1>4, <2>1, <2>2, MoveOn
<1>5. ASSUME job[b].pc = "push", NEW r \in {"success", "failed"},
             job' = [job EXCEPT ![b].pc = "untag", ![b].result = r]
      PROVE  IInv'
  <2>1. "untag" \in WorkerStates
    BY DEF WorkerStates
  <2>2. TypeOK' /\ OnlyOf(b)
    BY <1>1, <1>5, <2>1, ResultStep DEF TypeOK, OnlyOf
  <2>3. ImageInv'
    BY <1>1, <2>2, ImagesKept
  <2>4. WorkerInv(b)'
    <3>1. /\ job'[b].pc = "untag" /\ job'[b].sent = stored'[b]
          /\ job'[b].result \in {"success", "failed"}
          /\ row'[b] = row[b] /\ ended'[b] = ended[b] /\ scratch'[b] = scratch[b]
      BY <1>1, <1>5, <2>1, ResultStep
    <3>2. ~Finished(b) /\ ~ended[b] /\ scratch[b] = "none"
      BY <1>1, <1>5 DEF WorkerInv, Finishing, Finished
    <3> QED
      BY <3>1, <3>2 DEF WorkerInv, Finished, Streams, Finishing
  <2> QED
    BY <1>1, <1>5, <2>1, <2>2, <2>3, <2>4, ResultStep, UnseenStep
<1> QED
  BY <1>3, <1>4, <1>5 DEF StreamEnds

LEMMA RaiseKept ==
  ASSUME IInv, NEW b \in Builds, Raise(b)
  PROVE  IInv'
<1>1. /\ job[b].pc \in Streams \cup {"checkout", "context", "untag"}
      /\ job[b].sent = stored[b] /\ UNCHANGED <<row, images, stored, ended, scratch, view>>
      /\ job' = [job EXCEPT ![b].pc = "finish", ![b].result = "failed"]
      /\ TypeOK /\ WorkerInv(b)
  BY DEF Raise, IInv
<1>2. "finish" \in WorkerStates
  BY DEF WorkerStates
<1>3. TypeOK' /\ OnlyOf(b)
  BY <1>1, <1>2, ResultStep DEF TypeOK, OnlyOf
<1>4. ImageInv'
  BY <1>1, <1>3, ImagesKept
<1>5. WorkerInv(b)'
  BY <1>1, <1>2, ResultStep DEF WorkerInv, Finished, Streams, Finishing
<1> QED
  BY <1>1, <1>2, <1>3, <1>4, <1>5, ResultStep, UnseenStep

\* A line is stored only while the last one has been broadcast.
LEMMA StoreLineKept ==
  ASSUME IInv, NEW b \in Builds, StoreLine(b)
  PROVE  IInv'
<1>1. /\ job[b].pc \in Streams /\ job[b].sent = stored[b] /\ stored[b] < MaxLines
      /\ stored' = [stored EXCEPT ![b] = @ + 1]
      /\ UNCHANGED <<row, images, ended, scratch, job, view>> /\ TypeOK /\ WorkerInv(b)
  BY DEF StoreLine, IInv
<1>2. stored[b] \in 0 .. MaxLines /\ MaxLines \in Nat
  BY <1>1, TaskLogAssumption DEF TypeOK
<1>3. stored'[b] = stored[b] + 1 /\ stored[b] + 1 \in 0 .. MaxLines
  BY <1>1, <1>2 DEF TypeOK
<1>4. ~Finished(b)
  BY <1>1 DEF WorkerInv, Streams, Finishing
<1>5. TypeOK'
  BY <1>1, <1>3 DEF TypeOK
<1>6. OnlyOf(b)
  BY <1>1 DEF OnlyOf, TypeOK
<1>7. ImageInv'
  BY <1>1, <1>6, ImagesKept
<1>8. WorkerInv(b)'
  <2>1. job'[b].sent + 1 = stored'[b]
    BY <1>1, <1>3
  <2> QED
    BY <1>1, <1>4, <2>1 DEF WorkerInv, Finished, Streams, Finishing
<1> QED
  BY <1>1, <1>3, <1>4, <1>5, <1>6, <1>7, <1>8, UnseenStep

LEMMA FinishKept ==
  ASSUME IInv, NEW b \in Builds, Finish(b)
  PROVE  IInv'
<1> DEFINE state == IF job[b].result = "success" THEN "image" ELSE "end"
<1>1. /\ job[b].pc = "finish" /\ row' = [row EXCEPT ![b] = job[b].result]
      /\ Goto(b, state) /\ UNCHANGED <<images, stored, ended, scratch, view>>
      /\ TypeOK /\ WorkerInv(b)
  BY DEF Finish, IInv
<1>2. state \in WorkerStates
  BY DEF WorkerStates
<1>3. job[b].result \in {"success", "failed"} /\ row'[b] = job[b].result
  BY <1>1 DEF TypeOK
<1>4. ~Finished(b)
  BY <1>1 DEF WorkerInv, Finishing
<1>5. TypeOK' /\ OnlyOf(b)
  BY <1>1, <1>2, <1>3, GotoStep DEF TypeOK, OnlyOf
<1>6. ImageInv'
  BY <1>1, <1>4, <1>5, ImagesKept
<1>7. WorkerInv(b)'
  <2>1. job'[b].pc = state /\ job'[b].sent = job[b].sent /\ job'[b].result = job[b].result
    BY <1>1, <1>2, GotoStep
  <2> QED
    BY <1>1, <1>3, <2>1 DEF WorkerInv, Finished, Streams, Finishing
<1>8. job'[b].sent = job[b].sent
  BY <1>1, <1>2, GotoStep
<1> QED
  BY <1>1, <1>4, <1>5, <1>6, <1>7, <1>8, UnseenStep

\* An image is recorded for the version of a build whose row says success.
LEMMA CreateImageKept ==
  ASSUME IInv, NEW b \in Builds, CreateImage(b)
  PROVE  IInv'
<1>1. /\ job[b].pc = "image" /\ images' = images \cup {VersionOf[b]} /\ Goto(b, "end")
      /\ UNCHANGED <<row, stored, ended, scratch, view>> /\ TypeOK /\ WorkerInv(b)
  BY DEF CreateImage, IInv
<1>2. "end" \in WorkerStates /\ VersionOf[b] \in Versions
  BY TaskLogAssumption DEF WorkerStates
<1>3. TypeOK' /\ OnlyOf(b)
  BY <1>1, <1>2, GotoStep DEF TypeOK, OnlyOf
<1>4. row[b] = "success"
  BY <1>1 DEF WorkerInv
<1>5. ImageInv'
  BY <1>1, <1>4 DEF IInv, ImageInv
<1>6. WorkerInv(b)'
  BY <1>1, <1>2, GotoStep DEF WorkerInv, Finished, Streams, Finishing
<1>7. job'[b].sent = job[b].sent
  BY <1>1, <1>2, GotoStep
<1> QED
  BY <1>1, <1>3, <1>5, <1>6, <1>7, UnseenStep

-----------------------------------------------------------------------------
(* What a worker publishes.                                                *)

LEMMA Viewed ==
  ASSUME TypeOK, NEW v \in Viewers
  PROVE  /\ view[v] \in [pc : ViewerStates, task : Builds, finished : BOOLEAN,
                         here : BOOLEAN, inbox : Seq(0 .. MaxLines),
                         shown : Seq(1 .. MaxLines)]
         /\ view[v].inbox \in Seq(0 .. MaxLines) /\ Len(view[v].inbox) \in Nat
         /\ view[v].shown \in Seq(1 .. MaxLines) /\ Len(view[v].shown) \in Nat
BY DEF TypeOK

\* Who gets the message, and that nobody else is touched.
LEMMA Published ==
  ASSUME TypeOK, NEW b \in Builds, NEW message \in 0 .. MaxLines, Publish(b, message)
  PROVE  /\ view' \in [Viewers -> [pc : ViewerStates, task : Builds, finished : BOOLEAN,
                                   here : BOOLEAN, inbox : Seq(0 .. MaxLines),
                                   shown : Seq(1 .. MaxLines)]]
         /\ \A v \in Viewers :
               /\ view'[v].pc = view[v].pc /\ view'[v].task = view[v].task
               /\ view'[v].finished = view[v].finished /\ view'[v].here = view[v].here
               /\ view'[v].shown = view[v].shown
               /\ v \in Subscribers(b) => view'[v].inbox = Append(view[v].inbox, message)
               /\ v \notin Subscribers(b) => view'[v] = view[v]
<1>1. ASSUME NEW v \in Viewers
      PROVE  /\ view'[v] \in [pc : ViewerStates, task : Builds, finished : BOOLEAN,
                              here : BOOLEAN, inbox : Seq(0 .. MaxLines),
                              shown : Seq(1 .. MaxLines)]
             /\ view'[v].pc = view[v].pc /\ view'[v].task = view[v].task
             /\ view'[v].finished = view[v].finished /\ view'[v].here = view[v].here
             /\ view'[v].shown = view[v].shown
             /\ v \in Subscribers(b) => view'[v].inbox = Append(view[v].inbox, message)
             /\ v \notin Subscribers(b) => view'[v] = view[v]
  <2>1. Append(view[v].inbox, message) \in Seq(0 .. MaxLines)
    BY Viewed
  <2>2. view'[v] = IF v \in Subscribers(b)
                   THEN [view[v] EXCEPT !.inbox = Append(@, message)] ELSE view[v]
    BY DEF Publish
  <2> QED
    BY <2>1, <2>2, Viewed
<1>2. view' = [v \in Viewers |-> view'[v]]
  BY DEF Publish
<1> QED
  BY <1>1, <1>2

\* An appended message comes last.
LEMMA Appended ==
  ASSUME NEW S, NEW s \in Seq(S), NEW e \in S
  PROVE  /\ Len(Append(s, e)) = Len(s) + 1 /\ Len(s) \in Nat
         /\ Append(s, e)[Len(s) + 1] = e
         /\ \A i \in 1 .. Len(s) : Append(s, e)[i] = s[i]
OBVIOUS

\* A line that is broadcast is the next one of every inbox.
LEMMA AwaitsLine ==
  ASSUME TypeOK, NEW v \in Viewers, NEW x, NEW b, b = view[v].task, Awaits(v, x), ~ended[b],
         ended'[b] = ended[b], job'[b].sent = job[b].sent + 1,
         view'[v].task = b,
         view'[v].inbox = Append(view[v].inbox, job[b].sent + 1),
         job[b].sent + 1 <= MaxLines
  PROVE  Awaits(v, x)'
<1> DEFINE s == view[v].inbox
           last == job[b].sent
           t == view'[v].inbox
<1>1. b \in Builds /\ last \in Nat /\ MaxLines \in Nat
  BY TaskLogAssumption DEF TypeOK
<1>2. s \in Seq(0 .. MaxLines) /\ last + 1 \in 0 .. MaxLines
  BY <1>1, Viewed
<1>3. /\ Len(t) = Len(s) + 1 /\ Len(s) \in Nat /\ t[Len(s) + 1] = last + 1
      /\ \A i \in 1 .. Len(s) : t[i] = s[i]
  BY <1>2, Appended
<1>4. x \in 0 .. last /\ Len(s) = last - x /\ \A i \in 1 .. Len(s) : s[i] = x + i
  BY DEF Awaits
<1> HIDE DEF s, t, last
<1>5. Len(t) = last + 1 - x /\ x \in 0 .. last + 1
  BY <1>1, <1>3, <1>4
<1>6. \A i \in 1 .. Len(t) : t[i] = x + i
  <2> SUFFICES ASSUME NEW i \in 1 .. Len(t) PROVE t[i] = x + i
    OBVIOUS
  <2>1. CASE i = Len(s) + 1
    BY <1>1, <1>3, <1>4, <2>1
  <2>2. CASE i # Len(s) + 1
    <3>1. i \in 1 .. Len(s)
      BY <1>3, <2>2
    <3> QED
      BY <1>3, <1>4, <3>1
  <2> QED
    BY <2>1, <2>2
<1>7. PICK k \in Nat : k = last + 1
  BY <1>1
<1>8. /\ job'[b].sent = k /\ view'[v].inbox = t /\ view'[v].task = b
      /\ x \in 0 .. k /\ Len(t) = k - x
  <2>1. x \in 0 .. k /\ Len(t) = k - x
    BY <1>1, <1>4, <1>5, <1>7
  <2>2. job'[b].sent = k
    BY <1>7 DEF last
  <2>3. view'[v].inbox = t /\ view'[v].task = b
    BY DEF t
  <2> QED
    BY <2>1, <2>2, <2>3
<1>9. /\ x \in 0 .. job'[view'[v].task].sent
      /\ Len(view'[v].inbox) = job'[view'[v].task].sent - x
      /\ \A i \in 1 .. Len(view'[v].inbox) : view'[v].inbox[i] = x + i
  BY <1>6, <1>8, Zenon
<1> QED
  BY <1>9, Zenon DEF Awaits

LEMMA BroadcastLineKept ==
  ASSUME IInv, NEW b \in Builds, BroadcastLine(b)
  PROVE  IInv'
<1>1. /\ job[b].pc \in Streams /\ job[b].sent < stored[b] /\ Publish(b, stored[b])
      /\ job' = [job EXCEPT ![b].sent = @ + 1, ![b].pushed = job[b].pc = "push"]
      /\ UNCHANGED <<row, images, stored, ended, scratch>> /\ TypeOK /\ WorkerInv(b)
  BY DEF BroadcastLine, IInv
<1>2. stored[b] \in 0 .. MaxLines /\ job[b].sent \in 0 .. MaxLines /\ MaxLines \in Nat
  BY <1>1, TaskLogAssumption DEF TypeOK
<1>3. job[b].sent + 1 = stored[b]
  BY <1>1, <1>2 DEF WorkerInv
<1>4. /\ job' \in [Builds -> [pc : WorkerStates, sent : 0 .. MaxLines, pushed : BOOLEAN,
                              result : {"success", "failed"}]]
      /\ job'[b].sent = job[b].sent + 1 /\ job'[b].pc = job[b].pc
      /\ job'[b].result = job[b].result
      /\ \A c \in Builds \ {b} : job'[c] = job[c]
  <2> DEFINE n == job[b].sent + 1
             push == job[b].pc = "push"
  <2>1. n \in 0 .. MaxLines /\ push \in BOOLEAN
    BY <1>2, <1>3
  <2>2. job' = [job EXCEPT ![b].sent = n, ![b].pushed = push]
    BY <1>1
  <2> HIDE DEF n, push
  <2>3. job'[b].sent = n
    BY <1>1, <2>2 DEF TypeOK
  <2>4. job' \in [Builds -> [pc : WorkerStates, sent : 0 .. MaxLines, pushed : BOOLEAN,
                              result : {"success", "failed"}]]
    <3> DEFINE rec == [job[b] EXCEPT !.sent = n, !.pushed = push]
    <3>1. job[b] \in [pc : WorkerStates, sent : 0 .. MaxLines, pushed : BOOLEAN,
                      result : {"success", "failed"}]
      BY <1>1 DEF TypeOK
    <3>2. rec \in [pc : WorkerStates, sent : 0 .. MaxLines, pushed : BOOLEAN,
                   result : {"success", "failed"}]
      BY <2>1, <3>1
    <3>3. job' = [job EXCEPT ![b] = rec]
      BY <2>2
    <3> HIDE DEF rec
    <3> QED
      BY <1>1, <3>2, <3>3 DEF TypeOK
  <2>5. /\ job'[b].pc = job[b].pc /\ job'[b].result = job[b].result
        /\ \A c \in Builds \ {b} : job'[c] = job[c]
    BY <1>1, <2>2 DEF TypeOK
  <2> QED
    BY <2>3, <2>4, <2>5 DEF n
<1>5. TypeOK'
  BY <1>1, <1>2, <1>4, Published DEF TypeOK
<1>6. OnlyOf(b) /\ images \subseteq images'
  BY <1>1, <1>4 DEF OnlyOf
<1>7. ImageInv'
  BY <1>1, <1>6, ImagesKept
<1>8. ~Finished(b) /\ ~ended[b]
  BY <1>1 DEF WorkerInv, Streams, Finishing
<1>9. WorkerInv(b)'
  <2>1. job'[b].sent = stored'[b]
    BY <1>1, <1>3, <1>4
  <2> QED
    BY <1>1, <1>4, <1>8, <2>1 DEF WorkerInv, Finished, Streams, Finishing
<1>10. \A c \in Builds : WorkerInv(c)'
  BY <1>6, <1>9, OtherWorkers
<1>11. ASSUME NEW v \in Viewers PROVE ViewerInv(v)'
  <2> DEFINE t == view[v].task
  <2>1. t \in Builds /\ ViewerInv(v)
    BY <1>1 DEF IInv, TypeOK
  <2>2. CASE v \notin Subscribers(b) /\ t # b
    <3>1. view'[v] = view[v] /\ job'[t] = job[t]
      BY <1>1, <1>2, <1>4, <2>1, <2>2, Published
    <3> QED
      BY <1>1, <2>1, <3>1, ViewerKept DEF Finished
  <2>3. CASE v \notin Subscribers(b) /\ t = b
    <3>1. view'[v] = view[v] /\ view[v].pc \notin {"subscribed", "following"}
      BY <1>1, <1>2, <2>3, Published DEF Subscribers
    <3>2. \A x \in Nat, m \in Nat : Seamed(v, m, x) => Seamed(v, m, x)'
      BY <1>1, <3>1 DEF Seamed
    <3>3. \E x \in Nat, m \in Nat : Seamed(v, m, x)'
      BY <2>1, <3>2 DEF ViewerInv
    <3>4. Finished(t)' <=> Finished(t)
      BY <1>1, <3>1 DEF Finished
    <3>5. AllShown(v)' <=> AllShown(v)
      BY <1>1, <3>1 DEF AllShown
    <3> QED
      BY <2>1, <3>1, <3>3, <3>4, <3>5 DEF ViewerInv
  <2>4. CASE v \in Subscribers(b)
    <3>1. t = b /\ view[v].pc \in {"subscribed", "following"}
      BY <2>4 DEF Subscribers
    <3>2. /\ view'[v].pc = view[v].pc /\ view'[v].task = view[v].task
          /\ view'[v].finished = view[v].finished /\ view'[v].here = view[v].here
          /\ view'[v].shown = view[v].shown
          /\ view'[v].inbox = Append(view[v].inbox, job[b].sent + 1)
      BY <1>1, <1>2, <1>3, <2>4, Published
    <3>3. \A x : Awaits(v, x) => Awaits(v, x)'
      BY <1>1, <1>2, <1>3, <1>4, <1>8, <3>1, <3>2, AwaitsLine
    <3>4. \A x \in Nat, m \in Nat : Seamed(v, m, x) => Seamed(v, m, x)'
      BY <1>1, <3>2 DEF Seamed
    <3>5. Finished(t)' <=> Finished(t)
      BY <1>1, <3>2 DEF Finished
    <3>6. /\ view[v].pc = "subscribed" => view[v].shown = <<>> /\ \E x \in Nat : Awaits(v, x)'
          /\ view[v].pc = "following" /\ view[v].here =>
                \E x \in Nat, m \in Nat : Awaits(v, x)' /\ Seamed(v, m, x)'
          /\ \E x \in Nat, m \in Nat : Seamed(v, m, x)'
      BY <2>1, <3>3, <3>4 DEF ViewerInv
    <3> QED
      BY <2>1, <3>1, <3>2, <3>5, <3>6 DEF ViewerInv
  <2> QED
    BY <2>2, <2>3, <2>4 DEF Subscribers
<1> QED
  BY <1>5, <1>7, <1>10, <1>11 DEF IInv

\* The end comes after the last line.
LEMMA AwaitsEnd ==
  ASSUME TypeOK, NEW v \in Viewers, NEW x, NEW b, b = view[v].task, Awaits(v, x), ~ended[b],
         ended'[b] = TRUE, job'[b].sent = job[b].sent, view'[v].task = b,
         view'[v].inbox = Append(view[v].inbox, End)
  PROVE  Awaits(v, x)'
<1> DEFINE s == view[v].inbox
           last == job[b].sent
           t == view'[v].inbox
<1>1. b \in Builds /\ last \in Nat /\ MaxLines \in Nat
  BY TaskLogAssumption DEF TypeOK
<1>2. s \in Seq(0 .. MaxLines) /\ End \in 0 .. MaxLines
  BY <1>1, Viewed DEF End
<1>3. /\ Len(t) = Len(s) + 1 /\ Len(s) \in Nat /\ t[Len(s) + 1] = End
      /\ \A i \in 1 .. Len(s) : t[i] = s[i]
  BY <1>2, Appended
<1>4. x \in 0 .. last /\ Len(s) = last - x /\ \A i \in 1 .. Len(s) : s[i] = x + i
  BY DEF Awaits
<1> HIDE DEF s, t, last
<1>5. Len(t) = last - x + 1 /\ t[Len(t)] = End
  BY <1>1, <1>3, <1>4
<1>6. \A i \in 1 .. Len(t) - 1 : t[i] = x + i
  <2>1. Len(t) - 1 = Len(s)
    BY <1>3
  <2> QED
    BY <1>3, <1>4, <2>1
<1>7. job'[view'[v].task].sent = last /\ t = view'[v].inbox /\ ended'[view'[v].task]
  BY DEF last, t
<1> QED
  BY <1>4, <1>5, <1>6, <1>7 DEF Awaits

LEMMA PublishEndKept ==
  ASSUME IInv, NEW b \in Builds, PublishEnd(b)
  PROVE  IInv'
<1>1. /\ job[b].pc = "end" /\ Publish(b, End) /\ ended' = [ended EXCEPT ![b] = TRUE]
      /\ Goto(b, "done") /\ UNCHANGED <<row, images, stored, scratch>>
      /\ TypeOK /\ WorkerInv(b)
  BY DEF PublishEnd, IInv
<1>2. End \in 0 .. MaxLines
  BY TaskLogAssumption DEF End
<1>3. "done" \in WorkerStates
  BY DEF WorkerStates
<1>4. /\ job' \in [Builds -> [pc : WorkerStates, sent : 0 .. MaxLines, pushed : BOOLEAN,
                              result : {"success", "failed"}]]
      /\ job'[b].pc = "done" /\ job'[b].sent = job[b].sent
      /\ job'[b].result = job[b].result
      /\ \A c \in Builds \ {b} : job'[c] = job[c]
  BY <1>1, <1>3, GotoStep
<1>5. ended'[b] = TRUE /\ ~ended[b] /\ ended' \in [Builds -> BOOLEAN]
      /\ \A c \in Builds \ {b} : ended'[c] = ended[c]
  BY <1>1 DEF TypeOK, WorkerInv
<1>6. TypeOK'
  BY <1>1, <1>2, <1>4, <1>5, Published DEF TypeOK
<1>7. OnlyOf(b) /\ images \subseteq images'
  BY <1>1, <1>4, <1>5 DEF OnlyOf
<1>8. ImageInv'
  BY <1>1, <1>7, ImagesKept
<1>9. WorkerInv(b)'
  BY <1>1, <1>4, <1>5 DEF WorkerInv, Finished, Streams, Finishing
<1>10. \A c \in Builds : WorkerInv(c)'
  BY <1>7, <1>9, OtherWorkers
<1>11. ASSUME NEW v \in Viewers PROVE ViewerInv(v)'
  <2> DEFINE t == view[v].task
  <2>1. t \in Builds /\ ViewerInv(v)
    BY <1>1 DEF IInv, TypeOK
  <2>2. CASE v \notin Subscribers(b) /\ t # b
    <3>1. view'[v] = view[v] /\ job'[t] = job[t] /\ ended'[t] = ended[t]
      BY <1>1, <1>2, <1>4, <1>5, <2>1, <2>2, Published
    <3> QED
      BY <1>1, <2>1, <3>1, ViewerKept DEF Finished
  <2>3. CASE v \notin Subscribers(b) /\ t = b
    <3>1. view'[v] = view[v] /\ view[v].pc \notin {"subscribed", "following"}
      BY <1>1, <1>2, <2>3, Published DEF Subscribers
    <3>2. \A x \in Nat, m \in Nat : Seamed(v, m, x) => Seamed(v, m, x)'
      BY <1>1, <3>1 DEF Seamed
    <3>3. \E x \in Nat, m \in Nat : Seamed(v, m, x)'
      BY <2>1, <3>2 DEF ViewerInv
    <3>4. Finished(t)' <=> Finished(t)
      BY <1>1, <3>1 DEF Finished
    <3>5. AllShown(v)' <=> AllShown(v)
      BY <1>1, <3>1 DEF AllShown
    <3> QED
      BY <2>1, <3>1, <3>3, <3>4, <3>5 DEF ViewerInv
  <2>4. CASE v \in Subscribers(b)
    <3>1. t = b /\ view[v].pc \in {"subscribed", "following"}
      BY <2>4 DEF Subscribers
    <3>2. /\ view'[v].pc = view[v].pc /\ view'[v].task = view[v].task
          /\ view'[v].finished = view[v].finished /\ view'[v].here = view[v].here
          /\ view'[v].shown = view[v].shown
          /\ view'[v].inbox = Append(view[v].inbox, End)
      BY <1>1, <1>2, <2>4, Published
    <3>3. \A x : Awaits(v, x) => Awaits(v, x)'
      BY <1>1, <1>4, <1>5, <3>1, <3>2, AwaitsEnd
    <3>4. \A x \in Nat, m \in Nat : Seamed(v, m, x) => Seamed(v, m, x)'
      BY <1>1, <3>2 DEF Seamed
    <3>5. Finished(t)' <=> Finished(t)
      BY <1>1, <3>2 DEF Finished
    <3>6. /\ view[v].pc = "subscribed" => view[v].shown = <<>> /\ \E x \in Nat : Awaits(v, x)'
          /\ view[v].pc = "following" /\ view[v].here =>
                \E x \in Nat, m \in Nat : Awaits(v, x)' /\ Seamed(v, m, x)'
          /\ \E x \in Nat, m \in Nat : Seamed(v, m, x)'
      BY <2>1, <3>3, <3>4 DEF ViewerInv
    <3> QED
      BY <2>1, <3>1, <3>2, <3>5, <3>6 DEF ViewerInv
  <2> QED
    BY <2>2, <2>3, <2>4 DEF Subscribers
<1> QED
  BY <1>6, <1>8, <1>10, <1>11 DEF IInv

-----------------------------------------------------------------------------
(* The viewers' steps.                                                     *)

\* A step of one viewer touches nothing else.
LEMMA ViewerStep ==
  ASSUME IInv, NEW v \in Viewers, UNCHANGED <<row, images, stored, ended, scratch, job>>,
         NEW w, w \in [pc : ViewerStates, task : Builds, finished : BOOLEAN,
                       here : BOOLEAN, inbox : Seq(0 .. MaxLines),
                       shown : Seq(1 .. MaxLines)],
         view' = [view EXCEPT ![v] = w], ViewerInv(v)'
  PROVE  IInv'
<1>1. TypeOK'
  BY DEF IInv, TypeOK
<1>2. \A b \in Builds : WorkerInv(b)'
  BY DEF IInv, WorkerInv, Finished
<1>3. ImageInv'
  BY DEF IInv, ImageInv
<1>4. ASSUME NEW u \in Viewers, u # v PROVE ViewerInv(u)'
  <2>1. view'[u] = view[u] /\ view[u].task \in Builds /\ ViewerInv(u) /\ TypeOK
    BY <1>4 DEF IInv, TypeOK
  <2> QED
    BY <2>1, ViewerKept DEF Finished
<1> QED
  BY <1>1, <1>2, <1>3, <1>4 DEF IInv

\* A viewer of whom only the place in the handler changes.
LEMMA SameLog ==
  ASSUME TypeOK, NEW v \in Viewers, view'[v].task = view[v].task,
         UNCHANGED <<row, stored, ended, job>>
  PROVE  /\ view'[v].inbox = view[v].inbox => \A x : Awaits(v, x) => Awaits(v, x)'
         /\ view'[v].shown = view[v].shown =>
               /\ \A m, x : Seamed(v, m, x) => Seamed(v, m, x)'
               /\ AllShown(v) => AllShown(v)'
         /\ Finished(view[v].task) <=> Finished(view[v].task)'
BY DEF Awaits, Seamed, AllShown, Finished

LEMMA GetTaskKept ==
  ASSUME IInv, NEW v \in Viewers, GetTask(v)
  PROVE  IInv'
<1> DEFINE known == row[view[v].task]
           pc == IF known = "none" THEN "notfound" ELSE "known"
           fin == known \in {"success", "failed"}
           w == [view[v] EXCEPT !.pc = pc, !.finished = fin]
<1>1. /\ view[v].pc = "new" /\ UNCHANGED <<row, images, stored, ended, scratch, job>>
      /\ view' = [view EXCEPT ![v].pc = pc, ![v].finished = fin] /\ TypeOK /\ ViewerInv(v)
  BY DEF GetTask, IInv
<1>2. pc \in {"notfound", "known"} /\ pc \in ViewerStates /\ fin \in BOOLEAN
      /\ (fin => Finished(view[v].task))
  BY DEF ViewerStates, Finished
<1> HIDE DEF pc, fin
<1>3. view' = [view EXCEPT ![v] = w]
  BY <1>1
<1>4. w \in [pc : ViewerStates, task : Builds, finished : BOOLEAN, here : BOOLEAN,
             inbox : Seq(0 .. MaxLines), shown : Seq(1 .. MaxLines)]
  BY <1>1, <1>2, Viewed
<1>5. /\ w.pc = pc /\ w.finished = fin /\ w.task = view[v].task
      /\ w.inbox = view[v].inbox /\ w.shown = view[v].shown
  BY <1>1, Viewed
<1>6. view'[v] = w
  BY <1>1, <1>3 DEF TypeOK
<1> HIDE DEF w
<1>7. \E x \in Nat, m \in Nat : Seamed(v, m, x)'
  BY <1>1, <1>5, <1>6, SameLog DEF ViewerInv
<1>8. view'[v].finished => Finished(view[v].task)'
  BY <1>1, <1>2, <1>5, <1>6, SameLog
<1>9. ViewerInv(v)'
  BY <1>1, <1>2, <1>5, <1>6, <1>7, <1>8 DEF ViewerInv
<1> QED
  BY <1>1, <1>3, <1>4, <1>9, ViewerStep

\* From the subscription on, the inbox misses no line that is broadcast.
LEMMA SubscribeKept ==
  ASSUME IInv, NEW v \in Viewers, Subscribe(v)
  PROVE  IInv'
<1> DEFINE w == [view[v] EXCEPT !.pc = "subscribed"]
           b == view[v].task
<1>1. /\ view[v].pc = "known" /\ UNCHANGED <<row, images, stored, ended, scratch, job>>
      /\ view' = [view EXCEPT ![v].pc = "subscribed"] /\ TypeOK /\ ViewerInv(v)
  BY DEF Subscribe, Become, IInv
<1>2. view' = [view EXCEPT ![v] = w]
  BY <1>1
<1>3. w \in [pc : ViewerStates, task : Builds, finished : BOOLEAN, here : BOOLEAN,
             inbox : Seq(0 .. MaxLines), shown : Seq(1 .. MaxLines)]
  BY <1>1, Viewed DEF ViewerStates
<1>4. /\ w.pc = "subscribed" /\ w.finished = view[v].finished /\ w.task = b
      /\ w.inbox = view[v].inbox /\ w.shown = view[v].shown
  BY <1>1, Viewed
<1>5. view'[v] = w
  BY <1>1, <1>2 DEF TypeOK
<1> HIDE DEF w
<1>6. \E x \in Nat, m \in Nat : Seamed(v, m, x)'
  BY <1>1, <1>4, <1>5, SameLog DEF ViewerInv
<1>7. view'[v].finished => Finished(view[v].task)'
  BY <1>1, <1>4, <1>5, SameLog DEF ViewerInv
<1>8. Awaits(v, job[b].sent)
  <2>1. job[b].sent \in Nat
    BY <1>1 DEF TypeOK
  <2>2. view[v].inbox = <<>> /\ Len(<<>>) = 0
    BY <1>1 DEF ViewerInv
  <2>3. job[b].sent \in 0 .. job[b].sent /\ job[b].sent - job[b].sent = 0
    BY <2>1
  <2>4. \A i \in 1 .. 0 : FALSE
    OBVIOUS
  <2> QED
    BY <2>2, <2>3, <2>4 DEF Awaits
<1>9. \E x \in Nat : Awaits(v, x)'
  <2>1. job[b].sent \in Nat
    BY <1>1 DEF TypeOK
  <2> QED
    BY <1>1, <1>4, <1>5, <1>8, <2>1, SameLog
<1>10. ViewerInv(v)'
  BY <1>1, <1>4, <1>5, <1>6, <1>7, <1>9 DEF ViewerInv
<1> QED
  BY <1>1, <1>2, <1>3, <1>10, ViewerStep

\* The stored lines, the first of which are older than the inbox.
LEMMA SendStoredKept ==
  ASSUME IInv, NEW v \in Viewers, SendStored(v)
  PROVE  IInv'
<1> DEFINE b == view[v].task
<1>0. PICK n \in Nat : n = stored[b]
  <2>1. b \in Builds /\ MaxLines \in Nat
    BY TaskLogAssumption DEF IInv, TypeOK
  <2> QED
    BY <2>1 DEF IInv, TypeOK
<1> DEFINE closes == view[v].finished \/ (~view[v].here /\ n > 0)
           shown == IF view[v].here THEN Upto(n) ELSE view[v].shown
           inbox == IF closes THEN <<>> ELSE view[v].inbox
           pc == IF closes THEN "closed" ELSE "following"
           w == [view[v] EXCEPT !.shown = shown, !.inbox = inbox, !.pc = pc]
<1>1. /\ view[v].pc = "subscribed" /\ UNCHANGED <<row, images, stored, ended, scratch, job>>
      /\ view' = [view EXCEPT ![v].shown = shown, ![v].inbox = inbox, ![v].pc = pc]
      /\ TypeOK /\ ViewerInv(v)
  BY <1>0 DEF SendStored, IInv
<1>2. /\ b \in Builds /\ n \in 0 .. MaxLines /\ n \in Nat /\ MaxLines \in Nat
      /\ job[b].sent \in Nat /\ job[b].sent <= n /\ view[v].here \in BOOLEAN
      /\ view[v].finished \in BOOLEAN
  <2>1. b \in Builds
    BY <1>1 DEF TypeOK
  <2>2. WorkerInv(b)
    BY <2>1 DEF IInv
  <2>3. job[b].sent \in Nat /\ n \in 0 .. MaxLines /\ MaxLines \in Nat
    BY <1>0, <1>1, <2>1, TaskLogAssumption DEF TypeOK
  <2> QED
    BY <1>0, <1>1, <2>1, <2>2, <2>3 DEF TypeOK, WorkerInv
<1>3. Upto(n) \in Seq(1 .. MaxLines) /\ Len(Upto(n)) = n /\ DOMAIN Upto(n) = 1 .. n
      /\ \A i \in 1 .. n : Upto(n)[i] = i
  <2>1. \A i \in 1 .. n : i \in 1 .. MaxLines
    BY <1>2
  <2> QED
    BY <1>2, <2>1 DEF Upto
<1>4. /\ shown \in Seq(1 .. MaxLines) /\ inbox \in Seq(0 .. MaxLines) /\ pc \in ViewerStates
  <2>1. view[v].shown \in Seq(1 .. MaxLines) /\ view[v].inbox \in Seq(0 .. MaxLines)
    BY <1>1, Viewed
  <2>2. <<>> \in Seq(0 .. MaxLines)
    OBVIOUS
  <2> HIDE DEF closes
  <2>3. shown \in Seq(1 .. MaxLines)
    BY <1>3, <2>1
  <2>4. inbox \in Seq(0 .. MaxLines)
    BY <2>1, <2>2
  <2>5. pc \in ViewerStates
    BY DEF ViewerStates
  <2> QED
    BY <2>3, <2>4, <2>5
<1>5. /\ view[v].here => shown = Upto(n)
      /\ ~view[v].here => shown = view[v].shown
      /\ closes => inbox = <<>> /\ pc = "closed"
      /\ ~closes => inbox = view[v].inbox /\ pc = "following"
  OBVIOUS
<1>6. PICK x \in Nat : Awaits(v, x)
  BY <1>1 DEF ViewerInv
<1>7. x <= n
  BY <1>0, <1>2, <1>6 DEF Awaits
<1>8. closes /\ view[v].here => view[v].finished
  BY <1>2
<1> HIDE DEF shown, inbox, pc, closes
<1>9. view' = [view EXCEPT ![v] = w]
  BY <1>1
<1>10. w \in [pc : ViewerStates, task : Builds, finished : BOOLEAN, here : BOOLEAN,
             inbox : Seq(0 .. MaxLines), shown : Seq(1 .. MaxLines)]
  BY <1>1, <1>4, Viewed
<1>11. /\ w.pc = pc /\ w.finished = view[v].finished /\ w.task = b
       /\ w.inbox = inbox /\ w.shown = shown /\ w.here = view[v].here
  BY <1>1, Viewed
<1>12. view'[v] = w
  BY <1>1, <1>9 DEF TypeOK
<1> HIDE DEF w
<1>13. view[v].here => Seamed(v, n, x)'
  <2> SUFFICES ASSUME view[v].here PROVE Seamed(v, n, x)'
    OBVIOUS
  <2>1. view'[v].shown = Upto(n) /\ stored'[view'[v].task] = n
    BY <1>0, <1>1, <1>5, <1>11, <1>12
  <2> DEFINE u == Upto(n)
  <2>2. Len(u) = n /\ \A i \in 1 .. n : u[i] = i
    BY <1>3
  <2>3. n \in Nat /\ view'[v].shown = u
    BY <1>2, <2>1
  <2> HIDE DEF u
  <2>4. n \in 0 .. n /\ n <= n /\ 0 <= x - (n - n) /\ x - (n - n) <= n
    BY <1>7, <2>3
  <2>5. \A i \in n + 1 .. n : u[i] = x - n + i
    BY <2>3
  <2> QED
    BY <2>1, <2>2, <2>3, <2>4, <2>5 DEF Seamed
<1>14. ~view[v].here => \E y \in Nat, m \in Nat : Seamed(v, m, y)'
  BY <1>1, <1>5, <1>11, <1>12, SameLog DEF ViewerInv
<1>15. \E y \in Nat, m \in Nat : Seamed(v, m, y)'
  <2>1. n \in Nat
    BY <1>2
  <2>2. CASE view[v].here
    BY <1>13, <2>1, <2>2
  <2> QED
    BY <1>14, <2>2
<1>16. view'[v].finished => Finished(view[v].task)'
  BY <1>1, <1>11, <1>12, SameLog DEF ViewerInv
<1>17. view'[v].pc = "following" /\ view'[v].here => Awaits(v, x)' /\ Seamed(v, n, x)'
  <2> SUFFICES ASSUME view'[v].pc = "following", view'[v].here
               PROVE  Awaits(v, x)' /\ Seamed(v, n, x)'
    OBVIOUS
  <2>1. view[v].here /\ ~closes
    BY <1>5, <1>11, <1>12
  <2>2. view'[v].inbox = view[v].inbox
    BY <1>5, <1>11, <1>12, <2>1
  <2> QED
    BY <1>1, <1>6, <1>11, <1>12, <1>13, <2>1, <2>2, SameLog
<1>18. view'[v].pc = "closed" /\ view'[v].here => Finished(view[v].task)' /\ AllShown(v)'
  <2> SUFFICES ASSUME view'[v].pc = "closed", view'[v].here
               PROVE  Finished(view[v].task)' /\ AllShown(v)'
    OBVIOUS
  <2>1. view[v].here /\ closes
    BY <1>5, <1>11, <1>12
  <2>2. Finished(view[v].task)'
    BY <1>8, <1>11, <1>12, <1>16, <2>1
  <2>3. view'[v].shown = Upto(n) /\ stored'[view'[v].task] = n
    BY <1>0, <1>1, <1>5, <1>11, <1>12, <2>1
  <2>4. {Upto(n)[i] : i \in DOMAIN Upto(n)} = 1 .. n
    BY <1>3
  <2> QED
    BY <2>2, <2>3, <2>4 DEF AllShown
<1>19. view'[v].pc \in {"following", "closed"}
  BY <1>5, <1>11, <1>12
<1>20. view'[v].pc = "following" /\ view'[v].here =>
          \E y \in Nat, m \in Nat : Awaits(v, y)' /\ Seamed(v, m, y)'
  <2>1. n \in Nat
    BY <1>2
  <2> QED
    BY <1>17, <2>1
<1>21. ViewerInv(v)'
  BY <1>15, <1>16, <1>18, <1>19, <1>20 DEF ViewerInv
<1> QED
  BY <1>1, <1>9, <1>10, <1>21, ViewerStep

\* What is shown up to the last line of the log is all of it.
LEMMA SeamCovers ==
  ASSUME TypeOK, NEW v \in Viewers, NEW m \in Nat, NEW x \in Nat, Seamed(v, m, x),
         x = stored[view[v].task]
  PROVE  AllShown(v)
<1> DEFINE s == view[v].shown
           n == Len(s)
<1>1. s \in Seq(1 .. MaxLines) /\ n \in Nat /\ DOMAIN s = 1 .. n
  BY Viewed
<1>2. /\ m \in 0 .. n /\ m <= x /\ 0 <= x - (n - m) /\ x - (n - m) <= m
      /\ \A i \in 1 .. m : s[i] = i
      /\ \A i \in m + 1 .. n : s[i] = x - n + i
  BY DEF Seamed
<1> HIDE DEF s, n
<1>3. ASSUME NEW i \in 1 .. n PROVE s[i] \in 1 .. x
  <2>1. CASE i <= m
    BY <1>1, <1>2, <2>1
  <2>2. CASE i > m
    <3>1. i \in m + 1 .. n
      BY <1>1, <2>2
    <3>2. s[i] = x - n + i
      BY <1>2, <3>1
    <3> QED
      BY <1>1, <1>2, <3>1, <3>2
  <2> QED
    BY <1>1, <2>1, <2>2
<1>4. ASSUME NEW j \in 1 .. x PROVE \E i \in 1 .. n : s[i] = j
  <2>1. CASE j <= m
    <3>1. j \in 1 .. n /\ j \in 1 .. m
      BY <1>1, <1>2, <2>1
    <3> QED
      BY <1>2, <3>1
  <2>2. CASE j > m
    <3> DEFINE i == j - x + n
    <3>1. i \in m + 1 .. n /\ x - n + i = j /\ i \in 1 .. n
      <4>1. j \in Int /\ x \in Int /\ n \in Int /\ m \in Int /\ j <= x /\ m + 1 <= j
        BY <1>1, <2>2
      <4>2. n >= x
        BY <1>2, <4>1
      <4> QED
        BY <4>1, <4>2
    <3>2. s[i] = x - n + i
      BY <1>2, <3>1
    <3> QED
      BY <3>1, <3>2
  <2> QED
    BY <2>1, <2>2
<1>5. {s[i] : i \in DOMAIN s} = 1 .. x
  BY <1>1, <1>3, <1>4
<1> QED
  BY <1>5 DEF AllShown, s

\* The first message of an inbox: the next line, or the end after the last.
LEMMA NextMessage ==
  ASSUME IInv, NEW v \in Viewers, NEW x \in Nat, Awaits(v, x), view[v].inbox # <<>>
  PROVE  LET message == Head(view[v].inbox)
             rest == Tail(view[v].inbox)
             b == view[v].task
             last == job[b].sent
         IN  /\ message = End => Finished(b) /\ x = stored[b]
             /\ message # End =>
                   /\ message = x + 1 /\ x + 1 \in 0 .. last
                   /\ \/ /\ Len(rest) = last - (x + 1)
                         /\ \A i \in 1 .. Len(rest) : rest[i] = x + 1 + i
                      \/ /\ Len(rest) = last - (x + 1) + 1 /\ ended[b]
                         /\ rest[Len(rest)] = End
                         /\ \A i \in 1 .. Len(rest) - 1 : rest[i] = x + 1 + i
<1> DEFINE s == view[v].inbox
           rest == Tail(s)
           b == view[v].task
           last == job[b].sent
           n == Len(s)
<1>1. TypeOK /\ b \in Builds /\ WorkerInv(b)
  BY DEF IInv, TypeOK
<1>2. s \in Seq(0 .. MaxLines) /\ n \in Nat /\ last \in Nat
  BY <1>1, Viewed DEF TypeOK
<1>3. Head(s) = s[1] /\ Len(rest) = n - 1 /\ n >= 1 /\ \A i \in 1 .. n - 1 : rest[i] = s[i + 1]
  <2> HIDE DEF s
  <2>1. s # <<>>
    BY DEF s
  <2> QED
    BY <1>2, <2>1
<1>4. /\ x \in 0 .. last
      /\ \/ n = last - x /\ \A i \in 1 .. n : s[i] = x + i
         \/ /\ n = last - x + 1 /\ ended[b] /\ s[n] = End
            /\ \A i \in 1 .. n - 1 : s[i] = x + i
  BY DEF Awaits
<1>5. ended[b] => Finished(b) /\ last = stored[b]
  BY <1>1 DEF WorkerInv, Streams
<1> HIDE DEF rest, n, last
<1>6. CASE n = last - x /\ \A i \in 1 .. n : s[i] = x + i
  <2>1. s[1] = x + 1
    BY <1>2, <1>3, <1>6
  <2>2. Head(s) = x + 1 /\ x + 1 # End
    BY <1>3, <2>1 DEF End
  <2>3. x + 1 \in 0 .. last /\ Len(rest) = last - (x + 1)
    BY <1>2, <1>3, <1>4, <1>6
  <2>4. \A i \in 1 .. Len(rest) : rest[i] = x + 1 + i
    <3> SUFFICES ASSUME NEW i \in 1 .. Len(rest) PROVE rest[i] = x + 1 + i
      OBVIOUS
    <3>1. i \in 1 .. n - 1 /\ i + 1 \in 1 .. n
      BY <1>2, <1>3
    <3>2. rest[i] = s[i + 1] /\ s[i + 1] = x + (i + 1)
      BY <1>3, <1>6, <3>1
    <3> QED
      BY <3>1, <3>2
  <2> QED
    BY <2>2, <2>3, <2>4 DEF rest, last
<1>7. CASE /\ n = last - x + 1 /\ ended[b] /\ s[n] = End
           /\ \A i \in 1 .. n - 1 : s[i] = x + i
  <2>1. CASE n = 1
    <3>1. Head(s) = End /\ x = last
      BY <1>2, <1>3, <1>4, <1>7, <2>1
    <3> QED
      BY <1>5, <1>7, <3>1
  <2>2. CASE n # 1
    <3>1. s[1] = x + 1
      BY <1>2, <1>3, <1>7, <2>2
    <3>2. Head(s) = x + 1 /\ x + 1 # End
      BY <1>3, <3>1 DEF End
    <3>3. x + 1 \in 0 .. last /\ Len(rest) = last - (x + 1) + 1
      BY <1>2, <1>3, <1>4, <1>7, <2>2
    <3>4. rest[Len(rest)] = End
      <4>1. n - 1 \in 1 .. n - 1 /\ (n - 1) + 1 = n
        BY <1>2, <1>3, <2>2
      <4> QED
        BY <1>3, <1>7, <4>1
    <3>5. \A i \in 1 .. Len(rest) - 1 : rest[i] = x + 1 + i
      <4> SUFFICES ASSUME NEW i \in 1 .. Len(rest) - 1 PROVE rest[i] = x + 1 + i
        OBVIOUS
      <4>1. i \in 1 .. n - 1 /\ i + 1 \in 1 .. n - 1
        BY <1>2, <1>3
      <4>2. rest[i] = s[i + 1] /\ s[i + 1] = x + (i + 1)
        BY <1>3, <1>7, <4>1
      <4> QED
        BY <4>1, <4>2
    <3> QED
      BY <1>7, <3>2, <3>3, <3>4, <3>5 DEF rest, last
  <2> QED
    BY <2>1, <2>2
<1> QED
  BY <1>4, <1>6, <1>7

\* A line more, shown after the last.
LEMMA SeamGrows ==
  ASSUME TypeOK, NEW v \in Viewers, NEW m \in Nat, NEW x \in Nat, Seamed(v, m, x),
         view'[v].shown = Append(view[v].shown, x + 1),
         stored'[view'[v].task] = stored[view[v].task]
  PROVE  Seamed(v, m, x + 1)'
<1> DEFINE s == view[v].shown
           n == Len(s)
<1>1. s \in Seq(1 .. MaxLines) /\ n \in Nat
  BY Viewed
<1>2. /\ m \in 0 .. n /\ m <= stored[view[v].task] /\ 0 <= x - (n - m) /\ x - (n - m) <= m
      /\ \A i \in 1 .. m : s[i] = i
      /\ \A i \in m + 1 .. n : s[i] = x - n + i
  BY DEF Seamed
<1>3. PICK t : t = view'[v].shown /\ t = Append(s, x + 1)
  OBVIOUS
<1>4. Len(t) = n + 1 /\ t[n + 1] = x + 1 /\ \A i \in 1 .. n : t[i] = s[i]
  <2> HIDE DEF s
  <2> DEFINE u == Append(s, x + 1)
  <2>1. Len(u) = n + 1 /\ u[n + 1] = x + 1 /\ \A i \in 1 .. n : u[i] = s[i]
    BY <1>1
  <2> HIDE DEF u
  <2>2. t = u
    BY <1>3 DEF u
  <2> QED
    BY <2>1, <2>2
<1> HIDE DEF s, n
<1>5. PICK k \in Nat : k = n + 1
  BY <1>1
<1>6. \A i \in 1 .. m : t[i] = i
  <2> SUFFICES ASSUME NEW i \in 1 .. m PROVE t[i] = i
    OBVIOUS
  <2>1. i \in 1 .. n
    BY <1>1, <1>2
  <2> QED
    BY <1>2, <1>4, <2>1
<1>7. \A i \in m + 1 .. k : t[i] = x + 1 - k + i
  <2> SUFFICES ASSUME NEW i \in m + 1 .. k PROVE t[i] = x + 1 - k + i
    OBVIOUS
  <2>1. CASE i = k
    BY <1>1, <1>4, <1>5, <2>1
  <2>2. CASE i # k
    <3>1. i \in 1 .. n /\ i \in m + 1 .. n
      BY <1>1, <1>5, <2>2
    <3>2. t[i] = x - n + i
      BY <1>2, <1>4, <3>1
    <3> QED
      BY <1>1, <1>5, <3>1, <3>2
  <2> QED
    BY <2>1, <2>2
<1>8. Len(t) = k /\ m \in 0 .. k /\ 0 <= x + 1 - (k - m) /\ x + 1 - (k - m) <= m
  BY <1>1, <1>2, <1>4, <1>5
<1>9. view'[v].shown = t /\ m <= stored'[view'[v].task]
  BY <1>2, <1>3
<1>10. PICK y \in Nat : y = x + 1
  OBVIOUS
<1>11. /\ 0 <= y - (k - m) /\ y - (k - m) <= m /\ \A i \in m + 1 .. k : t[i] = y - k + i
  BY <1>7, <1>8, <1>10
<1>12. Seamed(v, m, y)'
  BY <1>6, <1>8, <1>9, <1>11 DEF Seamed
<1> QED
  BY <1>10, <1>12

\* The parts of a queue that is not empty.
LEMMA HeadAndRest ==
  ASSUME NEW S, NEW s \in Seq(S), s # <<>>
  PROVE  Head(s) \in S /\ Tail(s) \in Seq(S)
OBVIOUS

\* A message of the channel.
LEMMA FollowKept ==
  ASSUME IInv, NEW v \in Viewers, Follow(v)
  PROVE  IInv'
<1> DEFINE b == view[v].task
           message == Head(view[v].inbox)
           sends == message # End /\ view[v].here
           pc == IF sends THEN view[v].pc ELSE "closed"
           inbox == IF sends THEN Tail(view[v].inbox) ELSE <<>>
           shown == IF sends THEN Append(view[v].shown, message) ELSE view[v].shown
           w == [view[v] EXCEPT !.pc = pc, !.inbox = inbox, !.shown = shown]
<1>1. /\ view[v].pc = "following" /\ view[v].inbox # <<>>
      /\ UNCHANGED <<row, images, stored, ended, scratch, job>>
      /\ view' = [view EXCEPT ![v].pc = pc, ![v].inbox = inbox, ![v].shown = shown]
      /\ TypeOK /\ ViewerInv(v)
  BY DEF Follow, IInv
<1>2. /\ view[v].inbox \in Seq(0 .. MaxLines) /\ view[v].shown \in Seq(1 .. MaxLines)
      /\ view[v].here \in BOOLEAN
  BY <1>1, Viewed
<1>3. message \in 0 .. MaxLines /\ Tail(view[v].inbox) \in Seq(0 .. MaxLines)
  <2> DEFINE s == view[v].inbox
  <2>1. s \in Seq(0 .. MaxLines) /\ s # <<>>
    BY <1>1, <1>2
  <2> HIDE DEF s
  <2>2. Head(s) \in 0 .. MaxLines /\ Tail(s) \in Seq(0 .. MaxLines)
    BY <2>1, HeadAndRest
  <2> QED
    BY <2>2 DEF s
<1>4. shown \in Seq(1 .. MaxLines)
  <2>1. message # End => message \in 1 .. MaxLines
    BY <1>3, TaskLogAssumption DEF End
  <2> HIDE DEF message
  <2>2. message # End => Append(view[v].shown, message) \in Seq(1 .. MaxLines)
    BY <1>2, <2>1
  <2> QED
    BY <1>2, <2>2
<1>5. inbox \in Seq(0 .. MaxLines) /\ pc \in {"following", "closed"} /\ pc \in ViewerStates
  <2>1. <<>> \in Seq(0 .. MaxLines)
    OBVIOUS
  <2>2. pc \in {"following", "closed"}
    BY <1>1
  <2>3. inbox \in Seq(0 .. MaxLines)
    BY <1>3, <2>1
  <2> QED
    BY <2>2, <2>3 DEF ViewerStates
<1>6. /\ sends => /\ pc = "following" /\ inbox = Tail(view[v].inbox)
                  /\ shown = Append(view[v].shown, message)
      /\ ~sends => pc = "closed" /\ inbox = <<>> /\ shown = view[v].shown
      /\ ~sends /\ view[v].here => message = End
      /\ sends => view[v].here /\ message # End
  BY <1>1
<1> HIDE DEF pc, inbox, shown, sends, message
<1>7. view' = [view EXCEPT ![v] = w]
  BY <1>1
<1>8. w \in [pc : ViewerStates, task : Builds, finished : BOOLEAN, here : BOOLEAN,
             inbox : Seq(0 .. MaxLines), shown : Seq(1 .. MaxLines)]
  BY <1>1, <1>4, <1>5, Viewed
<1>9. /\ w.pc = pc /\ w.finished = view[v].finished /\ w.task = b
      /\ w.inbox = inbox /\ w.shown = shown /\ w.here = view[v].here
  BY <1>1, Viewed
<1>10. view'[v] = w
  BY <1>1, <1>7 DEF TypeOK
<1> HIDE DEF w
<1>11. view'[v].finished => Finished(view[v].task)'
  BY <1>1, <1>9, <1>10, SameLog DEF ViewerInv
<1>12. ASSUME sends PROVE ViewerInv(v)'
  <2>1. PICK x \in Nat, m \in Nat : Awaits(v, x) /\ Seamed(v, m, x)
    BY <1>1, <1>6, <1>12 DEF ViewerInv
  <2>2. /\ message = x + 1 /\ x + 1 \in 0 .. job[b].sent
        /\ \/ /\ Len(inbox) = job[b].sent - (x + 1)
              /\ \A i \in 1 .. Len(inbox) : inbox[i] = x + 1 + i
           \/ /\ Len(inbox) = job[b].sent - (x + 1) + 1 /\ ended[b]
              /\ inbox[Len(inbox)] = End
              /\ \A i \in 1 .. Len(inbox) - 1 : inbox[i] = x + 1 + i
    <3>1. message # End /\ inbox = Tail(view[v].inbox)
      BY <1>6, <1>12
    <3>2. /\ message = x + 1 /\ x + 1 \in 0 .. job[b].sent
          /\ \/ /\ Len(Tail(view[v].inbox)) = job[b].sent - (x + 1)
                /\ \A i \in 1 .. Len(Tail(view[v].inbox)) : Tail(view[v].inbox)[i] = x + 1 + i
             \/ /\ Len(Tail(view[v].inbox)) = job[b].sent - (x + 1) + 1 /\ ended[b]
                /\ Tail(view[v].inbox)[Len(Tail(view[v].inbox))] = End
                /\ \A i \in 1 .. Len(Tail(view[v].inbox)) - 1 :
                      Tail(view[v].inbox)[i] = x + 1 + i
      BY <1>1, <2>1, <3>1, NextMessage, Zenon DEF message
    <3> QED
      BY <3>1, <3>2, Zenon
  <2>3. Awaits(v, x + 1)'
    <3>1. view'[v].inbox = inbox /\ view'[v].task = b /\ job' = job /\ ended' = ended
      BY <1>1, <1>9, <1>10
    <3> HIDE DEF b
    <3> QED
      BY <2>2, <3>1 DEF Awaits
  <2>4. Seamed(v, m, x + 1)'
    <3>1. view'[v].shown = Append(view[v].shown, x + 1)
          /\ stored'[view'[v].task] = stored[view[v].task]
      BY <1>1, <1>6, <1>9, <1>10, <1>12, <2>2
    <3> QED
      BY <1>1, <2>1, <3>1, SeamGrows
  <2>5. x + 1 \in Nat
    OBVIOUS
  <2>6. view'[v].pc = "following"
    BY <1>6, <1>9, <1>10, <1>12
  <2>7. \E y \in Nat, k \in Nat : Awaits(v, y)' /\ Seamed(v, k, y)'
    BY <2>3, <2>4, <2>5
  <2>8. \E y \in Nat, k \in Nat : Seamed(v, k, y)'
    BY <2>7
  <2> QED
    BY <1>11, <2>6, <2>7, <2>8 DEF ViewerInv
<1>13. ASSUME ~sends PROVE ViewerInv(v)'
  <2>1. view'[v].pc = "closed" /\ view'[v].shown = view[v].shown
        /\ view'[v].here = view[v].here /\ view'[v].task = view[v].task
    BY <1>6, <1>9, <1>10, <1>13
  <2>2. \E y \in Nat, k \in Nat : Seamed(v, k, y)'
    BY <1>1, <2>1, SameLog DEF ViewerInv
  <2>3. view[v].here => Finished(view[v].task) /\ AllShown(v)
    <3> SUFFICES ASSUME view[v].here PROVE Finished(view[v].task) /\ AllShown(v)
      OBVIOUS
    <3>1. PICK x \in Nat, m \in Nat : Awaits(v, x) /\ Seamed(v, m, x)
      BY <1>1 DEF ViewerInv
    <3>2. Finished(b) /\ x = stored[b]
      BY <1>1, <1>6, <1>13, <3>1, NextMessage DEF message
    <3> QED
      BY <1>1, <3>1, <3>2, SeamCovers
  <2>4. view'[v].here => Finished(view[v].task)' /\ AllShown(v)'
    BY <1>1, <2>1, <2>3, SameLog
  <2> QED
    BY <1>11, <2>1, <2>2, <2>4 DEF ViewerInv
<1>14. ViewerInv(v)'
  BY <1>12, <1>13
<1> QED
  BY <1>1, <1>7, <1>8, <1>14, ViewerStep

\* The client goes.
LEMMA LeaveKept ==
  ASSUME IInv, NEW v \in Viewers, Leave(v)
  PROVE  IInv'
<1> DEFINE w == [view[v] EXCEPT !.here = FALSE]
<1>1. /\ view[v].pc \in {"subscribed", "following"}
      /\ UNCHANGED <<row, images, stored, ended, scratch, job>>
      /\ view' = [view EXCEPT ![v].here = FALSE] /\ TypeOK /\ ViewerInv(v)
  BY DEF Leave, IInv
<1>2. view' = [view EXCEPT ![v] = w]
  BY <1>1
<1>3. w \in [pc : ViewerStates, task : Builds, finished : BOOLEAN, here : BOOLEAN,
             inbox : Seq(0 .. MaxLines), shown : Seq(1 .. MaxLines)]
  BY <1>1, Viewed
<1>4. /\ w.pc = view[v].pc /\ w.finished = view[v].finished /\ w.task = view[v].task
      /\ w.inbox = view[v].inbox /\ w.shown = view[v].shown /\ w.here = FALSE
  BY <1>1, Viewed
<1>5. view'[v] = w
  BY <1>1, <1>2 DEF TypeOK
<1> HIDE DEF w
<1>6. \E x \in Nat, m \in Nat : Seamed(v, m, x)'
  BY <1>1, <1>4, <1>5, SameLog DEF ViewerInv
<1>7. view'[v].finished => Finished(view[v].task)'
  BY <1>1, <1>4, <1>5, SameLog DEF ViewerInv
<1>8. view'[v].pc = "subscribed" => \E x \in Nat : Awaits(v, x)'
  BY <1>1, <1>4, <1>5, SameLog DEF ViewerInv
<1>9. ViewerInv(v)'
  BY <1>1, <1>4, <1>5, <1>6, <1>7, <1>8 DEF ViewerInv
<1> QED
  BY <1>1, <1>2, <1>3, <1>9, ViewerStep

-----------------------------------------------------------------------------
(* The invariant, and what it says of the viewers and of the builds.       *)

\* Every step of a worker, a handler or a client keeps the invariant.
THEOREM Invariant == Spec => []IInv
<1>1. IInv /\ [Next]_vars => IInv'
  <2> SUFFICES ASSUME IInv, [Next]_vars PROVE IInv'
    OBVIOUS
  <2>1. ASSUME NEW b \in Builds, BuildImage(b) \/ BuildImageV2(b) PROVE IInv'
    BY <2>1, BuildImageKept
  <2>2. ASSUME NEW b \in Builds, Work(b) PROVE IInv'
    BY <2>2, EnqueueKept, StoreLineKept, BroadcastLineKept, StreamEndsKept, CheckoutKept,
       SendContextKept, RaiseKept, FinishKept, CreateImageKept, PublishEndKept DEF Work
  <2>3. ASSUME NEW b \in Builds, Crash(b) PROVE IInv'
    BY <2>3, CrashKept
  <2>4. ASSUME NEW v \in Viewers, Watch(v) PROVE IInv'
    BY <2>4, GetTaskKept, SubscribeKept, SendStoredKept, FollowKept DEF Watch
  <2>5. ASSUME NEW v \in Viewers, Leave(v) PROVE IInv'
    BY <2>5, LeaveKept
  <2>6. CASE UNCHANGED vars
    <3>1. TypeOK' /\ (\A b \in Builds : WorkerInv(b)') /\ ImageInv'
      BY <2>6 DEF IInv, TypeOK, WorkerInv, Finished, ImageInv, vars
    <3>2. ASSUME NEW v \in Viewers PROVE ViewerInv(v)'
      <4>1. view'[v] = view[v] /\ view[v].task \in Builds /\ ViewerInv(v) /\ TypeOK
        BY <2>6 DEF IInv, TypeOK, vars
      <4> QED
        BY <2>6, <4>1, ViewerKept DEF Finished, vars
    <3> QED
      BY <3>1, <3>2 DEF IInv
  <2> QED
    BY <2>1, <2>2, <2>3, <2>4, <2>5, <2>6 DEF Next, AllDone
<1> QED
  BY InitOK, <1>1, PTL DEF Spec

\* The values every variable of a build and a viewer keeps to.
THEOREM TypeCorrect == Spec => []TypeOK
<1>1. IInv => TypeOK
  BY DEF IInv
<1> QED
  BY Invariant, <1>1, PTL

\* A task that went through has its version recorded as an image, an image a
\* build that went through, and a success leaves no directory behind: for any
\* number of builds, also of one version, and workers that die anywhere.
THEOREM Recorded == Spec => []ImagesAreBuilt
<1>1. IInv => ImagesAreBuilt
  <2> SUFFICES ASSUME IInv PROVE ImagesAreBuilt
    OBVIOUS
  <2>1. ASSUME NEW b \in Builds, row[b] = "success"
        PROVE  scratch[b] = "none" /\ (job[b].pc = "done" => VersionOf[b] \in images)
    BY <2>1 DEF IInv, WorkerInv, Finished
  <2> QED
    BY <2>1 DEF IInv, ImageInv, ImagesAreBuilt
<1> QED
  BY Invariant, <1>1, PTL

\* Whom the handler sends away has seen the whole log, whenever it came.
THEOREM NothingMissed == Spec => []ShownInFull
<1>1. IInv => ShownInFull
  BY DEF IInv, ViewerInv, AllShown, ShownInFull
<1> QED
  BY Invariant, <1>1, PTL

\* Stored lines, then live ones, each run in order and without a gap.
THEOREM OneSeam == Spec => []ShownWithOneSeam
<1>1. ASSUME TypeOK, NEW v \in Viewers, NEW x \in Nat, NEW k \in Nat, Seamed(v, k, x)
      PROVE  LET s == view[v].shown
             IN  \E m \in 0 .. Len(s) :
                   /\ \A i \in 1 .. m : s[i] = i
                   /\ \A i \in m + 1 .. Len(s) : s[i] = s[m + 1] + i - m - 1
                   /\ m < Len(s) => s[m + 1] \in 1 .. m + 1
  <2> DEFINE s == view[v].shown
             n == Len(s)
  <2>1. s \in Seq(1 .. MaxLines) /\ n \in Nat
    BY <1>1, Viewed
  <2>2. /\ k \in 0 .. n /\ 0 <= x - (n - k) /\ x - (n - k) <= k
        /\ \A i \in 1 .. k : s[i] = i
        /\ \A i \in k + 1 .. n : s[i] = x - n + i
    BY <1>1 DEF Seamed
  <2> HIDE DEF n, s
  <2>3. k < n => s[k + 1] = x - n + (k + 1)
    <3> SUFFICES ASSUME k < n PROVE s[k + 1] = x - n + (k + 1)
      OBVIOUS
    <3>1. k + 1 \in k + 1 .. n
      BY <2>1
    <3> QED
      BY <2>2, <3>1
  <2>4. k < n => s[k + 1] \in 1 .. k + 1
    BY <2>1, <2>2, <2>3
  <2>5. \A i \in k + 1 .. n : s[i] = s[k + 1] + i - k - 1
    <3> SUFFICES ASSUME NEW i \in k + 1 .. n PROVE s[i] = s[k + 1] + i - k - 1
      OBVIOUS
    <3>1. k < n /\ i \in Int /\ s[i] = x - n + i
      BY <2>1, <2>2
    <3> QED
      BY <2>1, <2>3, <3>1
  <2> QED
    BY <2>2, <2>4, <2>5 DEF n, s
<1>2. IInv => ShownWithOneSeam
  BY <1>1 DEF IInv, ViewerInv, ShownWithOneSeam
<1> QED
  BY Invariant, <1>2, PTL

=============================================================================
