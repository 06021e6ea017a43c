------------------------------ MODULE TaskLog -------------------------------
(***************************************************************************)
(* An image build and those who watch it: the handlers that ask for a      *)
(* build (eru/api/deploy.py), the Celery worker that runs it               *)
(* (build_docker_image in eru/async/task.py, eru/async/dockerjob.py), the  *)
(* log it writes (eru/utils/notify.py: a Redis list and a Redis channel)   *)
(* and the websocket handlers that replay the list and follow the channel  *)
(* (eru/api/websockets.py).                                                *)
(*                                                                         *)
(* Lines of a log are numbered in the order they are stored.  A channel    *)
(* delivers to those subscribed when a message is published, in order and  *)
(* once; Redis serves one handler's commands in the order it sent them.    *)
(***************************************************************************)
EXTENDS Naturals, Sequences, FiniteSets

CONSTANTS Builds,      \* requests for a build, with the task each is given
          Versions,
          VersionOf,   \* the version a build is of
          Uploads,     \* builds whose code comes as an archive (buildv2)
          Viewers,
          MaxLines,    \* bound: lines of one log
          MaxCrashes   \* bound: workers that die

ASSUME TaskLogAssumption ==
    /\ IsFiniteSet(Builds) /\ IsFiniteSet(Viewers)
    /\ VersionOf \in [Builds -> Versions]
    /\ Uploads \subseteq Builds
    /\ MaxLines \in Nat /\ MaxCrashes \in Nat

End == 0   \* consts.PUB_END_MESSAGE; lines are 1, 2, ...

VARIABLES row,       \* task.result of the SQL row of each build
          images,    \* versions with a row in the table image
          stored,    \* length of the Redis list eru:task:log:<id>
          ended,     \* END has been published on eru:task:pub:<id>
          scratch,   \* the directory the code is built in
          job,       \* the workers
          view       \* the websocket handlers
vars == <<row, images, stored, ended, scratch, job, view>>

Streams == {"pull", "build", "push"}
WorkerStates == {"none", "created", "queued", "checkout", "context", "untag", "finish",
                 "image", "end", "done", "crashed", "lost"} \cup Streams
ViewerStates == {"new", "notfound", "known", "subscribed", "following", "closed"}

TypeOK ==
    /\ row \in [Builds -> {"none", "unfinished", "success", "failed"}]
    /\ images \subseteq Versions
    /\ stored \in [Builds -> 0 .. MaxLines]
    /\ ended \in [Builds -> BOOLEAN]
    /\ scratch \in [Builds -> {"none", "upload", "work"}]
    /\ job \in [Builds -> [pc : WorkerStates, sent : 0 .. MaxLines, pushed : BOOLEAN,
                           result : {"success", "failed"}]]
    /\ view \in [Viewers -> [pc : ViewerStates, task : Builds, finished : BOOLEAN,
                             here : BOOLEAN, inbox : Seq(0 .. MaxLines),
                             shown : Seq(1 .. MaxLines)]]

Init ==
    /\ row = [b \in Builds |-> "none"]
    /\ images = {}
    /\ stored = [b \in Builds |-> 0]
    /\ ended = [b \in Builds |-> FALSE]
    /\ scratch = [b \in Builds |-> "none"]
    /\ job = [b \in Builds |-> [pc |-> "none", sent |-> 0, pushed |-> FALSE,
                                result |-> "failed"]]
    /\ view \in [Viewers -> {[pc |-> "new", task |-> b, finished |-> FALSE, here |-> TRUE,
                              inbox |-> <<>>, shown |-> <<>>] : b \in Builds}]

-----------------------------------------------------------------------------
(* The handlers.                                                           *)

Goto(b, state) == job' = [job EXCEPT ![b].pc = state]

\* Task.create commits the row.
BuildImage(b) ==
    /\ b \notin Uploads
    /\ job[b].pc = "none"
    /\ row' = [row EXCEPT ![b] = "unfinished"]
    /\ Goto(b, "created")
    /\ UNCHANGED <<images, stored, ended, scratch, view>>

\* The archive is saved in a new directory before the task is created.
BuildImageV2(b) ==
    /\ b \in Uploads
    /\ job[b].pc = "none"
    /\ scratch' = [scratch EXCEPT ![b] = "upload"]
    /\ row' = [row EXCEPT ![b] = "unfinished"]
    /\ Goto(b, "created")
    /\ UNCHANGED <<images, stored, ended, view>>

\* apply_async, which raises when there is no broker: the task has no worker.
Enqueue(b) ==
    /\ job[b].pc = "created"
    /\ Goto(b, "queued") \/ Goto(b, "lost")
    /\ UNCHANGED <<row, images, stored, ended, scratch, view>>

-----------------------------------------------------------------------------
(* TaskNotifier.                                                           *)

Subscribers(b) == {v \in Viewers : view[v].task = b /\ view[v].pc \in {"subscribed", "following"}}

Publish(b, message) ==
    view' = [v \in Viewers |->
               IF v \in Subscribers(b) THEN [view[v] EXCEPT !.inbox = Append(@, message)]
               ELSE view[v]]

\* store_and_broadcast, for each line: rpush ...
StoreLine(b) ==
    /\ job[b].pc \in Streams
    /\ job[b].sent = stored[b] /\ stored[b] < MaxLines
    /\ stored' = [stored EXCEPT ![b] = @ + 1]
    /\ UNCHANGED <<row, images, ended, scratch, job, view>>

\* Mutant: the first line of the log is sent instead of the last.
MutantBroadcastLine(b) ==
    /\ job[b].pc \in Streams
    /\ job[b].sent < stored[b]
    /\ Publish(b, 1)
    /\ job' = [job EXCEPT ![b].sent = @ + 1, ![b].pushed = job[b].pc = "push"]
    /\ UNCHANGED <<row, images, stored, ended, scratch>>

\* ... and publish.
BroadcastLine(b) ==
    /\ job[b].pc \in Streams
    /\ job[b].sent < stored[b]
    /\ Publish(b, stored[b])
    /\ job' = [job EXCEPT ![b].sent = @ + 1, ![b].pushed = job[b].pc = "push"]
    /\ UNCHANGED <<row, images, stored, ended, scratch>>

-----------------------------------------------------------------------------
(* build_docker_image.                                                     *)

StartBuild(b) ==
    /\ job[b].pc = "queued"
    /\ Goto(b, "pull")
    /\ UNCHANGED <<row, images, stored, ended, scratch, view>>

\* A stream of lines ends.  That of the push ends in a digest or not; without
\* a line there is none (the model keeps whether there was one).
StreamEnds(b) ==
    /\ job[b].sent = stored[b]
    /\ \/ job[b].pc = "pull" /\ Goto(b, "checkout")
       \/ job[b].pc = "build" /\ Goto(b, "push")
       \/ /\ job[b].pc = "push"
          /\ \E r \in IF job[b].pushed THEN {"success", "failed"} ELSE {"failed"} :
                job' = [job EXCEPT ![b].pc = "untag", ![b].result = r]
    /\ UNCHANGED <<row, images, stored, ended, scratch, view>>

\* build_image_environment: the directory of the archive, or a new one.
Checkout(b) ==
    /\ job[b].pc = "checkout"
    /\ scratch' = [scratch EXCEPT ![b] = IF @ = "upload" THEN @ ELSE "work"]
    /\ Goto(b, "context")
    /\ UNCHANGED <<row, images, stored, ended, view>>

\* build_image: the daemon has the code, the directory goes, and the lines of
\* the build are still to be read.
SendContext(b) ==
    /\ job[b].pc = "context"
    /\ scratch' = [scratch EXCEPT ![b] = "none"]
    /\ Goto(b, "build")
    /\ UNCHANGED <<row, images, stored, ended, view>>

\* remove_image: the image just pushed goes from the host.
RemoveImage(b) ==
    /\ job[b].pc = "untag"
    /\ Goto(b, "finish")
    /\ UNCHANGED <<row, images, stored, ended, scratch, view>>

\* Git, Docker or the disk raised, in a stream between two lines or in one of
\* the calls above: the result is a failure, even after a successful push.
Raise(b) ==
    /\ job[b].pc \in Streams \cup {"checkout", "context", "untag"}
    /\ job[b].sent = stored[b]
    /\ job' = [job EXCEPT ![b].pc = "finish", ![b].result = "failed"]
    /\ UNCHANGED <<row, images, stored, ended, scratch, view>>

\* Mutant: the end is published by the successful only.
MutantFinish(b) ==
    /\ job[b].pc = "finish"
    /\ row' = [row EXCEPT ![b] = job[b].result]
    /\ Goto(b, IF job[b].result = "success" THEN "image" ELSE "done")
    /\ UNCHANGED <<images, stored, ended, scratch, view>>

\* Mutant: an image is recorded whatever the push said.
MutantFinishAnyway(b) ==
    /\ job[b].pc = "finish"
    /\ row' = [row EXCEPT ![b] = job[b].result]
    /\ Goto(b, "image")
    /\ UNCHANGED <<images, stored, ended, scratch, view>>

\* task.finish.
Finish(b) ==
    /\ job[b].pc = "finish"
    /\ row' = [row EXCEPT ![b] = job[b].result]
    /\ Goto(b, IF job[b].result = "success" THEN "image" ELSE "end")
    /\ UNCHANGED <<images, stored, ended, scratch, view>>

\* Image.create: of two builds of a version the second meets the unique
\* constraint, which is passed over.
CreateImage(b) ==
    /\ job[b].pc = "image"
    /\ images' = images \cup {VersionOf[b]}
    /\ Goto(b, "end")
    /\ UNCHANGED <<row, stored, ended, scratch, view>>

\* The result, for those who wait for it, and then the end of the log.
PublishEnd(b) ==
    /\ job[b].pc = "end"
    /\ Publish(b, End)
    /\ ended' = [ended EXCEPT ![b] = TRUE]
    /\ Goto(b, "done")
    /\ UNCHANGED <<row, images, stored, scratch>>

Crash(b) ==
    /\ job[b].pc \notin {"none", "created", "queued", "lost", "done", "crashed"}
    /\ Cardinality({c \in Builds : job[c].pc = "crashed"}) < MaxCrashes
    /\ Goto(b, "crashed")
    /\ UNCHANGED <<row, images, stored, ended, scratch, view>>

-----------------------------------------------------------------------------
(* task_log: the websocket handler.                                        *)

Become(v, state) == view' = [view EXCEPT ![v].pc = state]

\* Task.get: what it says of the end of the task is not read again.
GetTask(v) ==
    /\ view[v].pc = "new"
    /\ LET known == row[view[v].task]
       IN  view' = [view EXCEPT ![v].pc = IF known = "none" THEN "notfound" ELSE "known",
                                ![v].finished = known \in {"success", "failed"}]
    /\ UNCHANGED <<row, images, stored, ended, scratch, job>>

Subscribe(v) ==
    /\ view[v].pc = "known"
    /\ Become(v, "subscribed")
    /\ UNCHANGED <<row, images, stored, ended, scratch, job>>

\* Mutants: the last line is left out; lines counted from zero.
MutantUptoLast(n) == [i \in 1 .. n - 1 |-> i]
MutantUpto(n) == [i \in 1 .. n |-> i - 1]

Upto(n) == [i \in 1 .. n |-> i]

\* lrange; the lines are sent, and a task known to be finished has no others.
SendStored(v) ==
    /\ view[v].pc = "subscribed"
    /\ LET n == stored[view[v].task]
           closes == view[v].finished \/ (~view[v].here /\ n > 0)
       IN  view' = [view EXCEPT ![v].shown = IF view[v].here THEN Upto(n) ELSE @,
                                ![v].inbox = IF closes THEN <<>> ELSE @,
                                ![v].pc = IF closes THEN "closed" ELSE "following"]
    /\ UNCHANGED <<row, images, stored, ended, scratch, job>>

\* A message of the channel: END closes, a line is sent, and a handler whose
\* client has left finds out by sending.
Follow(v) ==
    /\ view[v].pc = "following"
    /\ view[v].inbox # <<>>
    /\ LET message == Head(view[v].inbox)
           sends == message # End /\ view[v].here
       IN  view' = [view EXCEPT ![v].pc = IF sends THEN @ ELSE "closed",
                                ![v].inbox = IF sends THEN Tail(@) ELSE <<>>,
                                ![v].shown = IF sends THEN Append(@, message) ELSE @]
    /\ UNCHANGED <<row, images, stored, ended, scratch, job>>

\* The client goes; its handler is not told.
Leave(v) ==
    /\ view[v].pc \in {"subscribed", "following"}
    /\ view[v].here
    /\ view' = [view EXCEPT ![v].here = FALSE]
    /\ UNCHANGED <<row, images, stored, ended, scratch, job>>

-----------------------------------------------------------------------------
Work(b) ==
    \/ Enqueue(b) \/ StartBuild(b) \/ StoreLine(b) \/ BroadcastLine(b) \/ StreamEnds(b)
    \/ Checkout(b) \/ SendContext(b) \/ RemoveImage(b) \/ Raise(b)
    \/ Finish(b) \/ CreateImage(b) \/ PublishEnd(b)

Watch(v) == GetTask(v) \/ Subscribe(v) \/ SendStored(v) \/ Follow(v)

\* The builds are over.  Handlers may be waiting for a message for ever.
AllDone ==
    /\ \A b \in Builds : job[b].pc \in {"lost", "done", "crashed"}
    /\ \A v \in Viewers : view[v].pc \in {"notfound", "following", "closed"} /\ view[v].inbox = <<>>
    /\ UNCHANGED vars

Next ==
    \/ \E b \in Builds : BuildImage(b) \/ BuildImageV2(b) \/ Work(b) \/ Crash(b)
    \/ \E v \in Viewers : Watch(v) \/ Leave(v)
    \/ AllDone

Spec == Init /\ [][Next]_vars

\* Workers and handlers that can move do; Docker's streams end (MaxLines).
FairSpec ==
    /\ Spec
    /\ \A b \in Builds : WF_vars(Work(b))
    /\ \A v \in Viewers : WF_vars(Watch(v))

-----------------------------------------------------------------------------
(* Properties.                                                             *)

(* A viewer whose connection the handler closed has been shown every line  *)
(* of the log: the list, read after subscribing, and the channel leave no  *)
(* gap, wherever the build was when the viewer came (websockets.py).       *)
ShownInFull ==
    \A v \in Viewers : view[v].pc = "closed" /\ view[v].here =>
        {view[v].shown[i] : i \in DOMAIN view[v].shown} = 1 .. stored[view[v].task]

(* What a viewer is shown is the stored lines and then the live ones, each *)
(* in order, and the live ones begin at the line after the stored ones or  *)
(* before it: a line that is broadcast after the subscription and stored   *)
(* before the list is read appears in both, and none is left out.          *)
ShownWithOneSeam ==
    \A v \in Viewers :
        LET s == view[v].shown
        IN  \E m \in 0 .. Len(s) :
              /\ \A i \in 1 .. m : s[i] = i
              /\ \A i \in m + 1 .. Len(s) : s[i] = s[m + 1] + i - m - 1
              /\ m < Len(s) => s[m + 1] \in 1 .. m + 1

(* A build that goes through is recorded: when no worker is left, a task   *)
(* is successful only if its version has an image, also when two builds    *)
(* of the version meet on the unique constraint; and an image stems from   *)
(* a successful build.  Whatever it built in is gone by then: directories  *)
(* are left behind only by builds that failed.                             *)
ImagesAreBuilt ==
    /\ \A b \in Builds : job[b].pc = "done" /\ row[b] = "success" => VersionOf[b] \in images
    /\ \A w \in images : \E b \in Builds : VersionOf[b] = w /\ row[b] = "success"
    /\ \A b \in Builds : row[b] = "success" => scratch[b] = "none"

(* Who subscribes before the end is published is let go, whether the build *)
(* succeeds or fails and whether or not the client is still there, unless  *)
(* the worker dies.                                                        *)
ViewersLetGo ==
    \A v \in Viewers :
        view[v].pc = "subscribed" /\ ~ended[view[v].task] /\ job[view[v].task].pc # "lost"
            ~> view[v].pc = "closed" \/ job[view[v].task].pc \in {"crashed", "lost"}

=============================================================================
