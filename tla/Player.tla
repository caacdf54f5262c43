-------------------------------- MODULE Player --------------------------------
(***************************************************************************)
(* The gst-stmfrdk player: the main thread builds a pipeline, runs the     *)
(* main loop and takes the pipeline down; the keyboard task takes it down  *)
(* and builds it anew for each change of channel; streaming threads link   *)
(* the demultiplexer's pads while it plays.  A lock is taken around the    *)
(* building and taking down, and not given back where these fail.          *)
(*                                                                         *)
(* GStreamer is external: an element is there or not, a change of state    *)
(* succeeds or fails, and the state NULL waits for the streaming threads.  *)
(***************************************************************************)
EXTENDS Integers

CONSTANT MaxZaps   \* bound: channel changes one key asks for

VARIABLES
  next,        \* what each thread does next
  running,     \* the main loop is running
  zaps,        \* channel changes still to be made
  built,       \* how much of the pipeline there is
  playing,     \* it streams
  linked,      \* audio_pad_linked and video_pad_linked, as a set
  pads,        \* the pads of this pipeline that are linked
  owner        \* of m_mutex

vars == <<next, running, zaps, built, playing, linked, pads, owner>>

Nobody == "nobody"

(* built: nothing; the source alone; also the sink, but not its queue; all *)
(* of it; all of it, with the sink cut off again.                          *)
Stages == {"none", "source", "sink", "whole", "cut"}

Init ==
  /\ next = [main |-> "create", keys |-> "wait"]
  /\ running = FALSE /\ zaps = 0
  /\ built = "none" /\ playing = FALSE /\ linked = {} /\ pads = {}
  /\ owner = Nobody

Goto(t, step) == next' = [next EXCEPT ![t] = step]

-----------------------------------------------------------------------------
(* The calls on the pipeline, by thread t: done tells what they return     *)

(* create_pipeline makes a new lock, takes it, and ends with addsink; it   *)
(* gives the lock back when all went well.  First the pipeline and its     *)
(* source,                                                                 *)
create_source_element(t, done) ==
  /\ owner' = t
  /\ built' \in (IF done THEN {"source"} ELSE {"none", "source"})
  /\ pads' = {}
  /\ UNCHANGED <<playing, linked>>

(* then the elements of the sink,                                          *)
create_sink_element(t, done) ==
  /\ built' = "sink"
  /\ UNCHANGED <<playing, linked, pads, owner>>

\* Mutant: the lock is kept.
AddLocked(t, done) ==
  /\ built' = IF done THEN "whole" ELSE built
  /\ UNCHANGED <<playing, linked, pads, owner>>

(* then the queue that ties the sink to the source.                        *)
addsink(t, done) ==
  /\ built' = IF done THEN "whole" ELSE built
  /\ owner' = IF done THEN Nobody ELSE owner
  /\ UNCHANGED <<playing, linked, pads>>

create_pipeline(t, done) ==
  \/ next[t] = "create" /\ create_source_element(t, done)
  \/ next[t] = "sink" /\ create_sink_element(t, done)
  \/ next[t] = "add" /\ addsink(t, done)

After(step) == CASE step = "create" -> "sink" [] step = "sink" -> "add" [] step = "add" -> "play"

(* gst_element_set_state, and ten seconds for the state to be reached.     *)
set_pipeline_state(play, done) ==
  /\ done => built # "none"
  /\ IF done THEN playing' = (play /\ built = "whole")
             ELSE playing' \in {playing, play /\ built = "whole"}
  /\ UNCHANGED <<built, linked, pads, owner>>

\* Mutant: what was linked is not forgotten.
DropFlagged(done) ==
  /\ IF done THEN built \in {"whole", "cut"} /\ built' = "none"
             ELSE built' = IF built = "whole" THEN "cut" ELSE built
  /\ UNCHANGED linked

(* The sink and its queue are taken out and all fields of the sink reset.  *)
dropsink(done) ==
  IF done THEN built \in {"whole", "cut"} /\ built' = "none" /\ linked' = {}
          ELSE /\ built' = IF built = "whole" THEN "cut" ELSE built
               /\ UNCHANGED linked

destroy_pipeline(t, done) ==
  /\ owner \in {Nobody, t}
  /\ dropsink(done)
  /\ owner' = IF done THEN Nobody ELSE t
  /\ pads' = IF done THEN {} ELSE pads
  /\ UNCHANGED playing

-----------------------------------------------------------------------------
(* The main thread; a call that fails ends the program                     *)

MainCall ==
  /\ \E done \in BOOLEAN :
       \/ /\ create_pipeline("main", done)
          /\ Goto("main", IF done THEN After(next.main) ELSE "exit")
       \/ /\ next.main = "play" /\ set_pipeline_state(TRUE, done)
          /\ Goto("main", IF done THEN "run" ELSE "exit")
       \/ /\ next.main = "stop" /\ set_pipeline_state(FALSE, done)
          /\ Goto("main", IF done THEN "join" ELSE "exit")
       \/ /\ next.main = "destroy" /\ destroy_pipeline("main", done)
          /\ Goto("main", "exit")
  /\ UNCHANGED <<running, zaps>>

(* g_main_loop_run, its return, and gst_task_join.                         *)
MainWait ==
  /\ \/ next.main = "run" /\ Goto("main", "loop") /\ running' = TRUE
     \/ next.main = "loop" /\ ~running /\ Goto("main", "stop") /\ UNCHANGED running
     \/ /\ next.main = "join" /\ next.keys = "wait"
        /\ next' = [main |-> "destroy", keys |-> "joined"] /\ UNCHANGED running
  /\ UNCHANGED <<zaps, built, playing, linked, pads, owner>>

main == MainCall \/ MainWait

-----------------------------------------------------------------------------
(* The keyboard task                                                       *)

\* Mutant: a key is taken at any time.
KeyAnytime ==
  /\ next.keys = "wait" /\ next.main # "exit"
  /\ \/ zaps' \in 1 .. MaxZaps /\ Goto("keys", "stop") /\ UNCHANGED running
     \/ running' = FALSE /\ UNCHANGED <<next, zaps>>
  /\ UNCHANGED <<built, playing, linked, pads, owner>>

(* While the main loop runs, a key changes the channel some times or ends  *)
(* the main loop.                                                          *)
process_input_key ==
  /\ next.keys = "wait" /\ running
  /\ \/ zaps' \in 1 .. MaxZaps /\ Goto("keys", "stop") /\ UNCHANGED running
     \/ running' = FALSE /\ UNCHANGED <<next, zaps>>
  /\ UNCHANGED <<built, playing, linked, pads, owner>>

(* One step of a change; a call that fails ends them all.                  *)
handle_channel_zapping ==
  /\ next.main # "exit"
  /\ \E done \in BOOLEAN :
       \/ /\ next.keys = "stop" /\ set_pipeline_state(FALSE, done)
          /\ Goto("keys", IF done THEN "destroy" ELSE "wait")
          /\ zaps' = IF done THEN zaps ELSE 0
       \/ /\ next.keys = "destroy" /\ destroy_pipeline("keys", done)
          /\ Goto("keys", IF done THEN "create" ELSE "wait")
          /\ zaps' = IF done THEN zaps ELSE 0
       \/ /\ create_pipeline("keys", done)
          /\ Goto("keys", IF done THEN After(next.keys) ELSE "wait")
          /\ zaps' = IF done THEN zaps ELSE 0
       \/ /\ next.keys = "play" /\ set_pipeline_state(TRUE, done)
          /\ Goto("keys", IF done /\ zaps > 1 THEN "stop" ELSE "wait")
          /\ zaps' = IF done THEN zaps - 1 ELSE 0
  /\ UNCHANGED running

-----------------------------------------------------------------------------
(* A pad appears: it is linked unless the flag says that one is.           *)
onDemuxSrcPadAdded(kind) ==
  /\ playing /\ next.main # "exit"
  /\ kind \notin linked
  /\ pads' = pads \cup {kind} /\ linked' = linked \cup {kind}
  /\ UNCHANGED <<next, running, zaps, built, playing, owner>>

Next == \/ main \/ process_input_key \/ handle_channel_zapping
        \/ \E kind \in {"audio", "video"} : onDemuxSrcPadAdded(kind)

-----------------------------------------------------------------------------
(* The main thread and the keyboard task never work on the pipeline at the *)
(* same time, though only parts of that work are under the lock.           *)
OneBuilder ==
  next.main \in {"run", "loop", "exit"} \/ next.keys \in {"wait", "joined"}

(* A new pipeline begins with nothing flagged as linked, so that each of   *)
(* its pads can be; pads come only while the sink's elements are there.    *)
PadsCanLink ==
  /\ linked = pads
  /\ playing => built = "whole"

(* A change of channel comes to its end, and so does the program after 'q' *)
(* with a whole pipeline: who needs the lock gets it.  (After a call of    *)
(* the keyboard task that failed, the main thread waits for ever.)         *)
CallsEnd ==
  /\ (zaps > 0) ~> (zaps = 0 \/ next.main = "exit")
  /\ (next.main = "stop" /\ built = "whole") ~> (next.main = "exit")
=============================================================================
