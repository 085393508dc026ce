------------------------------ MODULE Renderer ------------------------------
(***************************************************************************)
(* VideoRenderer: a bounded queue of decoded pictures between the thread   *)
(* that decodes and the thread that draws.  The decoder's thread never     *)
(* waits for room: it drops the oldest picture.  The render thread waits   *)
(* for a picture at most 50 ms at a time, and ends when the renderer is    *)
(* stopped, when the window is closed, or when SDL cannot make one.        *)
(*                                                                         *)
(* The owner's thread stops the renderer twice: ~VideoReceiver calls stop, *)
(* and ~VideoRenderer calls it again; pictures may still be submitted in   *)
(* between.  A step is one hold of mutex_, or one step outside it.  A wait *)
(* may end at any moment (notified, timed out, or spuriously), so the      *)
(* condition variable's notifications add no behaviour.                    *)
(***************************************************************************)
EXTENDS Integers, Sequences

CONSTANTS
    Pictures,         \* what may be submitted
    MaxQueuedFrames   \* kMaxQueuedFrames

None == 0             \* no picture

ASSUME RendererAssumption ==
    /\ Pictures \subseteq Nat \ {None}
    /\ MaxQueuedFrames \in Nat \ {0}

VARIABLES
    queue,            \* frames_
    hand,             \* the render thread's frame
    live,             \* clones made and not yet freed
    shown,            \* the picture in the window, None while there is no window
    newest,           \* history: the picture submitted last
    quit,             \* stopping_
    rpc,              \* the render thread: "init", "top", "wait", "events", "draw", "ended"
    owner             \* the owner: "run", "join", "clear", "stopped", "gone"

rvars == <<queue, hand, live, shown, newest, quit, rpc, owner>>

-----------------------------------------------------------------------------
(* The decoder's thread *)

(* Mutant: a picture that finds the queue full is dropped itself. *)
SubmitDropsNewest(p) ==
    /\ owner # "gone"
    /\ IF Len(queue) < MaxQueuedFrames
       THEN queue' = Append(queue, p) /\ live' = live + 1
       ELSE UNCHANGED <<queue, live>>
    /\ newest' = p
    /\ UNCHANGED <<hand, shown, quit, rpc, owner>>

(* Mutant: one picture too many is queued. *)
SubmitOverLimit(p) ==
    /\ owner # "gone"
    /\ IF Len(queue) <= MaxQueuedFrames
       THEN queue' = Append(queue, p) /\ live' = live + 1
       ELSE queue' = Append(Tail(queue), p) /\ live' = live
    /\ newest' = p
    /\ UNCHANGED <<hand, shown, quit, rpc, owner>>

(* Mutant: a picture waits for room. *)
SubmitWaits(p) ==
    /\ owner # "gone"
    /\ Len(queue) < MaxQueuedFrames
    /\ queue' = Append(queue, p)
    /\ live' = live + 1
    /\ newest' = p
    /\ UNCHANGED <<hand, shown, quit, rpc, owner>>

(* submit: the oldest picture makes room, and is freed. *)
Submit(p) ==
    /\ owner # "gone"
    /\ IF Len(queue) < MaxQueuedFrames
       THEN queue' = Append(queue, p) /\ live' = live + 1
       ELSE queue' = Append(Tail(queue), p) /\ live' = live
    /\ newest' = p
    /\ UNCHANGED <<hand, shown, quit, rpc, owner>>

-----------------------------------------------------------------------------
(* The render thread *)

(* SDL_Init, which may fail: the thread ends and nobody is told. *)
InitSdl ==
    /\ rpc = "init"
    /\ rpc' \in {"top", "ended"}
    /\ UNCHANGED <<queue, hand, live, shown, newest, quit, owner>>

Top ==
    /\ rpc = "top"
    /\ rpc' = IF quit THEN "ended" ELSE "wait"
    /\ UNCHANGED <<queue, hand, live, shown, newest, quit, owner>>

(* Mutant: the wait ends only for a picture. *)
TakeWhenQueued ==
    /\ rpc = "wait"
    /\ queue # <<>>
    /\ hand' = Head(queue)
    /\ queue' = Tail(queue)
    /\ rpc' = "events"
    /\ UNCHANGED <<live, shown, newest, quit, owner>>

(* Mutant: the picture taken also stays in the queue. *)
TakeKeeps ==
    /\ rpc = "wait"
    /\ hand' = IF queue = <<>> THEN hand ELSE Head(queue)
    /\ rpc' = "events"
    /\ UNCHANGED <<queue, live, shown, newest, quit, owner>>

(* The wait ends, by 50 ms at the latest, with a picture if there is one. *)
Take ==
    /\ rpc = "wait"
    /\ IF queue = <<>>
       THEN UNCHANGED <<queue, hand>>
       ELSE hand' = Head(queue) /\ queue' = Tail(queue)
    /\ rpc' = "events"
    /\ UNCHANGED <<live, shown, newest, quit, owner>>

(* SDL_PollEvent: the user may have closed the window. *)
PollEvents ==
    /\ rpc = "events"
    /\ quit' \in {quit, TRUE}
    /\ rpc' = IF hand = None THEN "top" ELSE "draw"
    /\ UNCHANGED <<queue, hand, live, shown, newest, owner>>

(* No window, or no renderer for it, could be made for the first picture. *)
NoWindow ==
    /\ rpc = "draw"
    /\ shown = None
    /\ hand' = None
    /\ live' = live - 1
    /\ rpc' = "ended"
    /\ UNCHANGED <<queue, shown, newest, quit, owner>>

Draw ==
    /\ rpc = "draw"
    /\ shown' = hand
    /\ hand' = None
    /\ live' = live - 1
    /\ rpc' = "top"
    /\ UNCHANGED <<queue, newest, quit, owner>>

-----------------------------------------------------------------------------
(* The owner *)

(* stop, called by ~VideoReceiver: the flag, the join, clear_queue. *)
Stop ==
    /\ owner = "run"
    /\ quit' = TRUE
    /\ owner' = "join"
    /\ UNCHANGED <<queue, hand, live, shown, newest, rpc>>

Join ==
    /\ owner = "join"
    /\ rpc = "ended"
    /\ owner' = "clear"
    /\ UNCHANGED <<queue, hand, live, shown, newest, quit, rpc>>

ClearQueue ==
    /\ owner = "clear"
    /\ live' = live - Len(queue)
    /\ queue' = <<>>
    /\ owner' = "stopped"
    /\ UNCHANGED <<hand, shown, newest, quit, rpc>>

(* Mutant: the destructor does not stop the renderer again. *)
DestroyOnly ==
    /\ owner = "stopped"
    /\ owner' = "gone"
    /\ UNCHANGED <<queue, hand, live, shown, newest, quit, rpc>>

(* ~VideoRenderer: stop again, with no thread left to join. *)
Destroy ==
    /\ owner = "stopped"
    /\ live' = live - Len(queue)
    /\ queue' = <<>>
    /\ owner' = "gone"
    /\ UNCHANGED <<hand, shown, newest, quit, rpc>>

-----------------------------------------------------------------------------
RendererInit ==
    /\ queue = <<>>
    /\ hand = None
    /\ live = 0
    /\ shown = None
    /\ newest = None
    /\ quit = FALSE
    /\ rpc = "init"
    /\ owner = "run"

RenderThread == InitSdl \/ Top \/ Take \/ PollEvents \/ NoWindow \/ Draw
OwnerThread  == Stop \/ Join \/ ClearQueue \/ Destroy

RendererNext == (\E p \in Pictures : Submit(p)) \/ RenderThread \/ OwnerThread

RendererSpec == RendererInit /\ [][RendererNext]_rvars

-----------------------------------------------------------------------------
(* Properties *)

(* Type invariant of the renderer.  The queue's bound is part of it. *)
RendererTypeOK ==
    /\ queue \in Seq(Pictures) /\ Len(queue) <= MaxQueuedFrames
    /\ hand \in Pictures \cup {None}
    /\ live \in Nat
    /\ {shown, newest} \subseteq Pictures \cup {None}
    /\ quit \in BOOLEAN
    /\ rpc \in {"init", "top", "wait", "events", "draw", "ended"}
    /\ owner \in {"run", "join", "clear", "stopped", "gone"}

(* When the renderer is gone every picture cloned for it has been freed:    *)
(* those dropped, shown, refused by a window that could not be made, left   *)
(* in the queue by a render thread that ended early, and those submitted    *)
(* after the first stop.                                                    *)
NoPictureLeaks == owner = "gone" => live = 0

(* stop returns: whatever the render thread waits for, it notices stopping_ *)
(* and ends, although stop sets the flag and notifies without the lock.     *)
StopReturns == (owner = "join") ~> (owner # "join")

(* What is shown is the display of module Display: in the order of          *)
(* submission, and never without the newest while the render thread lives.  *)
(* A picture in the render thread's hand is still pending there; the        *)
(* display is given up when the render thread ends.                         *)
Pending == IF hand = None THEN queue ELSE <<hand>> \o queue
Window == INSTANCE Display WITH pending <- Pending, open <- rpc # "ended"
ShowsInOrder == Window!Spec
=============================================================================
