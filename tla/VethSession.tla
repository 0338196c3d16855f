----------------------------- MODULE VethSession -----------------------------
(***************************************************************************)
(* The frame every example runs in: main starts a thread that builds a     *)
(* veth pair, runs the example proper (f) on it and takes the pair down    *)
(* again, while main waits for that thread or for ctrl+c                   *)
(* (examples/setup/veth_setup.rs, and main in the three examples).  Each   *)
(* netlink request may fail, and so may f.                                 *)
(***************************************************************************)
EXTENDS Naturals

VARIABLES
  main,      \* the main thread: "select", "join", "exited" or "panicked"
  ex,        \* where the example's thread is
  await,     \* which request of a series it awaits
  failed,    \* run_with_veth_pair is returning an error
  f,         \* the closure: "idle", "running", "returned" or "panicked"
  link,      \* the veth pair exists
  told       \* the user was told to delete it by hand

sessionVars == <<main, ex, await, failed, f, link, told>>

SessionInit ==
  /\ main = "select" /\ ex = "build" /\ await = 1 /\ failed = FALSE
  /\ f = "idle" /\ link = FALSE /\ told = FALSE

ExEnded == ex \in {"returned", "panicked"}

-----------------------------------------------------------------------------
(* build_veth_pair: nothing owns the link until both indices are known *)

AddLink ==
  /\ ex = "build"
  /\ \/ ex' = "index" /\ link' = TRUE
     \/ ex' = "panicked" /\ UNCHANGED link          \* run_with_veth_pair unwraps
  /\ UNCHANGED <<main, await, failed, f, told>>

\* A request that fails panics with the advice to delete the link.  That the
\* kernel knows no link of that name panics without advice; it is assumed that
\* the pair, just created under that name, has then been deleted by somebody.
GetLinkIndex ==
  /\ ex = "index"
  /\ \/ await = 1 /\ await' = 2 /\ UNCHANGED <<ex, told, link>>
     \/ await = 2 /\ await' = 1 /\ ex' = "setup" /\ UNCHANGED <<told, link>>
     \/ ex' = "panicked" /\ told' = TRUE /\ UNCHANGED <<await, link>>     \* expect
     \/ ex' = "panicked" /\ link' = FALSE /\ UNCHANGED <<await, told>>    \* it is gone
  /\ UNCHANGED <<main, failed, f>>

-----------------------------------------------------------------------------
(* run_with_veth_pair, from here on with a VethPair to drop *)

\* Leave early with an error.
Fail == ex' = "drop" /\ failed' = TRUE /\ UNCHANGED <<await, f>>

\* Status, hardware and IP address of both devices; then f is spawned.
SetUp ==
  /\ ex = "setup"
  /\ \/ await < 6 /\ await' = await + 1 /\ UNCHANGED <<ex, failed, f>>
     \/ await = 6 /\ await' = 1 /\ ex' = "run" /\ f' = "running" /\ UNCHANGED failed
     \/ Fail
  /\ UNCHANGED <<main, link, told>>

\* f returns, or panics.
FEnds(how) ==
  /\ f = "running" /\ f' = how
  /\ UNCHANGED <<main, ex, await, failed, link, told>>

\* The JoinHandle's await: a panic of f is an Err, kept until the end.
Join ==
  /\ ex = "run" /\ f \in {"returned", "panicked"}
  /\ ex' = "down"
  /\ UNCHANGED <<main, await, failed, f, link, told>>

SetDown ==
  /\ ex = "down"
  /\ \/ await = 1 /\ await' = 2 /\ UNCHANGED <<ex, failed, f>>
     \/ await = 2 /\ await' = 1 /\ ex' = "drop" /\ failed' = (f = "panicked") /\ UNCHANGED f
     \/ Fail
  /\ UNCHANGED <<main, link, told>>

\* Drop for VethPair.
DropPair ==
  /\ ex = "drop" /\ ex' = "send"
  /\ \/ link' = FALSE /\ UNCHANGED told
     \/ told' = TRUE /\ UNCHANGED link
  /\ UNCHANGED <<main, await, failed, f>>

\* complete_tx.send: there is room for the one message.
SendComplete ==
  /\ ex = "send" /\ ex' = "returned"
  /\ UNCHANGED <<main, await, failed, f, link, told>>

-----------------------------------------------------------------------------
(* main *)

\* Mutant: ctrl+c ends the process.
CtrlCExits ==
  /\ main = "select" /\ main' = "exited"
  /\ UNCHANGED <<ex, await, failed, f, link, told>>

\* select!: a ctrl+c event, at any time; no thread but main looks at it.
CtrlC ==
  /\ main = "select" /\ main' = "join"
  /\ UNCHANGED <<ex, await, failed, f, link, told>>

\* select!: the thread has sent, or has dropped its end of the channel.
Complete ==
  /\ main = "select" /\ ExEnded /\ main' = "join"
  /\ UNCHANGED <<ex, await, failed, f, link, told>>

\* example_handle.join().unwrap().unwrap()
JoinExample ==
  /\ main = "join" /\ ExEnded
  /\ main' = IF ex = "panicked" \/ failed THEN "panicked" ELSE "exited"
  /\ UNCHANGED <<ex, await, failed, f, link, told>>

-----------------------------------------------------------------------------

Setup == AddLink \/ GetLinkIndex \/ SetUp
TearDown == Join \/ SetDown \/ DropPair \/ SendComplete
MainStep == Complete \/ JoinExample

\* Everything but f itself.
SessionStep == Setup \/ TearDown \/ MainStep \/ CtrlC

MainEnded == main \in {"exited", "panicked"}

=============================================================================
