---------------------------- MODULE TimeoutQueue ----------------------------
(***************************************************************************)
(* BlockingTimeoutQueue of common/blocking_queue.h, the queue between the  *)
(* FIX thread and Zorro's thread.                                          *)
(*                                                                         *)
(* Nothing can interleave with a section that holds the mutex, so such a   *)
(* section is one action.  The mutex is released only inside wait_for and  *)
(* wait_until: a consumer is then "asleep" until it is notified, its       *)
(* deadline passes or it wakes for no reason.  It is "awake" whenever it   *)
(* has still to get the mutex.                                             *)
(***************************************************************************)
EXTENDS Integers, Sequences

CONSTANTS
  Consumers, \* threads that pop
  MaxPushes  \* bound: number of items pushed in a behaviour

ASSUME MaxPushesAssumption == MaxPushes \in Nat

VARIABLES
  queue,     \* the std::queue; an item is [n, wanted]: its number, and whether
             \* the op of a pop_until returns true for it
  pushes,    \* history: number of items pushed
  delivered, \* history: numbers of the items popped, in that order
  at,        \* a consumer is "idle", "asleep" or "awake"
  mode,      \* its call: "pop" or "pop_until"
  expired,   \* its deadline has passed
  got,       \* items its call has taken
  answer     \* what its last call returned

queueVars == <<queue, pushes, delivered, at, mode, expired, got, answer>>

Modes == {"pop", "pop_until"}

Items == [n : Nat \ {0}, wanted : BOOLEAN]

-----------------------------------------------------------------------------
QueueInit ==
  /\ queue = <<>> /\ pushes = 0 /\ delivered = <<>>
  /\ at = [c \in Consumers |-> "idle"]
  /\ mode = [c \in Consumers |-> "pop"]
  /\ expired = [c \in Consumers |-> FALSE]
  /\ got = [c \in Consumers |-> <<>>]
  /\ answer = [c \in Consumers |-> TRUE]

\* Mutant: notify_all is forgotten.
PushSilently(wanted) ==
  /\ pushes < MaxPushes
  /\ pushes' = pushes + 1
  /\ queue' = Append(queue, [n |-> pushes + 1, wanted |-> wanted])
  /\ UNCHANGED <<delivered, at, mode, expired, got, answer>>

(* push(): appends and notifies all.                                       *)
Push(wanted) ==
  /\ pushes < MaxPushes
  /\ pushes' = pushes + 1
  /\ queue' = Append(queue, [n |-> pushes + 1, wanted |-> wanted])
  /\ at' = [c \in Consumers |-> IF at[c] = "asleep" THEN "awake" ELSE at[c]]
  /\ UNCHANGED <<delivered, mode, expired, got, answer>>

Numbers(items) == [k \in 1 .. Len(items) |-> items[k].n]

\* Mutant: the newest items are taken.
TakeNewest(c, k) ==
  LET rest == Len(queue) - k
  IN  /\ queue' = SubSeq(queue, 1, rest)
      /\ delivered' = delivered \o Numbers(SubSeq(queue, rest + 1, Len(queue)))
      /\ got' = [got EXCEPT ![c] = @ \o SubSeq(queue, rest + 1, Len(queue))]

\* The consumer takes the first k items.
Take(c, k) ==
  /\ queue' = SubSeq(queue, k + 1, Len(queue))
  /\ delivered' = delivered \o Numbers(SubSeq(queue, 1, k))
  /\ got' = [got EXCEPT ![c] = @ \o SubSeq(queue, 1, k)]

Takes0 == UNCHANGED <<queue, delivered, got>>

Returns(c, value) ==
  /\ at' = [at EXCEPT ![c] = "idle"]
  /\ answer' = [answer EXCEPT ![c] = value]

\* Mutant: pop_until goes on to the last item that op wants.
StopsAtLast(c, k) ==
  \/ mode[c] = "pop" /\ k = 1
  \/ /\ mode[c] = "pop_until"
     /\ queue[k].wanted
     /\ \A j \in (k + 1) .. Len(queue) : ~ queue[j].wanted

\* The item at which the loop over the queue ends: pop takes one item, and
\* pop_until goes on to the first one that op wants.
StopsAt(c, k) ==
  \/ mode[c] = "pop" /\ k = 1
  \/ /\ mode[c] = "pop_until"
     /\ queue[k].wanted
     /\ \A j \in 1 .. (k - 1) : ~ queue[j].wanted

(* The predicate of the wait holds: take what there is, up to the item     *)
(* that ends the call.  Without one pop_until waits again; when the        *)
(* deadline has passed that wait gives up the mutex only for a moment.     *)
Proceed(c) ==
  /\ queue # <<>>
  /\ \/ \E k \in 1 .. Len(queue) :
          StopsAt(c, k) /\ Take(c, k) /\ Returns(c, TRUE)
     \/ /\ mode[c] = "pop_until"
        /\ \A k \in 1 .. Len(queue) : ~ queue[k].wanted
        /\ Take(c, Len(queue))
        /\ at' = [at EXCEPT ![c] = IF expired[c] THEN "awake" ELSE "asleep"]
        /\ UNCHANGED answer
  /\ UNCHANGED <<pushes, mode, expired>>

(* pop(item, timeout) and pop_until(op, timeout): ask for the mutex.       *)
Call(c, m) ==
  /\ at[c] = "idle"
  /\ mode' = [mode EXCEPT ![c] = m]
  /\ expired' = [expired EXCEPT ![c] = FALSE]
  /\ got' = [got EXCEPT ![c] = <<>>]
  /\ at' = [at EXCEPT ![c] = "awake"]
  /\ UNCHANGED <<queue, pushes, delivered, answer>>

\* Mutant: the deadline is looked at before the queue.
WakeGivesUp(c) ==
  /\ at[c] = "awake"
  /\ IF expired[c]
     THEN Returns(c, FALSE) /\ Takes0 /\ UNCHANGED <<pushes, mode, expired>>
     ELSE \/ Proceed(c)
          \/ /\ queue = <<>>
             /\ at' = [at EXCEPT ![c] = "asleep"]
             /\ Takes0 /\ UNCHANGED <<pushes, mode, expired, answer>>

(* With the mutex, for the first time or back in the wait: the queue is    *)
(* looked at, then the clock counts.                                       *)
Wake(c) ==
  /\ at[c] = "awake"
  /\ \/ Proceed(c)
     \/ /\ queue = <<>>
        /\ expired[c]
        /\ Returns(c, FALSE)
        /\ Takes0 /\ UNCHANGED <<pushes, mode, expired>>
     \/ /\ queue = <<>>
        /\ ~ expired[c]
        /\ at' = [at EXCEPT ![c] = "asleep"]
        /\ Takes0 /\ UNCHANGED <<pushes, mode, expired, answer>>

(* A wake-up without notification, which condition variables allow.        *)
Spurious(c) ==
  /\ at[c] = "asleep"
  /\ at' = [at EXCEPT ![c] = "awake"]
  /\ UNCHANGED <<queue, pushes, delivered, mode, expired, got, answer>>

\* Mutant: the wait of pop_until has no deadline.
ExpirePopOnly(c) ==
  /\ at[c] # "idle" /\ ~ expired[c] /\ mode[c] = "pop"
  /\ expired' = [expired EXCEPT ![c] = TRUE]
  /\ at' = [at EXCEPT ![c] = "awake"]
  /\ UNCHANGED <<queue, pushes, delivered, mode, got, answer>>

\* Mutant: the deadline passes, and the thread sleeps on.
ExpireUnnoticed(c) ==
  /\ at[c] # "idle" /\ ~ expired[c]
  /\ expired' = [expired EXCEPT ![c] = TRUE]
  /\ UNCHANGED <<queue, pushes, delivered, at, mode, got, answer>>

(* The deadline passes.                                                    *)
Expire(c) ==
  /\ at[c] # "idle" /\ ~ expired[c]
  /\ expired' = [expired EXCEPT ![c] = TRUE]
  /\ at' = [at EXCEPT ![c] = "awake"]
  /\ UNCHANGED <<queue, pushes, delivered, mode, got, answer>>

(* pop(item) without a timeout and pop_all(op) never wait.                 *)
PopNow(c) ==
  /\ at[c] = "idle"
  /\ got' = [got EXCEPT ![c] = <<>>]
  /\ answer' = [answer EXCEPT ![c] = queue # <<>>]
  /\ IF queue = <<>>
     THEN UNCHANGED <<queue, delivered>>
     ELSE /\ queue' = Tail(queue)
          /\ delivered' = Append(delivered, Head(queue).n)
  /\ UNCHANGED <<pushes, at, mode, expired>>

PopAll(c) ==
  /\ at[c] = "idle"
  /\ got' = [got EXCEPT ![c] = <<>>]
  /\ answer' = [answer EXCEPT ![c] = TRUE]
  /\ queue' = <<>>
  /\ delivered' = delivered \o Numbers(queue)
  /\ UNCHANGED <<pushes, at, mode, expired>>

QueueNext ==
  \/ \E wanted \in BOOLEAN : Push(wanted)
  \/ \E c \in Consumers :
       \/ \E m \in Modes : Call(c, m)
       \/ Wake(c) \/ Spurious(c) \/ Expire(c) \/ PopNow(c) \/ PopAll(c)

QueueSafety == QueueInit /\ [][QueueNext]_queueVars

\* Every thread gets the mutex in the end, and every deadline passes.
QueueSpec ==
  /\ QueueSafety
  /\ \A c \in Consumers : WF_queueVars(Wake(c)) /\ WF_queueVars(Expire(c))

-----------------------------------------------------------------------------
(* Properties                                                              *)

\* Every variable holds values of its type, and the deadline of a consumer that
\* sleeps has not passed.
QueueTypeOK ==
  /\ queue \in Seq(Items)
  /\ pushes \in Nat
  /\ delivered \in Seq(Nat)
  /\ at \in [Consumers -> {"idle", "asleep", "awake"}]
  /\ mode \in [Consumers -> Modes]
  /\ expired \in [Consumers -> BOOLEAN]
  /\ got \in [Consumers -> Seq(Items)]
  /\ answer \in [Consumers -> BOOLEAN]
  /\ \A c \in Consumers : at[c] = "asleep" => ~ expired[c]

\* What was popped, by whichever consumer and call, followed by what is still
\* in the queue, is what was pushed: in order, nothing lost or popped twice.
InOrder == delivered \o Numbers(queue) = [n \in 1 .. pushes |-> n]

\* No consumer sleeps while there is an item it could take: no push is missed
\* between the look at the queue and the wait.
NoSleepOnItems == queue # <<>> => \A c \in Consumers : at[c] # "asleep"

\* A call gives up only when its deadline has passed and the queue is empty at
\* that moment: an item that came in before is never left behind.
TimesOutOnEmpty ==
  [][ \A c \in Consumers :
        at[c] # "idle" /\ at'[c] = "idle" /\ ~ answer'[c]
          => expired[c] /\ queue = <<>> ]_queueVars

\* A pop_until that succeeds ends with the item it wanted and has passed over
\* none; one that runs or gave up has seen no wanted item.
UntilFirstWanted ==
  \A c \in Consumers : mode[c] = "pop_until" =>
    /\ \A k \in 1 .. (Len(got[c]) - 1) : ~ got[c][k].wanted
    /\ got[c] # <<>> =>
         (got[c][Len(got[c])].wanted <=> at[c] = "idle" /\ answer[c])

\* Every call with a timeout returns.
QueueCallsReturn ==
  \A c \in Consumers : at[c] # "idle" ~> at[c] = "idle"
=============================================================================
