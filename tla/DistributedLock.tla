--------------------------- MODULE DistributedLock ---------------------------
(***************************************************************************)
(* One key of the distributed lock, as PubSubDistributedLockService takes  *)
(* it, waits for it and gives it back in Redis:                            *)
(*   - an attempt sets the key if it is free, under a token of its own;    *)
(*   - a call that is refused subscribes to the channel of the key, and    *)
(*     every release it hears of starts another attempt, until one is      *)
(*     granted or waitTimeoutMs passes;                                    *)
(*   - a release deletes the key only if it still holds the call's token,  *)
(*     and then publishes on the channel.                                  *)
(* An attempt is executed by Redis at one moment and answered at a later   *)
(* one; several attempts of a call can be under way at once, also after    *)
(* the call has been granted the lock or has given up.                     *)
(*                                                                         *)
(* The key has a TTL, which the extension timer renews.  Time is left out: *)
(* the key may expire whenever it is held, so a renewal changes nothing.   *)
(* A process that was started with USE_LEGACY_LOCK, during a roll-back     *)
(* say, runs SimpleDistributedLockService on the same keys.                *)
(***************************************************************************)
EXTENDS Integers, FiniteSets

CONSTANTS
  Calls,     \* calls of withLockExtended
  Waits,     \* those with waitTimeoutMs > 0
  Switched,  \* those of processes that may have been switched to the legacy service
  Free       \* the key does not exist

ASSUME DistributedLockAssumption ==
  /\ Waits \subseteq Calls
  /\ Switched \subseteq Calls
  /\ Free \notin Calls \X Nat

VARIABLES
  legacy,      \* the calls of SimpleDistributedLockService
  key,         \* the token the key holds, or Free
  pc,          \* where each call is
  tries,       \* how many attempts each call has begun
  flight,      \* the attempts under way: token and what has become of it
  lock,        \* the token of the lock each call was granted
  subscribed,  \* the calls whose subscription is active
  mail,        \* the messages on their way to each call
  lapsed,      \* history: the tokens whose key has expired
  missed       \* history: the waiting calls that were not told of the last release

redis == <<key, lapsed>>
vars == <<legacy, redis, pc, tries, flight, lock, subscribed, mail, missed>>

Token == Calls \X Nat
Attempt == [token : Token, at : {"sent", "granted", "refused", "failed"}]
Ended == {"returned", "threw", "crashed"}
Steps == {"idle", "trying", "waiting", "running", "releasing", "publishing"} \cup Ended

Init ==
  /\ legacy \in SUBSET Switched
  /\ key = Free
  /\ pc = [c \in Calls |-> "idle"]
  /\ tries = [c \in Calls |-> 0]
  /\ flight = {}
  /\ lock = [c \in Calls |-> Free]
  /\ subscribed = {}
  /\ mail = [c \in Calls |-> 0]
  /\ lapsed = {}
  /\ missed = {}

-----------------------------------------------------------------------------
Goto(c, from, to) == pc[c] = from /\ pc' = [pc EXCEPT ![c] = to]

\* Calls that hope for the key.
Hoping == {c \in Calls : pc[c] \in {"trying", "waiting"}}

\* redlock.acquire: another attempt of c, under a token of its own.
Send(c) ==
  /\ tries' = [tries EXCEPT ![c] = @ + 1]
  /\ flight' = flight \cup {[token |-> <<c, tries[c] + 1>>, at |-> "sent"]}

Becomes(a, what) == flight' = (flight \ {a}) \cup {[a EXCEPT !.at = what]}

Call(c) ==
  /\ Goto(c, "idle", "trying")
  /\ Send(c)
  /\ UNCHANGED <<legacy, redis, lock, subscribed, mail, missed>>

\* Redis executes an attempt: the key is set if it does not exist.
Execute(a) ==
  /\ a.at = "sent"
  /\ IF key = Free
     THEN key' = a.token /\ Becomes(a, "granted")
     ELSE UNCHANGED key /\ Becomes(a, "refused")
  /\ UNCHANGED <<legacy, lapsed, pc, tries, lock, subscribed, mail, missed>>

\* The connection fails, before or after Redis has set the key.
ExecuteFails(a) ==
  /\ a.at = "sent"
  /\ key' \in {key} \cup (IF key = Free THEN {a.token} ELSE {})
  /\ Becomes(a, "failed")
  /\ missed' = missed \cup ({a.token[1]} \cap Hoping)
  /\ UNCHANGED <<legacy, lapsed, pc, tries, lock, subscribed, mail>>

\* The TTL of the key passes.
Expire ==
  /\ key # Free
  /\ key' = Free
  /\ lapsed' = lapsed \cup {key}
  /\ missed' = missed \cup Hoping
  /\ UNCHANGED <<legacy, pc, tries, flight, lock, subscribed, mail>>

-----------------------------------------------------------------------------
\* The answer to the first attempt, in acquireLockExtended and in the legacy
\* acquireLock.  A refused call waits, if it may, by subscribing; a failed one
\* ends with an exception, or waits when its error is not recognised as one of
\* the connection.
Answer(c) ==
  \E a \in flight :
    /\ a.token = <<c, 1>> /\ a.at # "sent"
    /\ flight' = flight \ {a}
    /\ \/ /\ a.at = "granted"
          /\ Goto(c, "trying", "running")
          /\ lock' = [lock EXCEPT ![c] = a.token]
          /\ missed' = missed \ {c}
       \/ /\ a.at \in {"refused", "failed"} /\ c \in Waits \ legacy
          /\ Goto(c, "trying", "waiting")
          /\ UNCHANGED <<legacy, lock, missed>>
       \/ /\ a.at = "failed" \/ (a.at = "refused" /\ c \notin Waits \ legacy)
          /\ Goto(c, "trying", "threw")
          /\ missed' = missed \ {c}
          /\ UNCHANGED lock
    /\ UNCHANGED <<legacy, redis, tries, subscribed, mail>>

Subscribe(c) ==
  /\ pc[c] = "waiting" /\ c \notin subscribed
  /\ subscribed' = subscribed \cup {c}
  /\ UNCHANGED <<legacy, redis, pc, tries, flight, lock, mail, missed>>

\* cleanup: the subscription ends with the wait.
Cleanup(c) ==
  /\ subscribed' = subscribed \ {c}
  /\ mail' = [mail EXCEPT ![c] = 0]

SubscribeFails(c) ==
  /\ c \notin subscribed
  /\ Goto(c, "waiting", "threw")
  /\ Cleanup(c)
  /\ missed' = missed \ {c}
  /\ UNCHANGED <<legacy, redis, tries, flight, lock>>

\* Mutant: there is no timer.
TimeoutNever(c) == FALSE /\ UNCHANGED vars

\* waitTimeoutMs passes.
Timeout(c) ==
  /\ Goto(c, "waiting", "threw")
  /\ Cleanup(c)
  /\ missed' = missed \ {c}
  /\ UNCHANGED <<legacy, redis, tries, flight, lock>>

\* Mutant: the call tries again without being told.
HearNothing(c) ==
  /\ pc[c] = "waiting" /\ c \in subscribed
  /\ mail' = [mail EXCEPT ![c] = @ - 1]
  /\ Send(c)
  /\ UNCHANGED <<legacy, redis, pc, lock, subscribed, missed>>

\* messageHandler: a release was published, the call tries again.
Hear(c) ==
  /\ pc[c] = "waiting" /\ mail[c] > 0
  /\ mail' = [mail EXCEPT ![c] = @ - 1]
  /\ Send(c)
  /\ UNCHANGED <<legacy, redis, pc, lock, subscribed, missed>>

\* ... and is answered.  A lock that is granted too late is nobody's: its key
\* stays until it expires.
AnswerAgain(c) ==
  \E a \in flight :
    /\ a.token[1] = c /\ a.token[2] > 1 /\ a.at # "sent"
    /\ flight' = flight \ {a}
    /\ IF a.at = "granted" /\ pc[c] = "waiting"
       THEN /\ Goto(c, "waiting", "running")
            /\ lock' = [lock EXCEPT ![c] = a.token]
            /\ Cleanup(c)
            /\ missed' = missed \ {c}
       ELSE UNCHANGED <<pc, lock, subscribed, mail, missed>>
    /\ UNCHANGED <<legacy, redis, tries>>

-----------------------------------------------------------------------------
\* The callback ends, one way or the other.
CallbackEnds(c) ==
  /\ Goto(c, "running", "releasing")
  /\ UNCHANGED <<legacy, redis, tries, flight, lock, subscribed, mail, missed>>

\* Mutant: DEL without a look at the token.
DeletableAlways(c) == key # Free

\* The release script: the key must hold the token of the lock.
Deletable(c) == key = lock[c]

\* Mutant: nothing is published.
AfterDeleteSilent(c) == "returned"

\* Where a call goes once its key is deleted.
AfterDelete(c) == IF c \in legacy THEN "returned" ELSE "publishing"

\* releaseLock, first half.  Nobody is told when the legacy service deletes the
\* key, or when the answer to the deletion is lost.
Release(c) ==
  /\ \/ /\ Deletable(c)
        /\ key' = Free
        /\ \/ Goto(c, "releasing", AfterDelete(c))
              /\ missed' = IF c \in legacy THEN missed \cup Hoping ELSE missed
           \/ Goto(c, "releasing", "threw")
              /\ missed' = missed \cup Hoping
     \/ /\ Goto(c, "releasing", "returned") \/ Goto(c, "releasing", "threw")
        /\ UNCHANGED <<key, missed>>
  /\ UNCHANGED <<legacy, lapsed, tries, flight, lock, subscribed, mail>>

\* publishLockRelease reaches the calls that are subscribed by now; its errors
\* are swallowed.
Publish(c) ==
  /\ Goto(c, "publishing", "returned") \/ Goto(c, "publishing", "threw")
  /\ \/ /\ mail' = [d \in Calls |-> IF d \in subscribed THEN mail[d] + 1 ELSE mail[d]]
        /\ missed' = (missed \ subscribed) \cup (Hoping \ subscribed)
     \/ /\ missed' = missed \cup Hoping
        /\ UNCHANGED mail
  /\ UNCHANGED <<legacy, redis, tries, flight, lock, subscribed>>

\* The process of a call dies; what it has sent to Redis is executed all the
\* same, what it was about to publish is not published.
Crash(c) ==
  /\ pc[c] \notin Ended \cup {"idle"}
  /\ pc' = [pc EXCEPT ![c] = "crashed"]
  /\ Cleanup(c)
  /\ missed' = (missed \cup IF pc[c] = "publishing" THEN Hoping ELSE {}) \ {c}
  /\ UNCHANGED <<legacy, redis, tries, flight, lock>>

\* The steps of a call's own process, its timers and the answers it waits for.
Run(c) ==
  \/ Answer(c) \/ Subscribe(c) \/ SubscribeFails(c) \/ Timeout(c) \/ Hear(c)
  \/ AnswerAgain(c) \/ CallbackEnds(c) \/ Release(c) \/ Publish(c)
  \/ \E a \in flight : a.token[1] = c /\ (Execute(a) \/ ExecuteFails(a))

Next ==
  \/ \E c \in Calls : Call(c) \/ Run(c) \/ Crash(c)
  \/ Expire

Spec == Init /\ [][Next]_vars

\* A live process goes on, its callbacks end and its timers fire; Redis answers
\* what it is sent, or the client notices that it does not.  Nothing is assumed
\* of the TTL.
FairSpec == Spec /\ \A c \in Calls : WF_vars(Run(c))

-----------------------------------------------------------------------------
\* Types of the variables.
TypeOK ==
  /\ legacy \subseteq Switched
  /\ key \in Token \cup {Free}
  /\ pc \in [Calls -> Steps]
  /\ tries \in [Calls -> Nat]
  /\ flight \subseteq Attempt
  /\ lock \in [Calls -> Token \cup {Free}]
  /\ subscribed \subseteq Calls
  /\ mail \in [Calls -> Nat]
  /\ lapsed \subseteq Token
  /\ missed \subseteq Calls

\* Two callbacks run at once only when the key of one of them has expired under
\* it: late answers, spare attempts and releases of others take it from nobody.
Exclusive ==
  \A c, d \in Calls :
    pc[c] = "running" /\ pc[d] = "running" /\ c # d =>
      lock[c] \in lapsed \/ lock[d] \in lapsed

\* A subscribed call to which nothing is on its way.
Stranded(c) ==
  /\ pc[c] = "waiting" /\ c \in subscribed
  /\ key = Free
  /\ mail[c] = 0
  /\ \A a \in flight : a.token[1] = c => a.at # "sent"
  /\ \A d \in Calls : pc[d] # "publishing"

\* A call waits for a key that is free only if nobody could tell it: the key
\* expired, the release was not published or came before the subscription, or
\* the call's own attempt failed.  Deleting before publishing, and trying again
\* after every message, leave no other gap.
StrandedForCause == \A c \in Calls : Stranded(c) => c \in missed

\* No call waits forever: not for a release it has missed, not for the key of
\* a dead process.
CallsEnd == \A c \in Calls : pc[c] # "idle" ~> pc[c] \in Ended

-----------------------------------------------------------------------------
(***************************************************************************)
(* The parts of the inductive invariant of the proofs.                     *)
(***************************************************************************)
\* Tokens are new: what is under way was begun, no two attempts share a token,
\* and none has that of a lock that was granted before.
Tokens ==
  /\ \A c \in Calls :
       lock[c] # Free => lock[c][1] = c /\ lock[c][2] \in 1..tries[c]
  /\ \A a \in flight :
       a.token[2] \in 1..tries[a.token[1]] /\ lock[a.token[1]] # a.token
  /\ \A a, b \in flight : a.token = b.token => a = b

\* The lock of a call, and the one it is about to be given, hold the key until
\* it expires.
HeldOrLapsed ==
  /\ \A c \in Calls :
       pc[c] \in {"running", "releasing"} =>
         lock[c] # Free /\ (key = lock[c] \/ lock[c] \in lapsed)
  /\ \A a \in flight :
       a.at = "granted" => key = a.token \/ a.token \in lapsed

\* A call that hopes for a free key has something to hope for.
Hope ==
  \A c \in Hoping \ missed :
    \/ key # Free
    \/ mail[c] > 0
    \/ \E a \in flight : a.token[1] = c /\ a.at = "sent"
    \/ \E d \in Calls : pc[d] = "publishing"

Inv == TypeOK /\ Tokens /\ HeldOrLapsed /\ Hope
=============================================================================
