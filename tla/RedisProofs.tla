---------------------------- MODULE RedisProofs ----------------------------
(***************************************************************************)
(* Proofs about the two components of the common infrastructure:           *)
(* DistributedLock, for any number of calls, waiting or not, of either     *)
(* service; and, below, ProductCache, for any products, options, pages,    *)
(* movements, requests and processes.  They share nothing.                 *)
(***************************************************************************)
EXTENDS DistributedLock, ProductCache, TLAPS

-----------------------------------------------------------------------------
(***************************************************************************)
(* The attempts under way.                                                 *)
(***************************************************************************)
LEMMA AttemptType ==
  ASSUME TypeOK, NEW a \in flight
  PROVE  /\ a.token \in Token
         /\ a.token = <<a.token[1], a.token[2]>>
         /\ a.token[1] \in Calls /\ a.token[2] \in Nat
         /\ a.token # Free
BY DistributedLockAssumption DEF TypeOK, Attempt, Token

\* An attempt that is answered keeps its token.
LEMMA BecomesIs ==
  ASSUME TypeOK, NEW a \in flight, NEW what \in {"granted", "refused", "failed"},
         Becomes(a, what)
  PROVE  \E b \in Attempt :
           /\ b.token = a.token /\ b.at = what
           /\ flight' = (flight \ {a}) \cup {b}
<1> DEFINE b == [a EXCEPT !.at = what]
<1>1. b \in Attempt /\ b.token = a.token /\ b.at = what
  BY DEF TypeOK, Attempt
<1>2. QED
  BY <1>1 DEF Becomes

\* A new attempt.
LEMMA SendIs ==
  ASSUME TypeOK, NEW c \in Calls, Send(c)
  PROVE  \E b \in Attempt :
           /\ b.token = <<c, tries[c] + 1>> /\ b.at = "sent"
           /\ flight' = flight \cup {b}
<1> DEFINE b == [token |-> <<c, tries[c] + 1>>, at |-> "sent"]
<1>1. b \in Attempt /\ b.token = <<c, tries[c] + 1>> /\ b.at = "sent"
  BY DEF TypeOK, Attempt, Token
<1>2. QED
  BY <1>1 DEF Send

-----------------------------------------------------------------------------
(***************************************************************************)
(* Types.                                                                  *)
(***************************************************************************)
LEMMA InitTypeOK == Init => TypeOK
BY DistributedLockAssumption DEF Init, TypeOK, Steps

LEMMA ExecuteTypeOK ==
  ASSUME TypeOK, NEW a \in flight, Execute(a) \/ ExecuteFails(a)
  PROVE  TypeOK'
<1>1. PICK what \in {"granted", "refused", "failed"} : Becomes(a, what)
  BY DEF Execute, ExecuteFails
<1>2. flight' \subseteq Attempt
  BY <1>1, BecomesIs DEF TypeOK
<1>3. key' \in Token \cup {Free}
  BY AttemptType DEF TypeOK, Execute, ExecuteFails
<1>4. missed' \subseteq Calls
  BY DEF TypeOK, Execute, ExecuteFails, Hoping
<1>5. QED
  BY <1>2, <1>3, <1>4 DEF TypeOK, Execute, ExecuteFails

LEMMA RunTypeOK ==
  ASSUME TypeOK, NEW c \in Calls, Run(c)
  PROVE  TypeOK'
<1> USE DEF TypeOK, Goto, Cleanup, Steps, Ended, redis
<1>1. CASE Answer(c)
  <2>1. flight' \subseteq Attempt /\ lock' \in [Calls -> Token \cup {Free}]
    BY <1>1, AttemptType DEF Answer
  <2>2. pc' \in [Calls -> Steps] /\ missed' \subseteq Calls
    BY <1>1 DEF Answer
  <2>3. QED
    BY <1>1, <2>1, <2>2 DEF Answer
<1>2. CASE Subscribe(c)
  BY <1>2 DEF Subscribe
<1>3. CASE SubscribeFails(c) \/ Timeout(c)
  BY <1>3 DEF SubscribeFails, Timeout
<1>4. CASE Hear(c)
  <2>1. flight' \subseteq Attempt
    BY <1>4, SendIs DEF Hear
  <2>2. mail' \in [Calls -> Nat] /\ tries' \in [Calls -> Nat]
    BY <1>4 DEF Hear, Send
  <2>3. QED
    BY <1>4, <2>1, <2>2 DEF Hear
<1>5. CASE AnswerAgain(c)
  <2>1. flight' \subseteq Attempt /\ lock' \in [Calls -> Token \cup {Free}]
    BY <1>5, AttemptType DEF AnswerAgain
  <2>2. pc' \in [Calls -> Steps] /\ missed' \subseteq Calls
    BY <1>5 DEF AnswerAgain
  <2>3. subscribed' \subseteq Calls /\ mail' \in [Calls -> Nat]
    BY <1>5 DEF AnswerAgain
  <2>4. QED
    BY <1>5, <2>1, <2>2, <2>3 DEF AnswerAgain
<1>6. CASE CallbackEnds(c)
  BY <1>6 DEF CallbackEnds
<1>7. CASE Release(c)
  BY <1>7 DEF Release, AfterDelete, Hoping
<1>8. CASE Publish(c)
  BY <1>8 DEF Publish, Hoping
<1>9. ASSUME NEW a \in flight, Execute(a) \/ ExecuteFails(a) PROVE TypeOK'
  BY <1>9, ExecuteTypeOK
<1>10. QED
  BY <1>1, <1>2, <1>3, <1>4, <1>5, <1>6, <1>7, <1>8, <1>9 DEF Run

LEMMA NextTypeOK == TypeOK /\ [Next]_vars => TypeOK'
<1> SUFFICES ASSUME TypeOK, [Next]_vars PROVE TypeOK'
  OBVIOUS
<1> USE DEF TypeOK, Goto, Steps, Ended, redis
<1>1. ASSUME NEW c \in Calls, Call(c) PROVE TypeOK'
  <2>1. flight' \subseteq Attempt
    BY <1>1, SendIs DEF Call
  <2>2. tries' \in [Calls -> Nat] /\ pc' \in [Calls -> Steps]
    BY <1>1 DEF Call, Send
  <2>3. QED
    BY <1>1, <2>1, <2>2 DEF Call
<1>2. ASSUME NEW c \in Calls, Crash(c) PROVE TypeOK'
  BY <1>2 DEF Crash, Cleanup, Hoping
<1>3. CASE Expire
  BY <1>3 DEF Expire, Hoping
<1>4. CASE UNCHANGED vars
  BY <1>4 DEF vars
<1>5. QED
  BY <1>1, <1>2, <1>3, <1>4, RunTypeOK DEF Next

\* The variables of the lock keep their types (PubSubDistributedLockService).
THEOREM TypeCorrect == Spec => []TypeOK
BY InitTypeOK, NextTypeOK, PTL DEF Spec

-----------------------------------------------------------------------------
(***************************************************************************)
(* Tokens.                                                                 *)
(***************************************************************************)
LEMMA SendTokens ==
  ASSUME TypeOK, Tokens, NEW c \in Calls, Send(c), UNCHANGED lock
  PROVE  Tokens'
<1>1. PICK b \in Attempt : /\ b.token = <<c, tries[c] + 1>>
                           /\ flight' = flight \cup {b}
  BY SendIs
<1>2. tries' = [tries EXCEPT ![c] = @ + 1] /\ tries \in [Calls -> Nat]
  BY DEF Send, TypeOK
<1>3. /\ tries'[c] = tries[c] + 1
      /\ \A d \in Calls : tries'[d] \in Nat /\ tries[d] \in Nat /\ tries'[d] >= tries[d]
  BY <1>2
<1>4. \A d \in Calls : lock'[d] # Free => lock'[d][1] = d /\ lock'[d][2] \in 1..tries'[d]
  BY <1>3 DEF Tokens
<1>5. \A a \in flight : /\ a.token[2] \in 1..tries'[a.token[1]]
                        /\ a.token # b.token
  <2> TAKE a \in flight
  <2>1. a.token[1] \in Calls /\ a.token[2] \in 1..tries[a.token[1]]
    BY AttemptType DEF Tokens
  <2>2. QED
    BY <1>1, <1>3, <2>1
<1>6. b.token[2] \in 1..tries'[b.token[1]] /\ lock'[b.token[1]] # b.token
  <2>1. lock[c] # Free => lock[c][2] # tries[c] + 1
    BY <1>3 DEF Tokens
  <2>2. b.token # Free
    BY <1>1, <1>3, DistributedLockAssumption
  <2>3. b.token[1] = c /\ b.token[2] = tries[c] + 1
    BY <1>1
  <2>4. b.token[2] \in 1..tries'[b.token[1]]
    BY <1>3, <2>3
  <2>5. lock[c] # b.token
    BY <2>1, <2>2, <2>3
  <2>6. QED
    BY <2>3, <2>4, <2>5
<1>7. QED
  BY <1>1, <1>4, <1>5, <1>6 DEF Tokens

LEMMA ExecuteTokens ==
  ASSUME TypeOK, Tokens, NEW a \in flight, Execute(a) \/ ExecuteFails(a)
  PROVE  Tokens'
<1>1. PICK what \in {"granted", "refused", "failed"} : Becomes(a, what)
  BY DEF Execute, ExecuteFails
<1>2. PICK b \in Attempt : b.token = a.token /\ flight' = (flight \ {a}) \cup {b}
  BY <1>1, BecomesIs
<1>3. UNCHANGED <<tries, lock>>
  BY DEF Execute, ExecuteFails
<1>4. QED
  BY <1>2, <1>3 DEF Tokens

\* Attempts that end, and the lock of a call that is granted one of them.
LEMMA AnsweredTokens ==
  ASSUME TypeOK, Tokens, NEW a \in flight, flight' = flight \ {a}, UNCHANGED tries,
         NEW c \in Calls, a.token[1] = c,
         lock' = lock \/ lock' = [lock EXCEPT ![c] = a.token]
  PROVE  Tokens'
<1>1. \A d \in Calls : lock'[d] # Free =>
                        lock'[d][1] = d /\ lock'[d][2] \in 1..tries'[d]
  BY DEF Tokens, TypeOK
<1>2. \A b \in flight' : b \in flight /\ b.token # a.token
  BY DEF Tokens
<1>3. \A b \in flight' : lock'[b.token[1]] # b.token
  BY <1>2, AttemptType DEF Tokens, TypeOK
<1>4. QED
  BY <1>1, <1>2, <1>3 DEF Tokens

LEMMA SameTokens ==
  ASSUME Tokens, UNCHANGED <<tries, flight, lock>>
  PROVE  Tokens'
BY DEF Tokens

LEMMA NextTokens == TypeOK /\ Tokens /\ [Next]_vars => Tokens'
<1> SUFFICES ASSUME TypeOK, Tokens, [Next]_vars PROVE Tokens'
  OBVIOUS
<1>1. ASSUME NEW c \in Calls, Call(c) \/ Hear(c) PROVE Tokens'
  BY <1>1, SendTokens DEF Call, Hear
<1>2. ASSUME NEW a \in flight, Execute(a) \/ ExecuteFails(a) PROVE Tokens'
  BY <1>2, ExecuteTokens
<1>3. ASSUME NEW c \in Calls, Answer(c) PROVE Tokens'
  <2>1. PICK a \in flight : /\ a.token = <<c, 1>> /\ flight' = flight \ {a}
                            /\ lock' = lock \/ lock' = [lock EXCEPT ![c] = a.token]
                            /\ tries' = tries
    BY <1>3 DEF Answer
  <2>2. QED
    BY <2>1, AnsweredTokens
<1>4. ASSUME NEW c \in Calls, AnswerAgain(c) PROVE Tokens'
  <2>1. PICK a \in flight : /\ a.token[1] = c /\ flight' = flight \ {a}
                            /\ lock' = lock \/ lock' = [lock EXCEPT ![c] = a.token]
                            /\ tries' = tries
    BY <1>4 DEF AnswerAgain
  <2>2. QED
    BY <2>1, AnsweredTokens
<1>5. ASSUME NEW c \in Calls,
             \/ Subscribe(c) \/ SubscribeFails(c) \/ Timeout(c) \/ CallbackEnds(c)
             \/ Release(c) \/ Publish(c) \/ Crash(c)
      PROVE  Tokens'
  BY <1>5, SameTokens
     DEF Subscribe, SubscribeFails, Timeout, CallbackEnds, Release, Publish, Crash
<1>6. CASE Expire \/ UNCHANGED vars
  BY <1>6, SameTokens DEF Expire, vars
<1>7. QED
  BY <1>1, <1>2, <1>3, <1>4, <1>5, <1>6 DEF Next, Run

-----------------------------------------------------------------------------
(***************************************************************************)
(* Locks that are held.                                                    *)
(***************************************************************************)
\* A step that takes the key from nobody.
LEMMA KeyKept ==
  ASSUME TypeOK, HeldOrLapsed, lapsed \subseteq lapsed', UNCHANGED lock,
         key' = key \/ key = Free \/ key \in lapsed',
         \A c \in Calls : pc'[c] \in {"running", "releasing"} =>
                           pc[c] \in {"running", "releasing"},
         \A a \in flight' : a.at = "granted" =>
            \/ \E b \in flight : b.token = a.token /\ b.at = "granted"
            \/ a.token = key'
  PROVE  HeldOrLapsed'
<1>1. \A t : (key = t \/ t \in lapsed) /\ t # Free => key' = t \/ t \in lapsed'
  OBVIOUS
<1>2. \A c \in Calls : pc'[c] \in {"running", "releasing"} =>
                      lock'[c] # Free /\ (key' = lock'[c] \/ lock'[c] \in lapsed')
  BY <1>1 DEF HeldOrLapsed
<1>3. \A a \in flight' : a.at = "granted" => key' = a.token \/ a.token \in lapsed'
  BY <1>1, AttemptType DEF HeldOrLapsed
<1>4. QED
  BY <1>2, <1>3 DEF HeldOrLapsed

\* A call is given the lock of an attempt that was granted.
LEMMA GrantedHeld ==
  ASSUME TypeOK, Tokens, HeldOrLapsed, NEW c \in Calls,
         NEW a \in flight, a.at = "granted", a.token[1] = c,
         flight' = flight \ {a}, lock' = [lock EXCEPT ![c] = a.token],
         pc' = [pc EXCEPT ![c] = "running"], UNCHANGED <<key, lapsed>>
  PROVE  HeldOrLapsed'
<1>1. a.token # Free /\ (key' = a.token \/ a.token \in lapsed')
  BY AttemptType DEF HeldOrLapsed
<1>2. lock'[c] = a.token /\ \A d \in Calls \ {c} : lock'[d] = lock[d] /\ pc'[d] = pc[d]
  BY DEF TypeOK
<1>3. QED
  BY <1>1, <1>2 DEF HeldOrLapsed

\* A release deletes the key of its own lock: nobody else holds it.
LEMMA ReleaseHeld ==
  ASSUME TypeOK, Tokens, HeldOrLapsed, NEW c \in Calls, Release(c)
  PROVE  HeldOrLapsed'
<1>1. /\ pc[c] = "releasing"
      /\ pc'[c] \notin {"running", "releasing"}
      /\ \A d \in Calls \ {c} : pc'[d] = pc[d]
      /\ UNCHANGED <<lapsed, flight, lock>>
      /\ key' = key \/ (key' = Free /\ key = lock[c])
  BY DEF Release, Goto, AfterDelete, Deletable, TypeOK
<1>2. lock[c] # Free
  BY <1>1 DEF HeldOrLapsed
<1>3. \A d \in Calls \ {c} : lock[d] # Free => lock[d] # lock[c]
  BY <1>2 DEF Tokens
<1>4. \A a \in flight : a.token # lock[c]
  <2> TAKE a \in flight
  <2>1. SUFFICES ASSUME a.token = lock[c] PROVE FALSE
    OBVIOUS
  <2>2. a.token[1] = c
    BY <1>2, <2>1 DEF Tokens
  <2>3. QED
    BY <2>1, <2>2 DEF Tokens
<1>5. QED
  BY <1>1, <1>3, <1>4 DEF HeldOrLapsed

LEMMA RunHeld ==
  ASSUME TypeOK, Tokens, HeldOrLapsed, NEW c \in Calls, Run(c)
  PROVE  HeldOrLapsed'
<1>1. CASE Answer(c)
  <2>1. PICK a \in flight :
          /\ a.token[1] = c /\ flight' = flight \ {a} /\ UNCHANGED <<key, lapsed>>
          /\ \/ /\ a.at = "granted" /\ lock' = [lock EXCEPT ![c] = a.token]
                /\ pc' = [pc EXCEPT ![c] = "running"]
             \/ /\ pc' = [pc EXCEPT ![c] = "waiting"] \/ pc' = [pc EXCEPT ![c] = "threw"]
                /\ UNCHANGED lock
    BY <1>1 DEF Answer, Goto, redis
  <2>2. QED
    BY <2>1, GrantedHeld, KeyKept DEF TypeOK
<1>2. CASE AnswerAgain(c)
  <2>1. PICK a \in flight :
          /\ a.token[1] = c /\ flight' = flight \ {a} /\ UNCHANGED <<key, lapsed>>
          /\ \/ /\ a.at = "granted" /\ lock' = [lock EXCEPT ![c] = a.token]
                /\ pc' = [pc EXCEPT ![c] = "running"]
             \/ UNCHANGED <<pc, lock>>
    BY <1>2 DEF AnswerAgain, Goto, redis
  <2>2. QED
    BY <2>1, GrantedHeld, KeyKept
<1>3. CASE Hear(c)
  <2>1. PICK b \in Attempt : b.at = "sent" /\ flight' = flight \cup {b}
    BY <1>3, SendIs DEF Hear
  <2>2. QED
    BY <1>3, <2>1, KeyKept DEF Hear, redis
<1>4. CASE Subscribe(c)
  BY <1>4, KeyKept DEF Subscribe, redis
<1>5. CASE SubscribeFails(c) \/ Timeout(c)
  BY <1>5, KeyKept DEF SubscribeFails, Timeout, Goto, redis, TypeOK
<1>6. CASE CallbackEnds(c)
  BY <1>6, KeyKept DEF CallbackEnds, Goto, redis, TypeOK
<1>7. CASE Release(c)
  BY <1>7, ReleaseHeld
<1>8. CASE Publish(c)
  BY <1>8, KeyKept DEF Publish, Goto, redis, TypeOK
<1>9. ASSUME NEW a \in flight, Execute(a) PROVE HeldOrLapsed'
  <2>1. PICK what \in {"granted", "refused"} :
          /\ Becomes(a, what)
          /\ what = "granted" => key' = a.token
          /\ key' = key \/ key = Free
          /\ UNCHANGED <<lapsed, pc, lock>>
    BY <1>9 DEF Execute
  <2>2. PICK b \in Attempt : /\ b.token = a.token /\ b.at = what
                             /\ flight' = (flight \ {a}) \cup {b}
    BY <2>1, BecomesIs
  <2>3. QED
    BY <2>1, <2>2, KeyKept
<1>10. ASSUME NEW a \in flight, ExecuteFails(a) PROVE HeldOrLapsed'
  <2>1. /\ Becomes(a, "failed")
        /\ key' = key \/ key = Free
        /\ UNCHANGED <<lapsed, pc, lock>>
    BY <1>10 DEF ExecuteFails
  <2>2. PICK b \in Attempt : b.at = "failed" /\ flight' = (flight \ {a}) \cup {b}
    BY <2>1, BecomesIs
  <2>3. QED
    BY <2>1, <2>2, KeyKept
<1>11. QED
  BY <1>1, <1>2, <1>3, <1>4, <1>5, <1>6, <1>7, <1>8, <1>9, <1>10 DEF Run

LEMMA NextHeld == TypeOK /\ Tokens /\ HeldOrLapsed /\ [Next]_vars => HeldOrLapsed'
<1> SUFFICES ASSUME TypeOK, Tokens, HeldOrLapsed, [Next]_vars PROVE HeldOrLapsed'
  OBVIOUS
<1>1. ASSUME NEW c \in Calls, Call(c) PROVE HeldOrLapsed'
  <2>1. PICK b \in Attempt : b.at = "sent" /\ flight' = flight \cup {b}
    BY <1>1, SendIs DEF Call
  <2>2. QED
    BY <1>1, <2>1, KeyKept DEF Call, Goto, redis, TypeOK
<1>2. ASSUME NEW c \in Calls, Crash(c) PROVE HeldOrLapsed'
  BY <1>2, KeyKept DEF Crash, redis, TypeOK
<1>3. CASE Expire
  BY <1>3, KeyKept DEF Expire
<1>4. CASE UNCHANGED vars
  BY <1>4, KeyKept DEF vars, redis
<1>5. QED
  BY <1>1, <1>2, <1>3, <1>4, RunHeld DEF Next

-----------------------------------------------------------------------------
(***************************************************************************)
(* Calls that wait.                                                        *)
(***************************************************************************)
\* What a call hopes for stays, unless the call ends or is counted as missed.
LEMMA HopeKept ==
  ASSUME TypeOK, Hope,
         \A d \in Hoping' \ missed' : d \in Hoping \ missed \/ key' # Free,
         key # Free => key' # Free,
         \A d \in Hoping' : mail[d] > 0 => mail'[d] > 0,
         \A d \in Calls : pc[d] = "publishing" => pc'[d] = "publishing",
         \A d \in Hoping' : \A a \in flight :
           a.token[1] = d /\ a.at = "sent" => a \in flight' \/ key' # Free
  PROVE  Hope'
<1>1. SUFFICES ASSUME NEW d \in Hoping' \ missed', d \in Hoping \ missed
               PROVE  \/ key' # Free \/ mail'[d] > 0
                      \/ \E a \in flight' : a.token[1] = d /\ a.at = "sent"
                      \/ \E x \in Calls : pc'[x] = "publishing"
  BY DEF Hope
<1>2. QED
  BY <1>1 DEF Hope, Hoping

\* The call that sends an attempt has something to hope for.
LEMMA SendHopes ==
  ASSUME TypeOK, Hope, NEW c \in Calls, Send(c), UNCHANGED <<key, missed>>,
         pc' = pc \/ (pc[c] = "idle" /\ pc' = [pc EXCEPT ![c] = "trying"]),
         \A d \in Calls \ {c} : mail'[d] = mail[d]
  PROVE  Hope'
<1>1. PICK b \in Attempt : /\ b.token = <<c, tries[c] + 1>> /\ b.at = "sent"
                           /\ flight' = flight \cup {b}
  BY SendIs
<1>2. \A d \in Hoping' \ {c} : d \in Hoping
  BY DEF Hoping, TypeOK
<1>3. \A d \in Calls : pc[d] = "publishing" => pc'[d] = "publishing"
  BY DEF TypeOK
<1>4. SUFFICES ASSUME NEW d \in Hoping' \ missed'
               PROVE  \/ key' # Free \/ mail'[d] > 0
                      \/ \E a \in flight' : a.token[1] = d /\ a.at = "sent"
                      \/ \E x \in Calls : pc'[x] = "publishing"
  BY DEF Hope
<1>5. CASE d = c
  BY <1>1, <1>5
<1>6. CASE d # c
  BY <1>1, <1>2, <1>3, <1>4, <1>6 DEF Hope, Hoping
<1>7. QED
  BY <1>5, <1>6

\* A call that hopes for the key ends, or is refused and waits.
LEMMA EndsHope ==
  ASSUME TypeOK, Hope, NEW c \in Calls, key' = key,
         NEW to \in Steps \ {"trying"}, pc' = [pc EXCEPT ![c] = to],
         pc[c] # "publishing",
         \/ to # "waiting" /\ missed \ {c} \subseteq missed'
         \/ pc[c] = "trying" /\ missed' = missed /\ mail' = mail,
         \A d \in Calls \ {c} : mail'[d] = mail[d],
         \A a \in flight : a.at = "sent" => a \in flight'
  PROVE  Hope'
<1>1. pc'[c] = to /\ \A d \in Calls \ {c} : pc'[d] = pc[d]
  BY DEF TypeOK
<1>2. \A d \in Hoping' \ missed' : d \in Hoping \ missed /\ mail'[d] = mail[d]
  BY <1>1 DEF Hoping
<1>3. QED
  BY <1>1, <1>2, HopeKept DEF Hoping

\* Everyone who hopes is counted as missed, or somebody is about to publish.
LEMMA AllMissed ==
  ASSUME TypeOK, Hope, Hoping' \subseteq Hoping, Hoping \subseteq missed'
  PROVE  Hope'
BY DEF Hope, Hoping

LEMMA ReleaseHope ==
  ASSUME TypeOK, Hope, NEW c \in Calls, Release(c)
  PROVE  Hope'
<1>1. pc[c] = "releasing" /\ \A d \in Calls \ {c} : pc'[d] = pc[d]
  BY DEF Release, Goto, TypeOK
<1>2. pc'[c] \in {"publishing", "returned", "threw"}
  BY DEF Release, Goto, AfterDelete, TypeOK
<1>3. Hoping' \subseteq Hoping
  BY <1>1, <1>2 DEF Hoping
<1>4. CASE pc'[c] = "publishing"
  BY <1>4 DEF Hope
<1>5. CASE pc'[c] # "publishing" /\ key' = key /\ missed' = missed
  <2>1. UNCHANGED <<flight, mail>>
    BY DEF Release
  <2>2. QED
    BY <1>1, <1>3, <1>5, <2>1, HopeKept
<1>6. CASE Hoping \subseteq missed'
  BY <1>3, <1>6, AllMissed
<1>7. QED
  BY <1>4, <1>5, <1>6 DEF Release, Goto, AfterDelete, TypeOK

LEMMA PublishHope ==
  ASSUME TypeOK, Hope, NEW c \in Calls, Publish(c)
  PROVE  Hope'
<1>1. pc[c] = "publishing" /\ Hoping' \subseteq Hoping
  BY DEF Publish, Goto, Hoping, TypeOK
<1>2. CASE missed' = missed \cup Hoping
  BY <1>1, <1>2, AllMissed
<1>3. CASE /\ mail' = [d \in Calls |-> IF d \in subscribed THEN mail[d] + 1 ELSE mail[d]]
           /\ missed' = (missed \ subscribed) \cup (Hoping \ subscribed)
  <2>1. SUFFICES ASSUME NEW d \in Hoping' \ missed' PROVE mail'[d] > 0
    BY DEF Hope
  <2>2. d \in Calls /\ d \in subscribed /\ mail[d] \in Nat
    BY <1>1, <1>3, <2>1 DEF Hoping, TypeOK
  <2>3. QED
    BY <1>3, <2>2
<1>4. QED
  BY <1>2, <1>3 DEF Publish

LEMMA ExecuteHope ==
  ASSUME TypeOK, Hope, NEW a \in flight, Execute(a) \/ ExecuteFails(a)
  PROVE  Hope'
<1>1. PICK what \in {"granted", "refused", "failed"} : Becomes(a, what)
  BY DEF Execute, ExecuteFails
<1>2. PICK b \in Attempt : flight' = (flight \ {a}) \cup {b}
  BY <1>1, BecomesIs
<1>3. UNCHANGED <<pc, mail>> /\ missed \subseteq missed'
  BY DEF Execute, ExecuteFails
<1>4. key # Free => key' # Free
  BY AttemptType DEF Execute, ExecuteFails
<1>5. key' # Free \/ \A d \in Hoping' \ missed' : d # a.token[1]
  <2>1. CASE Execute(a)
    BY <2>1, AttemptType DEF Execute
  <2>2. CASE ExecuteFails(a)
    BY <1>3, <2>2 DEF ExecuteFails, Hoping
  <2>3. QED
    BY <2>1, <2>2
<1>6. CASE key' # Free
  BY <1>6 DEF Hope
<1>7. CASE key' = Free
  <2>1. SUFFICES ASSUME NEW d \in Hoping' \ missed'
                 PROVE  \/ mail'[d] > 0
                        \/ \E x \in flight' : x.token[1] = d /\ x.at = "sent"
                        \/ \E x \in Calls : pc'[x] = "publishing"
    BY DEF Hope
  <2>2. d \in Hoping \ missed /\ d # a.token[1] /\ key = Free
    BY <1>3, <1>4, <1>5, <1>7 DEF Hoping
  <2>3. QED
    BY <1>2, <1>3, <2>2 DEF Hope
<1>8. QED
  BY <1>6, <1>7

LEMMA RunHope ==
  ASSUME TypeOK, Hope, NEW c \in Calls, Run(c)
  PROVE  Hope'
<1>1. CASE Answer(c)
  <2>1. PICK a \in flight :
          /\ a.at # "sent" /\ flight' = flight \ {a} /\ pc[c] = "trying"
          /\ UNCHANGED <<key, mail>>
          /\ \/ pc' = [pc EXCEPT ![c] = "running"] /\ missed' = missed \ {c}
             \/ pc' = [pc EXCEPT ![c] = "waiting"] /\ missed' = missed
             \/ pc' = [pc EXCEPT ![c] = "threw"] /\ missed' = missed \ {c}
    BY <1>1 DEF Answer, Goto, redis
  <2>2. QED
    BY <2>1, EndsHope DEF Steps, Ended
<1>2. CASE AnswerAgain(c)
  <2>1. PICK a \in flight :
          /\ a.at # "sent" /\ flight' = flight \ {a} /\ key' = key
          /\ \/ /\ pc[c] = "waiting" /\ pc' = [pc EXCEPT ![c] = "running"]
                /\ missed' = missed \ {c}
                /\ mail' = [mail EXCEPT ![c] = 0]
             \/ UNCHANGED <<pc, mail, missed>>
    BY <1>2 DEF AnswerAgain, Goto, Cleanup, redis
  <2>2. CASE UNCHANGED <<pc, mail, missed>>
    BY <2>1, <2>2, HopeKept DEF Hoping
  <2>3. CASE /\ pc[c] = "waiting" /\ pc' = [pc EXCEPT ![c] = "running"]
             /\ missed' = missed \ {c}
             /\ mail' = [mail EXCEPT ![c] = 0]
    BY <2>1, <2>3, EndsHope DEF Steps, TypeOK
  <2>4. QED
    BY <2>1, <2>2, <2>3
<1>3. CASE Hear(c)
  <2>1. \A d \in Calls \ {c} : mail'[d] = mail[d]
    BY <1>3 DEF Hear, TypeOK
  <2>2. QED
    BY <1>3, <2>1, SendHopes DEF Hear, redis
<1>4. CASE Subscribe(c)
  BY <1>4, HopeKept DEF Subscribe, Hoping, redis
<1>5. CASE SubscribeFails(c) \/ Timeout(c)
  <2>1. /\ pc[c] = "waiting" /\ pc' = [pc EXCEPT ![c] = "threw"]
        /\ missed' = missed \ {c} /\ mail' = [mail EXCEPT ![c] = 0]
        /\ UNCHANGED <<key, flight>>
    BY <1>5 DEF SubscribeFails, Timeout, Goto, Cleanup, redis
  <2>2. QED
    BY <2>1, EndsHope DEF Steps, Ended, TypeOK
<1>6. CASE CallbackEnds(c)
  BY <1>6, EndsHope DEF CallbackEnds, Goto, Steps, redis
<1>7. CASE Release(c)
  BY <1>7, ReleaseHope
<1>8. CASE Publish(c)
  BY <1>8, PublishHope
<1>9. ASSUME NEW a \in flight, Execute(a) \/ ExecuteFails(a) PROVE Hope'
  BY <1>9, ExecuteHope
<1>10. QED
  BY <1>1, <1>2, <1>3, <1>4, <1>5, <1>6, <1>7, <1>8, <1>9 DEF Run

LEMMA NextHope == TypeOK /\ Hope /\ [Next]_vars => Hope'
<1> SUFFICES ASSUME TypeOK, Hope, [Next]_vars PROVE Hope'
  OBVIOUS
<1>1. ASSUME NEW c \in Calls, Call(c) PROVE Hope'
  BY <1>1, SendHopes DEF Call, Goto, redis
<1>2. ASSUME NEW c \in Calls, Crash(c) PROVE Hope'
  <2>1. /\ pc' = [pc EXCEPT ![c] = "crashed"] /\ mail' = [mail EXCEPT ![c] = 0]
        /\ UNCHANGED <<key, flight>>
    BY <1>2 DEF Crash, Cleanup, redis
  <2>2. CASE pc[c] = "publishing"
    <3>1. \A d \in Hoping' : d \in Hoping /\ d # c
      BY <2>1 DEF Hoping, TypeOK
    <3>2. Hoping \ {c} \subseteq missed'
      BY <1>2, <2>2 DEF Crash
    <3>3. QED
      BY <3>1, <3>2 DEF Hope
  <2>3. CASE pc[c] # "publishing"
    BY <1>2, <2>1, <2>3, EndsHope DEF Crash, Steps, Ended, TypeOK
  <2>4. QED
    BY <2>2, <2>3
<1>3. CASE Expire
  BY <1>3, AllMissed DEF Expire, Hoping
<1>4. CASE UNCHANGED vars
  BY <1>4, HopeKept DEF vars, redis, Hoping
<1>5. QED
  BY <1>1, <1>2, <1>3, <1>4, RunHope DEF Next

-----------------------------------------------------------------------------
LEMMA InitInv == Init => Inv
<1> SUFFICES ASSUME Init PROVE Inv
  OBVIOUS
<1>1. Tokens /\ HeldOrLapsed /\ Hope
  BY DEF Init, Tokens, HeldOrLapsed, Hope, Hoping
<1>2. QED
  BY <1>1, InitTypeOK DEF Inv

LEMMA Invariance == Spec => []Inv
<1>1. Inv /\ [Next]_vars => Inv'
  BY NextTypeOK, NextTokens, NextHeld, NextHope DEF Inv
<1>2. QED
  BY <1>1, InitInv, PTL DEF Spec

\* Two callbacks run at once only when the key of one of them has expired under
\* it, for any number of calls (withLockExtended, releaseLock).
THEOREM ExclusiveHolds == Spec => []Exclusive
<1>1. Inv => Exclusive
  <2> SUFFICES ASSUME Inv, NEW c \in Calls, NEW d \in Calls, c # d,
                      pc[c] = "running", pc[d] = "running",
                      lock[c] \notin lapsed, lock[d] \notin lapsed
               PROVE  FALSE
    BY DEF Exclusive
  <2>1. key = lock[c] /\ key = lock[d] /\ key # Free
    BY DEF Inv, HeldOrLapsed
  <2>2. lock[c][1] = c /\ lock[d][1] = d
    BY <2>1 DEF Inv, Tokens
  <2>3. QED
    BY <2>1, <2>2
<1>2. QED
  BY <1>1, Invariance, PTL

\* A subscribed call waits for a free key only if nobody could tell it
\* (waitForLockWithPubSub, publishLockRelease).
THEOREM StrandedForCauseHolds == Spec => []StrandedForCause
<1>1. Inv => StrandedForCause
  BY DEF Inv, TypeOK, Hope, Hoping, StrandedForCause, Stranded
<1>2. QED
  BY <1>1, Invariance, PTL

-----------------------------------------------------------------------------
(***************************************************************************)
(* The cache: types.                                                       *)
(***************************************************************************)
LEMMA CacheInitTypeOK == CacheInit => CacheTypeOK
BY ProductCacheAssumption DEF CacheInit, CacheTypeOK, Slots

\* A request past its lookup has a slot.
LEMMA SlotType ==
  ASSUME CacheTypeOK, NEW r \in Requests, at[r] # "idle"
  PROVE  Slot(r) \in Slots
BY ProductCacheAssumption DEF CacheTypeOK, Slot, Slots

LEMMA FilledType ==
  ASSUME CacheTypeOK, NEW r \in Requests, at[r] # "idle"
  PROVE  Filled(r) \in [Slots -> (SUBSET Movements) \cup {NoEntry}]
BY SlotType DEF CacheTypeOK, Filled

LEMMA DropType ==
  ASSUME CacheTypeOK, NEW slots, Drop(slots)
  PROVE  /\ memory' \in [Slots -> (SUBSET Movements) \cup {NoEntry}]
         /\ older' \in [Movements -> SUBSET Slots]
BY DEF CacheTypeOK, Drop

LEMMA RecordType ==
  ASSUME CacheTypeOK, NEW m \in Movements, Record(m)
  PROVE  committed' \subseteq Movements /\ older' \in [Movements -> SUBSET Slots]
BY DEF CacheTypeOK, Record, InUse

LEMMA MoveTypeOK ==
  ASSUME CacheTypeOK, NEW m \in Movements, Move(m)
  PROVE  CacheTypeOK'
<1> USE DEF CacheTypeOK, Advance, query
<1>0. \A r \in Requests : r # m
  BY ProductCacheAssumption
<1>1. CASE Commit(m)
  BY <1>0, <1>1, RecordType DEF Commit
<1>2. CASE CommitThrows(m)
  BY <1>0, <1>2, RecordType DEF CommitThrows
<1>3. CASE Invalidated(m)
  BY <1>0, <1>3 DEF Invalidated
<1>4. CASE InvalidationFails(m)
  BY <1>0, <1>4 DEF InvalidationFails
<1>5. QED
  BY <1>1, <1>2, <1>3, <1>4 DEF Move

LEMMA RequestTypeOK ==
  ASSUME CacheTypeOK, NEW r \in Requests, Request(r)
  PROVE  CacheTypeOK'
<1> USE DEF CacheTypeOK, Advance, query
<1>1. ASSUME NEW k \in Keys, Get(r, k) PROVE CacheTypeOK'
  <2>1. memory[ServerOf[r], k] \in (SUBSET Movements) \cup {NoEntry}
    BY ProductCacheAssumption DEF Slots
  <2>2. k # NoEntry
    BY ProductCacheAssumption
  <2>3. /\ asked' \in [Requests -> Keys \cup {NoEntry}]
        /\ \A q \in Requests : asked'[q] = NoEntry => at'[q] = "idle"
    BY <1>1, <2>2 DEF Get
  <2>4. held' \in [Requests -> SUBSET Movements] /\ hit' \subseteq Requests
    BY <1>1, <2>1 DEF Get
  <2>5. QED
    BY <1>1, <2>3, <2>4 DEF Get
<1>2. CASE Read(r)
  BY <1>2 DEF Read
<1>3. CASE ReadFails(r)
  BY <1>3 DEF ReadFails
<1>4. CASE Set(r)
  BY <1>4, FilledType DEF Set
<1>5. QED
  BY <1>1, <1>2, <1>3, <1>4 DEF Request

LEMMA CacheNextTypeOK == CacheTypeOK /\ [CacheNext]_cacheVars => CacheTypeOK'
<1> SUFFICES ASSUME CacheTypeOK, [CacheNext]_cacheVars PROVE CacheTypeOK'
  OBVIOUS
<1>1. ASSUME NEW s \in Slots, ExpireEntry(s) PROVE CacheTypeOK'
  BY <1>1, DropType DEF ExpireEntry, CacheTypeOK, query
<1>2. ASSUME NEW p \in Servers, CrashServer(p) PROVE CacheTypeOK'
  <2>1. \A r \in Requests : asked'[r] = NoEntry => at'[r] = "idle"
    BY <1>2 DEF CrashServer, CacheTypeOK, query
  <2>2. QED
    BY <1>2, <2>1, DropType DEF CrashServer, CacheTypeOK, query
<1>3. CASE UNCHANGED cacheVars
  BY <1>3 DEF cacheVars, query, CacheTypeOK
<1>4. QED
  BY <1>1, <1>2, <1>3, MoveTypeOK, RequestTypeOK DEF CacheNext

\* The variables keep their types.
THEOREM CacheTypeCorrect == CacheSpec => []CacheTypeOK
BY CacheInitTypeOK, CacheNextTypeOK, PTL DEF CacheSpec

-----------------------------------------------------------------------------
(***************************************************************************)
(* What is gone stays gone.                                                *)
(***************************************************************************)
\* A step that writes nothing old to the slot, and after which every request
\* that is about to write there was so before, with the same value.
LEMMA StaysGone ==
  ASSUME NEW m, NEW p, NEW k, Gone(m, p, k),
         memory'[p, k] \in {memory[p, k], NoEntry},
         \A r \in Requests :
           at'[r] = "set" => at[r] = "set" /\ asked'[r] = asked[r] /\ held'[r] = held[r]
  PROVE  Gone(m, p, k)'
BY DEF Gone, Slot

LEMMA MoveKeepsGone ==
  ASSUME CacheTypeOK, NEW x \in Movements, Move(x),
         NEW m, NEW p, NEW k, Gone(m, p, k)
  PROVE  Gone(m, p, k)'
<1>1. UNCHANGED <<memory, asked, held>>
  BY DEF Move, Commit, CommitThrows, Invalidated, InvalidationFails, query
<1>2. \A r \in Requests : at'[r] = at[r]
  <2>1. PICK to : at' = [at EXCEPT ![x] = to]
    BY DEF Move, Commit, CommitThrows, Invalidated, InvalidationFails, Advance
  <2>2. QED
    BY <2>1, ProductCacheAssumption DEF CacheTypeOK
<1>3. QED
  BY <1>1, <1>2, StaysGone

LEMMA RequestKeepsGone ==
  ASSUME CacheTypeOK, NEW r \in Requests, Request(r),
         NEW m \in committed, NEW p \in Servers, NEW k \in Keys, Gone(m, p, k)
  PROVE  Gone(m, p, k)'
<1>1. ASSUME NEW l \in Keys, Get(r, l) PROVE Gone(m, p, k)'
  <2>1. memory' = memory /\ at'[r] # "set"
    BY <1>1 DEF Get, Advance, CacheTypeOK
  <2>2. \A q \in Requests \ {r} :
          at'[q] = at[q] /\ asked'[q] = asked[q] /\ held'[q] = held[q]
    BY <1>1 DEF Get, Advance, CacheTypeOK
  <2>3. QED
    BY <2>1, <2>2, StaysGone
\* A read sees the movement, which is committed.
<1>2. CASE Read(r)
  <2>1. memory' = memory /\ asked' = asked /\ m \in held'[r]
    BY <1>2 DEF Read, CacheTypeOK
  <2>2. \A q \in Requests \ {r} : at'[q] = at[q] /\ held'[q] = held[q]
    BY <1>2 DEF Read, Advance, CacheTypeOK
  <2>3. QED
    BY <2>1, <2>2 DEF Gone, Slot
<1>3. CASE ReadFails(r)
  <2>1. at'[r] # "set" /\ \A q \in Requests \ {r} : at'[q] = at[q]
    BY <1>3 DEF ReadFails, Advance, CacheTypeOK
  <2>2. QED
    BY <1>3, <2>1, StaysGone DEF ReadFails, query
\* A fill of this slot writes what its request holds, a fill of another leaves
\* it alone.
<1>4. CASE Set(r)
  <2>1. /\ asked' = asked /\ held' = held
        /\ \A q \in Requests : at'[q] = "set" => at[q] = "set"
    BY <1>4 DEF Set, Advance, CacheTypeOK, query
  <2>2. at[r] = "set" /\ memory' = [memory EXCEPT ![Slot(r)] = held[r]]
    BY <1>4 DEF Set, Advance, Filled
  <2>3. <<p, k>> \in Slots
    BY DEF Slots
  <2>4. CASE Slot(r) = <<p, k>>
    <3>1. memory'[<<p, k>>] = held[r] /\ m \in held[r]
      BY <2>2, <2>3, <2>4 DEF CacheTypeOK, Gone
    <3>2. QED
      BY <2>1, <3>1 DEF Gone, Slot
  <2>5. CASE Slot(r) # <<p, k>>
    <3>1. memory'[<<p, k>>] = memory[<<p, k>>]
      BY <2>2, <2>3, <2>5 DEF CacheTypeOK
    <3>2. QED
      BY <2>1, <3>1, StaysGone
  <2>6. QED
    BY <2>4, <2>5
<1>5. QED
  BY <1>1, <1>2, <1>3, <1>4 DEF Request

\* An expiry or a crash deletes entries, and ends requests.
LEMMA DropKeepsGone ==
  ASSUME NEW slots, Drop(slots), UNCHANGED query,
         \A r \in Requests : at'[r] = "set" => at[r] = "set",
         NEW m, NEW p \in Servers, NEW k \in Keys, Gone(m, p, k)
  PROVE  Gone(m, p, k)'
<1>1. memory'[p, k] \in {memory[p, k], NoEntry}
  BY DEF Drop, Slots
<1>2. QED
  BY <1>1, StaysGone DEF query

LEMMA StepKeepsGone ==
  ASSUME CacheTypeOK, [CacheNext]_cacheVars
  PROVE  \A m \in committed, p \in Servers, k \in Keys : Gone(m, p, k) => Gone(m, p, k)'
<1>1. SUFFICES ASSUME NEW m \in committed, NEW p \in Servers, NEW k \in Keys, Gone(m, p, k)
               PROVE  Gone(m, p, k)'
  OBVIOUS
<1>2. ASSUME NEW x \in Movements, Move(x) PROVE Gone(m, p, k)'
  BY <1>1, <1>2, MoveKeepsGone
<1>3. ASSUME NEW r \in Requests, Request(r) PROVE Gone(m, p, k)'
  BY <1>1, <1>3, RequestKeepsGone
<1>4. ASSUME NEW s \in Slots, ExpireEntry(s) PROVE Gone(m, p, k)'
  BY <1>1, <1>4, DropKeepsGone DEF ExpireEntry
<1>5. ASSUME NEW x \in Servers, CrashServer(x) PROVE Gone(m, p, k)'
  <2>1. \A r \in Requests : at'[r] = "set" => at[r] = "set"
    BY <1>5 DEF CrashServer
  <2>2. QED
    BY <1>1, <1>5, <2>1, DropKeepsGone DEF CrashServer
<1>6. CASE UNCHANGED cacheVars
  BY <1>1, <1>6, StaysGone DEF cacheVars, query
<1>7. QED
  BY <1>2, <1>3, <1>4, <1>5, <1>6 DEF CacheNext

\* Whoever overlaps, fails or crashes: once the entries of a process and its
\* requests under way are past a committed movement, they stay past it.
THEOREM GoneForGoodHolds == CacheSpec => GoneForGood
<1>1. CacheTypeOK /\ [CacheNext]_cacheVars =>
        [\A m \in committed, p \in Servers, k \in Keys :
           Gone(m, p, k) => Gone(m, p, k)']_cacheVars
  BY StepKeepsGone
<1>2. QED
  BY <1>1, CacheTypeCorrect, PTL DEF CacheSpec, GoneForGood
=============================================================================
