-------------------------- MODULE BlconfCacheProofs --------------------------
(***************************************************************************)
(* Theorems about the client cache: whose reply is whose, what an          *)
(* application that has set a value reads back, how far the cache may be   *)
(* behind, and that its daemon keeps the promises of SettingsStore.        *)
(***************************************************************************)
EXTENDS BlconfCache, SequenceCounts

\* The messages on the connection.
SetCalls(p) == [kind : {"set"}, prop : {p}, value : Val]
Replies(p) == [kind : {"reply"}, prop : {p}, ok : BOOLEAN]
Signals(p) == [kind : {"changed"}, prop : {p}, value : Val] \cup [kind : {"removed"}, prop : {p}]
Blocking == [kind : {"get"}, prop : Prop] \cup [kind : {"get all"}]
              \cup [kind : {"reset"}, prop : Prop, recursive : BOOLEAN]

CallMessage == Blocking \cup UNION {SetCalls(p) : p \in Prop}
InboxMessage == UNION {Replies(p) \cup Signals(p) : p \in Prop}
Answer == [kind : {"none", "done", "not found", "bus error"}] \cup [kind : {"value"}, value : Val]
            \cup [kind : {"values"}, values : [Prop -> Val \cup {Unset}]]
Operation == [kind : {"none", "prefetch"}] \cup [kind : {"lookup"}, prop : Prop]
               \cup [kind : {"set"}, prop : Prop, value : Val]
               \cup [kind : {"reset"}, prop : Prop, recursive : BOOLEAN]

-----------------------------------------------------------------------------
(* The messages.                                                           *)

\* A call is told apart by its kind and its property.
LEMMA CallKinds ==
    ASSUME NEW m \in CallMessage
    PROVE  /\ m.kind \in {"get", "get all", "reset", "set"}
           /\ m.kind = "set" => m.prop \in Prop /\ m.value \in Val
           /\ m.kind = "get" => m.prop \in Prop
           /\ m.kind = "reset" => m.prop \in Prop /\ m.recursive \in BOOLEAN
           /\ \A p \in Prop : m \in SetCalls(p) <=> m.kind = "set" /\ m.prop = p
<1>1. ASSUME NEW q \in Prop, m \in SetCalls(q)
      PROVE  /\ m.kind = "set" /\ m.prop = q /\ m.value \in Val
             /\ \A p \in Prop : m \in SetCalls(p) <=> m.prop = p
  BY <1>1 DEF SetCalls
<1>2. ASSUME m \in Blocking
      PROVE  /\ m.kind \in {"get", "get all", "reset"}
             /\ m.kind = "get" => m.prop \in Prop
             /\ m.kind = "reset" => m.prop \in Prop /\ m.recursive \in BOOLEAN
             /\ \A p \in Prop : m \notin SetCalls(p)
  BY <1>2 DEF Blocking, SetCalls
<1>3. QED
  BY <1>1, <1>2 DEF CallMessage

\* So is what arrives.
LEMMA InboxKinds ==
    ASSUME NEW m \in InboxMessage
    PROVE  /\ m.kind \in {"reply", "changed", "removed"} /\ m.prop \in Prop
           /\ m.kind = "reply" => m.ok \in BOOLEAN
           /\ m.kind = "changed" => m.value \in Val
           /\ \A p \in Prop : m \in Replies(p) <=> m.kind = "reply" /\ m.prop = p
           /\ \A p \in Prop : m \in Signals(p) <=> m.kind # "reply" /\ m.prop = p
  BY DEF InboxMessage, Replies, Signals

\* Sets of p whose reply has not been taken.
Pending(c, b, p) == Count(c, SetCalls(p)) + Count(b, Replies(p))

\* That is what InFlight counts.
LEMMA PendingIsInFlight ==
    ASSUME NEW c \in Seq(CallMessage), NEW b \in Seq(InboxMessage), NEW p \in Prop
    PROVE  Cardinality({i \in DOMAIN c : c[i].kind = "set" /\ c[i].prop = p})
             + Cardinality({i \in DOMAIN b : b[i].kind = "reply" /\ b[i].prop = p})
               = Pending(c, b, p)
<1>1. \A i \in DOMAIN c : c[i] \in CallMessage
  BY ElementOfSeq, LenProperties
<1>2. \A i \in DOMAIN b : b[i] \in InboxMessage
  BY ElementOfSeq, LenProperties
<1>3. {i \in DOMAIN c : c[i].kind = "set" /\ c[i].prop = p} = Positions(c, SetCalls(p))
  BY <1>1, CallKinds DEF Positions
<1>4. {i \in DOMAIN b : b[i].kind = "reply" /\ b[i].prop = p} = Positions(b, Replies(p))
  BY <1>2, InboxKinds DEF Positions
<1>5. QED
  BY <1>3, <1>4 DEF Pending, Count

\* Appending a call, taking what has arrived, and what the daemon does between.
LEMMA PendingCall ==
    ASSUME NEW c \in Seq(CallMessage), NEW b \in Seq(InboxMessage), NEW m \in CallMessage,
           NEW p \in Prop
    PROVE  /\ Append(c, m) \in Seq(CallMessage) /\ Pending(c, b, p) \in Nat
           /\ Pending(Append(c, m), b, p) = Pending(c, b, p) + IF m \in SetCalls(p) THEN 1 ELSE 0
<1>1. Append(c, m) \in Seq(CallMessage)
  BY AppendProperties
<1>2. Count(c, SetCalls(p)) \in Nat /\ Count(b, Replies(p)) \in Nat
  BY CountType
<1>3. Count(Append(c, m), SetCalls(p)) = Count(c, SetCalls(p)) + IF m \in SetCalls(p) THEN 1 ELSE 0
  BY CountAppend
<1>4. QED
  BY <1>1, <1>2, <1>3 DEF Pending

LEMMA PendingArrives ==
    ASSUME NEW c \in Seq(CallMessage), NEW b \in Seq(InboxMessage), NEW m \in InboxMessage,
           NEW p \in Prop
    PROVE  /\ Append(b, m) \in Seq(InboxMessage) /\ Pending(c, b, p) \in Nat
           /\ Pending(c, Append(b, m), p) = Pending(c, b, p) + IF m \in Replies(p) THEN 1 ELSE 0
<1>1. Append(b, m) \in Seq(InboxMessage)
  BY AppendProperties
<1>2. Count(c, SetCalls(p)) \in Nat /\ Count(b, Replies(p)) \in Nat
  BY CountType
<1>3. Count(Append(b, m), Replies(p)) = Count(b, Replies(p)) + IF m \in Replies(p) THEN 1 ELSE 0
  BY CountAppend
<1>4. QED
  BY <1>1, <1>2, <1>3 DEF Pending

LEMMA PendingServed ==
    ASSUME NEW c \in Seq(CallMessage), c # <<>>, NEW b \in Seq(InboxMessage), NEW p \in Prop
    PROVE  /\ Tail(c) \in Seq(CallMessage) /\ Head(c) \in CallMessage
           /\ Pending(c, b, p) \in Nat /\ Pending(Tail(c), b, p) \in Nat
           /\ Pending(c, b, p) = Pending(Tail(c), b, p) + IF Head(c) \in SetCalls(p) THEN 1 ELSE 0
<1>1. Tail(c) \in Seq(CallMessage) /\ Head(c) \in CallMessage
  BY HeadTailProperties
<1>2. /\ Count(c, SetCalls(p)) \in Nat /\ Count(Tail(c), SetCalls(p)) \in Nat
      /\ Count(b, Replies(p)) \in Nat
  BY <1>1, CountType
<1>3. Count(c, SetCalls(p)) = Count(Tail(c), SetCalls(p)) + IF Head(c) \in SetCalls(p) THEN 1 ELSE 0
  BY CountTail
<1>4. QED
  BY <1>1, <1>2, <1>3 DEF Pending

LEMMA PendingTaken ==
    ASSUME NEW c \in Seq(CallMessage), NEW b \in Seq(InboxMessage), b # <<>>, NEW p \in Prop
    PROVE  /\ Tail(b) \in Seq(InboxMessage) /\ Head(b) \in InboxMessage
           /\ Pending(c, b, p) \in Nat /\ Pending(c, Tail(b), p) \in Nat
           /\ Pending(c, b, p) = Pending(c, Tail(b), p) + IF Head(b) \in Replies(p) THEN 1 ELSE 0
<1>1. Tail(b) \in Seq(InboxMessage) /\ Head(b) \in InboxMessage
  BY HeadTailProperties
<1>2. /\ Count(b, Replies(p)) \in Nat /\ Count(Tail(b), Replies(p)) \in Nat
      /\ Count(c, SetCalls(p)) \in Nat
  BY <1>1, CountType
<1>3. Count(b, Replies(p)) = Count(Tail(b), Replies(p)) + IF Head(b) \in Replies(p) THEN 1 ELSE 0
  BY CountTail
<1>4. QED
  BY <1>1, <1>2, <1>3 DEF Pending

\* When the daemon dies each unserved set gets one reply, whatever blocking
\* call is among them.
LEMMA PendingDies ==
    ASSUME calls \in Seq(CallMessage), NEW b \in Seq(InboxMessage),
           NEW nth \in [1..Cardinality(Unserved) -> Unserved],
           \A i, j \in DOMAIN nth : i < j => nth[i] < nth[j]
    PROVE  LET r == [i \in DOMAIN nth |-> Reply(calls[nth[i]].prop, FALSE)]
           IN  /\ b \o r \in Seq(InboxMessage)
               /\ \A p \in Prop : Pending(<<>>, b \o r, p) = Pending(calls, b, p)
<1> DEFINE n == Cardinality(Unserved)
           r == [i \in DOMAIN nth |-> Reply(calls[nth[i]].prop, FALSE)]
<1>1. Len(calls) \in Nat /\ DOMAIN calls = 1..Len(calls)
  BY LenProperties
<1>2. \A i \in DOMAIN calls : calls[i] \in CallMessage
  BY <1>1, ElementOfSeq
<1>3. /\ IsFiniteSet(Unserved) /\ Unserved \in SUBSET (1..Len(calls))
      /\ n \in Nat
  <2>1. Unserved \in SUBSET (1..Len(calls))
    BY <1>1 DEF Unserved
  <2>2. IsFiniteSet(1..Len(calls))
    BY <1>1, FS_Interval
  <2>3. IsFiniteSet(Unserved)
    BY <2>1, <2>2, FS_Subset
  <2>4. n \in Nat
    BY <2>3, FS_CardinalityType
  <2>5. QED
    BY <2>1, <2>3, <2>4
<1> HIDE DEF n
<1>4. DOMAIN nth = 1..n /\ IsFiniteSet(1..n) /\ Cardinality(1..n) = n
  BY <1>3, FS_Interval DEF n
<1>5. \A i \in 1..n : /\ nth[i] \in DOMAIN calls /\ calls[nth[i]].kind = "set"
                      /\ calls[nth[i]].prop \in Prop
  <2>1. \A i \in 1..n : nth[i] \in Unserved
    BY <1>4
  <2>2. QED
    BY <2>1, <1>2, CallKinds DEF Unserved
<1>6. \A i, j \in 1..n : nth[i] = nth[j] => i = j
  <2>1. \A i \in 1..n : nth[i] \in Int
    BY <1>1, <1>5
  <2>2. QED
    BY <1>3, <1>4, <2>1
<1>7. \A k \in Unserved : \E i \in 1..n : nth[i] = k
  <2>1. nth \in Injection(1..n, Unserved)
    BY <1>4, <1>6 DEF Injection, IsInjective, n
  <2>2. nth \in Surjection(1..n, Unserved)
    BY <2>1, <1>3, <1>4, FS_Injection DEF n
  <2>3. QED
    BY <2>2 DEF Surjection
<1>8. /\ r \in Seq(InboxMessage) /\ DOMAIN r = 1..n
      /\ \A i \in 1..n, p \in Prop : r[i] \in Replies(p) <=> calls[nth[i]].prop = p
  <2>1. \A i \in 1..n : r[i] = Reply(calls[nth[i]].prop, FALSE)
    BY <1>4
  <2>2. \A i \in 1..n, p \in Prop :
           (r[i] \in Replies(p) <=> calls[nth[i]].prop = p) /\ r[i] \in InboxMessage
    <3>1. SUFFICES ASSUME NEW i \in 1..n, NEW p \in Prop
                   PROVE  (r[i] \in Replies(p) <=> calls[nth[i]].prop = p) /\ r[i] \in InboxMessage
      OBVIOUS
    <3>2. PICK q \in Prop : q = calls[nth[i]].prop
      BY <1>5
    <3>3. r[i] = [kind |-> "reply", prop |-> q, ok |-> FALSE]
      BY <2>1, <3>2 DEF Reply
    <3> HIDE DEF r
    <3>4. r[i] \in Replies(q) /\ (r[i] \in Replies(p) <=> q = p)
      BY <3>3 DEF Replies
    <3>5. QED
      BY <3>2, <3>4 DEF InboxMessage
  <2>3. DOMAIN r = 1..n
    BY <1>4
  <2>4. \A i \in 1..n : r[i] \in InboxMessage
    BY <1>5, <2>2
  <2>5. r = [i \in 1..n |-> r[i]]
    BY <2>3
  <2> HIDE DEF r
  <2>6. QED
    BY <1>3, <2>2, <2>3, <2>4, <2>5
<1> HIDE DEF r
<1>9. ASSUME NEW p \in Prop
      PROVE  Count(r, Replies(p)) = Count(calls, SetCalls(p))
  <2> DEFINE f == [i \in Positions(r, Replies(p)) |-> nth[i]]
  <2>1. \A i \in Positions(r, Replies(p)) : i \in 1..n /\ nth[i] \in Positions(calls, SetCalls(p))
    <3>1. SUFFICES ASSUME NEW i \in Positions(r, Replies(p))
                   PROVE  i \in 1..n /\ nth[i] \in Positions(calls, SetCalls(p))
      OBVIOUS
    <3>2. i \in 1..n /\ r[i] \in Replies(p)
      BY <1>8 DEF Positions
    <3>3. nth[i] \in DOMAIN calls /\ calls[nth[i]].kind = "set" /\ calls[nth[i]].prop = p
      BY <1>5, <1>8, <3>2
    <3>4. calls[nth[i]] \in SetCalls(p)
      <4>1. PICK m \in CallMessage : m = calls[nth[i]]
        BY <1>2, <3>3
      <4>2. m.kind = "set" /\ m.prop = p
        BY <3>3, <4>1
      <4>3. m \in SetCalls(p)
        BY <4>2, CallKinds
      <4>4. QED
        BY <4>1, <4>3
    <3>5. QED
      BY <3>2, <3>3, <3>4 DEF Positions
  <2>2. \A k \in Positions(calls, SetCalls(p)) : \E i \in Positions(r, Replies(p)) : nth[i] = k
    <3>1. SUFFICES ASSUME NEW k \in Positions(calls, SetCalls(p))
                   PROVE  \E i \in Positions(r, Replies(p)) : nth[i] = k
      OBVIOUS
    <3>2. k \in Unserved /\ calls[k].prop = p
      BY <1>2, CallKinds DEF Positions, Unserved
    <3>3. QED
      BY <1>7, <1>8, <3>2 DEF Positions
  <2>3. f \in [Positions(r, Replies(p)) -> Positions(calls, SetCalls(p))]
    BY <2>1
  <2>4. \A i, j \in Positions(r, Replies(p)) : f[i] = f[j] => i = j
    BY <1>6, <2>1
  <2>5. \A k \in Positions(calls, SetCalls(p)) : \E i \in Positions(r, Replies(p)) : f[i] = k
    BY <2>2
  <2>6. f \in Bijection(Positions(r, Replies(p)), Positions(calls, SetCalls(p)))
    BY <2>3, <2>4, <2>5 DEF Bijection, Injection, Surjection, IsInjective
  <2>7. QED
    BY <1>8, <2>6, CountType, FS_Bijection DEF ExistsBijection, Count
<1>10. ASSUME NEW p \in Prop
       PROVE  Pending(<<>>, b \o r, p) = Pending(calls, b, p)
  <2>1. <<>> \in Seq(CallMessage) /\ DOMAIN <<>> = {}
    OBVIOUS
  <2>2. Count(<<>>, SetCalls(p)) = 0
    BY <2>1, CountType
  <2>3. /\ Count(calls, SetCalls(p)) \in Nat /\ Count(b, Replies(p)) \in Nat
        /\ Count(b \o r, Replies(p)) = Count(b, Replies(p)) + Count(r, Replies(p))
    BY <1>8, CountType, CountConcat
  <2>4. QED
    BY <1>9, <2>2, <2>3 DEF Pending
<1>11. b \o r \in Seq(InboxMessage)
  BY <1>8, ConcatProperties
<1>12. QED
  BY <1>10, <1>11 DEF r

-----------------------------------------------------------------------------
(* The invariant of the calls and their replies.                           *)

ConnOK ==
    /\ calls \in Seq(CallMessage)
    /\ inbox \in Seq(InboxMessage)
    /\ answer \in Answer
    /\ waiting \in Operation
    /\ faulty \in BOOLEAN
    /\ ~faulty => running

\* A blocking call is the last one, and somebody waits for its answer; sets
\* are made by an open cache only.
PhaseOK ==
    /\ waiting # None => cache \in {"opening", "open"}
    /\ cache = "opening" <=> waiting.kind = "prefetch"
    /\ cache \in {"closed", "opening"} => \A p \in Prop : old_properties[p] = NoCall
    /\ answer # None => waiting # None /\ calls = <<>>
    /\ \A i \in DOMAIN calls : calls[i].kind # "set" =>
          i = Len(calls) /\ waiting # None /\ answer = None

\* EachReplyHasItsSet, said of the counts above.
Paired ==
    \A p \in Prop : Pending(calls, inbox, p) = dead[p] + IF old_properties[p] = NoCall THEN 0 ELSE 1

\* The inductive invariant.
CallsOK == TypeOK /\ ConnOK /\ PhaseOK /\ Paired


\* What it is for.
LEMMA CallsArePaired == CallsOK => TypeOK /\ EachReplyHasItsSet
<1>1. SUFFICES ASSUME CallsOK, NEW p \in Prop
               PROVE  InFlight(p) = dead[p] + IF old_properties[p] = NoCall THEN 0 ELSE 1
  BY DEF CallsOK, EachReplyHasItsSet
<1>2. InFlight(p) = Pending(calls, inbox, p)
  BY <1>1, PendingIsInFlight DEF InFlight, CallsOK, ConnOK
<1>3. QED
  BY <1>1, <1>2 DEF CallsOK, Paired

LEMMA InitCalls == Init => CallsOK
<1> SUFFICES ASSUME Init PROVE CallsOK
  OBVIOUS
<1> USE CacheAssumption
<1>1. TypeOK
  <2>1. Settings \in [Prop -> Val \cup {Unset}]
    BY DEF Init, Settings, Setting
  <2>2. QED
    BY <2>1 DEF Init, TypeOK, Item
<1>2. ConnOK
  <2>1. None \in Answer /\ None \in Operation
    BY DEF None, Answer, Operation
  <2>2. calls \in Seq(CallMessage) /\ inbox \in Seq(InboxMessage)
    BY DEF Init
  <2>3. faulty \in BOOLEAN /\ running
    BY DEF Init
  <2>4. QED
    BY <2>1, <2>2, <2>3 DEF Init, ConnOK
<1>3. PhaseOK
  BY DEF Init, PhaseOK, None
<1>4. Paired
  <2>1. SUFFICES ASSUME NEW p \in Prop PROVE Pending(<<>>, <<>>, p) = 0
    BY DEF Init, Paired
  <2>2. <<>> \in Seq(CallMessage) /\ <<>> \in Seq(InboxMessage) /\ DOMAIN <<>> = {}
    OBVIOUS
  <2>3. Count(<<>>, SetCalls(p)) = 0 /\ Count(<<>>, Replies(p)) = 0
    BY <2>2, CountType
  <2>4. QED
    BY <2>3 DEF Pending
<1>5. QED
  BY <1>1, <1>2, <1>3, <1>4 DEF CallsOK

\* What the daemon's requests do to the user's settings.
LEMMA RequestTypes ==
    ASSUME TypeOK, NEW p \in Prop
    PROVE  /\ \A v \in Val : /\ DoSet(p, v).user \in [Prop -> Val \cup {Unset}]
                             /\ DoSet(p, v).changed \in SUBSET Prop
                             /\ DoSet(p, v).ok = (p \notin system.locked)
           /\ \A recursive \in BOOLEAN :
                 /\ DoReset(p, recursive).user \in [Prop -> Val \cup {Unset}]
                 /\ DoReset(p, recursive).changed \in SUBSET Prop
  BY DEF TypeOK, DoSet, DoReset, UserSet, Below

\* The notifications of a request are added behind those that wait.
LEMMA NotifyAdds ==
    ASSUME queue \in Seq(Prop), NEW S \in SUBSET Prop, Notify(S)
    PROVE  /\ queue' \in Seq(Prop)
           /\ Len(queue) \in Nat /\ Len(queue') \in Nat /\ Len(queue) <= Len(queue')
           /\ \A i \in 1..Len(queue) : queue'[i] = queue[i]
           /\ \A i \in (Len(queue) + 1)..Len(queue') : queue'[i] \in S
           /\ \A p \in S : \E i \in (Len(queue) + 1)..Len(queue') : queue'[i] = p
<1> DEFINE n == Cardinality(S)
<1>1. PICK s \in [1..n -> S] : {s[i] : i \in 1..n} = S /\ queue' = queue \o s
  BY DEF Notify
<1>2. n \in Nat
  BY CacheAssumption, FS_Subset, FS_CardinalityType
<1>3. s \in Seq(Prop) /\ Len(s) = n
  BY <1>1, <1>2
<1> HIDE DEF n
<1>4. /\ queue' \in Seq(Prop) /\ Len(queue') = Len(queue) + n /\ Len(queue) \in Nat
      /\ \A i \in 1..(Len(queue) + n) : queue'[i] = IF i <= Len(queue) THEN queue[i] ELSE s[i - Len(queue)]
  BY <1>1, <1>3, ConcatProperties, LenProperties
<1>5. ASSUME NEW p \in S
      PROVE  \E i \in (Len(queue) + 1)..Len(queue') : queue'[i] = p
  <2>1. PICK i \in 1..n : s[i] = p
    BY <1>1
  <2>2. Len(queue) + i \in (Len(queue) + 1)..Len(queue') /\ queue'[Len(queue) + i] = p
    BY <1>2, <1>4, <2>1
  <2>3. QED
    BY <2>2
<1>6. ASSUME NEW i \in (Len(queue) + 1)..Len(queue')
      PROVE  queue'[i] \in S
  <2>1. i - Len(queue) \in 1..n /\ queue'[i] = s[i - Len(queue)]
    BY <1>2, <1>4
  <2>2. QED
    BY <1>1, <2>1
<1>7. /\ Len(queue) \in Nat /\ Len(queue') \in Nat /\ Len(queue) <= Len(queue')
      /\ \A i \in 1..Len(queue) : queue'[i] = queue[i]
  BY <1>2, <1>4
<1>8. QED
  BY <1>4, <1>5, <1>6, <1>7

\* Steps that only add to the daemon's queue or empty it.
LEMMA StillPaired ==
    ASSUME CallsOK, TypeOK', UNCHANGED <<connVars, clientVars, running, faulty>>
    PROVE  CallsOK'
  BY DEF CallsOK, ConnOK, PhaseOK, Paired, connVars, clientVars

LEMMA OtherClientPaired == CallsOK /\ OtherClient => CallsOK'
<1> SUFFICES ASSUME CallsOK, OtherClient PROVE CallsOK'
  OBVIOUS
<1>1. PICK S \in SUBSET Prop : user' \in [Prop -> Val \cup {Unset}] /\ Notify(S)
  <2>1. CASE \E p \in Prop, v \in Val : user' = DoSet(p, v).user /\ Notify(DoSet(p, v).changed)
    BY <2>1, RequestTypes DEF CallsOK
  <2>2. CASE \E p \in Prop, recursive \in BOOLEAN :
                /\ user' = DoReset(p, recursive).user
                /\ Notify(DoReset(p, recursive).changed)
    BY <2>2, RequestTypes DEF CallsOK
  <2>3. QED
    BY <2>1, <2>2 DEF OtherClient
<1>2. queue' \in Seq(Prop)
  BY <1>1, NotifyAdds DEF CallsOK, TypeOK
<1>3. TypeOK'
  BY <1>1, <1>2 DEF CallsOK, TypeOK, OtherClient, connVars, clientVars
<1>4. QED
  BY <1>3, StillPaired DEF OtherClient

\* A served set has its reply; a blocking call its answer.
LEMMA ServePaired == CallsOK /\ Serve => CallsOK'
<1> SUFFICES ASSUME CallsOK, Serve PROVE CallsOK'
  OBVIOUS
<1>1. /\ calls \in Seq(CallMessage) /\ inbox \in Seq(InboxMessage) /\ calls # <<>>
      /\ Len(calls) \in Nat \ {0} /\ Head(calls) = calls[1] /\ DOMAIN calls = 1..Len(calls)
      /\ calls' = Tail(calls) /\ calls' \in Seq(CallMessage) /\ DOMAIN calls' = 1..(Len(calls) - 1)
      /\ Len(calls') = Len(calls) - 1
      /\ \A i \in 1..(Len(calls) - 1) : calls'[i] = calls[i + 1]
  <2>1. calls \in Seq(CallMessage) /\ inbox \in Seq(InboxMessage) /\ calls # <<>> /\ calls' = Tail(calls)
    BY DEF Serve, CallsOK, ConnOK
  <2>2. QED
    BY <2>1, TailOf
<1>2. PICK m \in CallMessage : m = Head(calls)
  BY <1>1, HeadTailProperties
<1>3. \A p \in Prop : /\ Pending(calls, inbox, p) \in Nat /\ Pending(calls', inbox, p) \in Nat
                      /\ Pending(calls, inbox, p)
                            = Pending(calls', inbox, p) + IF m \in SetCalls(p) THEN 1 ELSE 0
  BY <1>1, <1>2, PendingServed
<1>4. UNCHANGED <<system, told, running, dead, cache, properties, old_properties, waiting,
                  listeners, faulty>>
  BY DEF Serve, clientVars
<1>5. CASE m.kind = "set"
  <2>1. PICK q \in Prop, v \in Val : m \in SetCalls(q) /\ m.prop = q /\ m.value = v
    BY <1>5, CallKinds
  <2>2. ServeSet(m)
    BY <1>2, <1>5 DEF Serve
  <2>3. PICK ok \in BOOLEAN : inbox' = Append(inbox, Reply(q, ok))
    BY <2>1, <2>2, RequestTypes DEF ServeSet, Post, CallsOK, TypeOK
  <2>4. /\ user' \in [Prop -> Val \cup {Unset}] /\ queue' \in Seq(Prop) /\ answer' = answer
    BY <2>1, <2>2, RequestTypes, NotifyAdds DEF ServeSet, CallsOK, TypeOK
  <2>5. Reply(q, ok) \in InboxMessage /\ \A p \in Prop : Reply(q, ok) \in Replies(p) <=> m \in SetCalls(p)
    <3>1. Reply(q, ok) \in Replies(q)
      BY DEF Reply, Replies
    <3>2. Reply(q, ok) \in InboxMessage
      BY <3>1 DEF InboxMessage
    <3>3. ASSUME NEW p \in Prop
          PROVE  Reply(q, ok) \in Replies(p) <=> m \in SetCalls(p)
      <4>1. Reply(q, ok) \in Replies(p) <=> p = q
        BY <3>1 DEF Reply, Replies
      <4>2. m \in SetCalls(p) <=> p = q
        BY <1>5, <2>1, CallKinds
      <4>3. QED
        BY <4>1, <4>2
    <3>4. QED
      BY <3>2, <3>3
  <2>6. inbox' \in Seq(InboxMessage)
    BY <1>1, <2>3, <2>5, AppendProperties
  <2>7. Paired'
    <3>1. SUFFICES ASSUME NEW p \in Prop PROVE Pending(calls', inbox', p) = Pending(calls, inbox, p)
      BY <1>4 DEF CallsOK, Paired
    <3>2. Pending(calls', inbox', p)
            = Pending(calls', inbox, p) + IF Reply(q, ok) \in Replies(p) THEN 1 ELSE 0
      <4>1. PICK c \in Seq(CallMessage), r \in InboxMessage : c = calls' /\ r = Reply(q, ok)
        BY <1>1, <2>5
      <4>2. Pending(c, Append(inbox, r), p) = Pending(c, inbox, p) + IF r \in Replies(p) THEN 1 ELSE 0
        BY <1>1, PendingArrives
      <4>3. QED
        BY <2>3, <4>1, <4>2
    <3>3. QED
      BY <1>3, <2>5, <3>2
  <2>8. TypeOK' /\ ConnOK'
    BY <1>1, <1>4, <2>4, <2>6 DEF CallsOK, TypeOK, ConnOK
  <2>9. PhaseOK'
    BY <1>1, <1>4, <2>4 DEF CallsOK, PhaseOK
  <2>10. QED
    BY <2>7, <2>8, <2>9 DEF CallsOK
<1>6. CASE m.kind # "set"
  <2>1. Len(calls) = 1 /\ waiting # None
    BY <1>1, <1>2, <1>6 DEF CallsOK, PhaseOK
  <2>2. calls' = <<>>
    BY <1>1, <2>1, EmptySeq
  <2>3. m.kind \in {"get", "get all", "reset"} /\ (m.kind # "get all" => m.prop \in Prop)
      /\ (m.kind = "reset" => m.recursive \in BOOLEAN) /\ \A p \in Prop : m \notin SetCalls(p)
    BY <1>6, CallKinds
  <2>4. /\ inbox' = inbox /\ answer' \in Answer /\ answer' # None
        /\ user' \in [Prop -> Val \cup {Unset}] /\ queue' \in Seq(Prop)
    <3>1. CASE m.kind = "get"
      <4>1. ServeGet(m)
        BY <1>2, <3>1 DEF Serve
      <4>2. Setting(m.prop) = Unset \/ Setting(m.prop) \in Val
        BY <2>3, <3>1, CacheAssumption DEF Setting, CallsOK, TypeOK
      <4>3. QED
        BY <4>1, <4>2 DEF ServeGet, CallsOK, TypeOK, Answer, None
    <3>2. CASE m.kind = "get all"
      <4>1. ServeGetAll(m)
        BY <1>2, <3>2 DEF Serve
      <4>2. Settings \in [Prop -> Val \cup {Unset}]
        BY CacheAssumption DEF Setting, Settings, CallsOK, TypeOK
      <4>3. QED
        BY <4>1, <4>2 DEF ServeGetAll, CallsOK, TypeOK, Answer, None
    <3>3. CASE m.kind = "reset"
      <4>1. ServeReset(m)
        BY <1>2, <3>3 DEF Serve
      <4>2. DoReset(m.prop, m.recursive).changed \in SUBSET Prop /\ user' \in [Prop -> Val \cup {Unset}]
        BY <2>3, <3>3, <4>1, RequestTypes DEF ServeReset, CallsOK
      <4>3. queue' \in Seq(Prop)
        BY <4>1, <4>2, NotifyAdds DEF ServeReset, CallsOK, TypeOK
      <4>4. inbox' = inbox /\ answer' \in Answer /\ answer' # None
        BY <4>1 DEF ServeReset, Answer, None
      <4>5. QED
        BY <4>2, <4>3, <4>4
    <3>4. QED
      BY <2>3, <3>1, <3>2, <3>3
  <2>5. Paired'
    <3>1. SUFFICES ASSUME NEW p \in Prop PROVE Pending(calls', inbox', p) = Pending(calls, inbox, p)
      BY <1>4 DEF CallsOK, Paired
    <3>2. Pending(calls', inbox', p) = Pending(calls', inbox, p)
      BY <2>4
    <3>3. Pending(calls, inbox, p) = Pending(calls', inbox, p)
      <4>1. m \notin SetCalls(p)
        BY <2>3
      <4>2. /\ Pending(calls, inbox, p) \in Nat /\ Pending(calls', inbox, p) \in Nat
            /\ Pending(calls, inbox, p)
                 = Pending(calls', inbox, p) + IF m \in SetCalls(p) THEN 1 ELSE 0
        BY <1>3
      <4>3. QED
        BY <4>1, <4>2
    <3>4. QED
      BY <3>2, <3>3
  <2>6. TypeOK' /\ ConnOK'
    BY <1>1, <1>4, <2>4 DEF CallsOK, TypeOK, ConnOK
  <2>7. PhaseOK'
    BY <1>4, <2>1, <2>2, <2>4 DEF CallsOK, PhaseOK
  <2>8. QED
    BY <2>5, <2>6, <2>7 DEF CallsOK
<1>7. QED
  BY <1>5, <1>6

LEMMA EmitPaired == CallsOK /\ EmitIdled => CallsOK'
<1> SUFFICES ASSUME CallsOK, EmitIdled PROVE CallsOK'
  OBVIOUS
<1>1. queue' \in Seq(Prop) /\ Head(queue) \in Prop
  BY HeadTailProperties DEF EmitIdled, CallsOK, TypeOK
<1>2. PICK p \in Prop : p = Head(queue)
  BY <1>1
<1>3. Setting(p) = Unset \/ Setting(p) \in Val
  BY CacheAssumption DEF Setting, CallsOK, TypeOK
<1>4. PICK m \in Signals(p) : inbox' = Append(inbox, m)
  BY <1>2, <1>3 DEF EmitIdled, SendSignal, Post, Signals, PropertyRemoved, PropertyChanged
<1>5. told' \in [Prop -> Val \cup {Unset}]
  BY <1>2, <1>3 DEF EmitIdled, CallsOK, TypeOK
<1>6. UNCHANGED <<system, user, running, calls, answer, dead, cache, properties, old_properties,
                  waiting, listeners, faulty>>
  BY DEF EmitIdled, clientVars
<1>7. m \in InboxMessage /\ \A q \in Prop : m \notin Replies(q)
  BY <1>4 DEF Signals, InboxMessage, Replies
<1>8. inbox' \in Seq(InboxMessage)
  BY <1>4, <1>7, AppendProperties DEF CallsOK, ConnOK
<1>9. Paired'
  <2>1. SUFFICES ASSUME NEW q \in Prop PROVE Pending(calls, inbox', q) = Pending(calls, inbox, q)
    BY <1>6 DEF CallsOK, Paired
  <2>2. /\ Pending(calls, inbox, q) \in Nat
        /\ Pending(calls, inbox', q) = Pending(calls, inbox, q) + IF m \in Replies(q) THEN 1 ELSE 0
    BY <1>4, <1>7, PendingArrives DEF CallsOK, ConnOK
  <2>3. QED
    BY <1>7, <2>2
<1>10. TypeOK' /\ ConnOK' /\ PhaseOK'
  BY <1>1, <1>5, <1>6, <1>8 DEF CallsOK, TypeOK, ConnOK, PhaseOK
<1>11. QED
  BY <1>9, <1>10 DEF CallsOK

\* The bus replies for a daemon that is gone.
LEMMA DiesPaired == CallsOK /\ DaemonDies => CallsOK'
<1> SUFFICES ASSUME CallsOK, DaemonDies PROVE CallsOK'
  OBVIOUS
<1>1. calls \in Seq(CallMessage) /\ inbox \in Seq(InboxMessage)
  BY DEF CallsOK, ConnOK
<1>2. UNCHANGED <<system, told, dead, cache, properties, old_properties, waiting, listeners>>
  BY DEF DaemonDies, clientVars
<1>3. PICK nth \in [1..Cardinality(Unserved) -> Unserved] :
         /\ \A i, j \in DOMAIN nth : i < j => nth[i] < nth[j]
         /\ inbox' = inbox \o [i \in DOMAIN nth |-> Reply(calls[nth[i]].prop, FALSE)]
  BY DEF DaemonDies
<1>4. inbox' \in Seq(InboxMessage) /\ \A p \in Prop : Pending(<<>>, inbox', p) = Pending(calls, inbox, p)
  BY <1>1, <1>3, PendingDies
<1>5. calls' = <<>> /\ queue' = <<>>
  BY DEF DaemonDies
<1>6. Paired'
  BY <1>2, <1>4, <1>5 DEF CallsOK, Paired
<1>7. TypeOK'
  <2>1. user' \in [Prop -> Val \cup {Unset}] /\ queue' \in Seq(Prop) /\ running' \in BOOLEAN
    <3>1. user' \in [Prop -> Val \cup {Unset}]
      BY DEF DaemonDies
    <3>2. running' \in BOOLEAN
      BY DEF DaemonDies
    <3>3. QED
      BY <1>5, <3>1, <3>2
  <2>2. QED
    BY <1>2, <2>1 DEF CallsOK, TypeOK
<1>8. ConnOK'
  <2>1. answer' \in Answer
    BY DEF DaemonDies, CallsOK, ConnOK, Answer
  <2>2. calls' \in Seq(CallMessage)
    BY <1>5
  <2>3. QED
    BY <1>2, <1>4, <2>1, <2>2 DEF DaemonDies, CallsOK, ConnOK
<1>9. PhaseOK'
  <2>1. answer' # None => waiting # None
    BY DEF DaemonDies, CallsOK, PhaseOK
  <2>2. DOMAIN calls' = {}
    BY <1>5
  <2>3. QED
    BY <1>2, <1>5, <2>1, <2>2 DEF CallsOK, PhaseOK
<1>10. QED
  BY <1>6, <1>7, <1>8, <1>9 DEF CallsOK

LEMMA StartsPaired == CallsOK /\ DaemonStarts => CallsOK'
<1> SUFFICES ASSUME CallsOK, DaemonStarts PROVE CallsOK'
  OBVIOUS
<1>1. Settings \in [Prop -> Val \cup {Unset}]
  BY CacheAssumption DEF CallsOK, TypeOK, Settings, Setting
<1>2. TypeOK' /\ ConnOK'
  BY <1>1 DEF CallsOK, TypeOK, ConnOK, DaemonStarts, connVars, clientVars
<1>3. PhaseOK' /\ Paired'
  BY DEF CallsOK, PhaseOK, Paired, DaemonStarts, connVars, clientVars
<1>4. QED
  BY <1>2, <1>3 DEF CallsOK

\* While no call blocks all calls are sets.
LEMMA OnlySets ==
    ASSUME CallsOK, waiting = None \/ answer # None
    PROVE  /\ waiting = None => answer = None
           /\ \A i \in DOMAIN calls : calls[i].kind = "set"
           /\ answer # None => calls = <<>>
  BY DEF CallsOK, PhaseOK

\* A blocking call is added last.
LEMMA BlockPaired ==
    ASSUME CallsOK, cache \in {"closed", "open"}, waiting = None,
           NEW op \in Operation, op # None, NEW m \in Blocking, Block(op, m),
           op.kind = "prefetch" <=> cache = "closed",
           cache' = IF cache = "closed" THEN "opening" ELSE cache,
           UNCHANGED <<properties, listeners>>
    PROVE  CallsOK'
<1>1. UNCHANGED <<system, user, queue, told, running, inbox, answer, dead, old_properties, faulty,
                  properties, listeners>>
  BY DEF Block, daemonVars
<1>2. m \in CallMessage /\ m.kind # "set" /\ \A p \in Prop : m \notin SetCalls(p)
  BY DEF CallMessage, Blocking, SetCalls
<1>3. /\ calls \in Seq(CallMessage) /\ inbox \in Seq(InboxMessage) /\ Len(calls) \in Nat
      /\ calls' = Append(calls, m) /\ calls' \in Seq(CallMessage)
      /\ DOMAIN calls = 1..Len(calls)
      /\ DOMAIN calls' = 1..(Len(calls) + 1) /\ Len(calls') = Len(calls) + 1
      /\ \A i \in 1..Len(calls) : calls'[i] = calls[i]
  <2>1. calls \in Seq(CallMessage) /\ inbox \in Seq(InboxMessage) /\ calls' = Append(calls, m)
    BY DEF Block, Call, CallsOK, ConnOK
  <2>2. QED
    BY <1>2, <2>1, AppendProperties, LenProperties
<1>4. ASSUME NEW p \in Prop
      PROVE  Pending(calls', inbox', p) = Pending(calls, inbox, p)
  <2>1. /\ Pending(calls, inbox, p) \in Nat
        /\ Pending(Append(calls, m), inbox, p)
             = Pending(calls, inbox, p) + IF m \in SetCalls(p) THEN 1 ELSE 0
    BY <1>2, <1>3, PendingCall
  <2>2. m \notin SetCalls(p)
    BY <1>2
  <2>3. QED
    BY <1>1, <1>3, <2>1, <2>2
<1>5. Paired'
  BY <1>1, <1>4 DEF CallsOK, Paired
<1>6. waiting' = op
  BY DEF Block
<1>7. TypeOK' /\ ConnOK'
  BY <1>1, <1>3, <1>6 DEF CallsOK, TypeOK, ConnOK
<1>8. PhaseOK'
  <2>1. answer = None /\ \A i \in DOMAIN calls : calls[i].kind = "set"
    BY OnlySets
  <2>2. \A i \in DOMAIN calls' : calls'[i].kind # "set" => i = Len(calls')
    BY <1>3, <2>1
  <2>3. cache' \in {"closed", "opening"} => \A p \in Prop : old_properties'[p] = NoCall
    BY <1>1 DEF CallsOK, PhaseOK
  <2>4. QED
    BY <1>1, <1>6, <2>1, <2>2, <2>3 DEF PhaseOK
<1>9. QED
  BY <1>5, <1>7, <1>8 DEF CallsOK

\* The second half of a set: the call that may already be under way is given
\* up, and another one is made.
LEMMA PutPaired ==
    ASSUME CallsOK, NEW p \in Prop, NEW v \in Val, NEW item \in Item, PutValue(p, v, item),
           waiting = None \/ answer # None, waiting' = None, answer' = None,
           cache = "open", UNCHANGED <<daemonVars, inbox, cache, faulty>>
    PROVE  CallsOK'
<1>1. UNCHANGED <<system, user, queue, told, running, inbox, cache, faulty>>
  BY DEF daemonVars
<1>2. /\ calls \in Seq(CallMessage) /\ inbox \in Seq(InboxMessage) /\ Len(calls) \in Nat
      /\ DOMAIN calls = 1..Len(calls) /\ \A i \in 1..Len(calls) : calls[i].kind = "set"
  BY OnlySets, LenProperties DEF CallsOK, ConnOK
<1>3. /\ dead \in [Prop -> 0..MaxDead] /\ old_properties \in [Prop -> [item : Item] \cup {NoCall}]
      /\ properties \in [Prop -> Item] /\ listeners \in [Watched -> Val \cup {Unset}]
  BY DEF CallsOK, TypeOK
<1>4. None \in Answer /\ None \in Operation
  BY DEF None, Answer, Operation
<1>5. CASE item = v
  <2>1. properties' \in [Prop -> Item] /\ UNCHANGED <<old_properties, dead, calls, listeners>>
    BY <1>3, <1>5 DEF PutValue
  <2>2. TypeOK' /\ ConnOK' /\ Paired'
    BY <1>1, <1>4, <2>1 DEF CallsOK, TypeOK, ConnOK, Paired
  <2>3. PhaseOK'
    BY <1>1, <1>2, <2>1 DEF CallsOK, PhaseOK, None
  <2>4. QED
    BY <2>2, <2>3 DEF CallsOK
<1>6. CASE item # v
  <2> DEFINE m == SetCall(p, v)
  <2>1. /\ m \in CallMessage /\ m.kind = "set"
        /\ \A q \in Prop : m \in SetCalls(q) <=> q = p
    BY DEF SetCall, CallMessage, SetCalls
  <2> HIDE DEF m
  <2>2. calls' = Append(calls, m) /\ CancelEarlier(p) /\ Remember(p, item)
        /\ (old_properties[p] # NoCall => dead[p] < MaxDead)
        /\ properties' = [properties EXCEPT ![p] = v] /\ Emit(p, v)
    BY <1>6 DEF PutValue, Call, m
  <2>3. /\ calls' \in Seq(CallMessage) /\ DOMAIN calls' = 1..(Len(calls) + 1)
        /\ calls'[Len(calls) + 1] = m
        /\ \A i \in 1..Len(calls) : calls'[i] = calls[i]
    BY <1>2, <2>1, <2>2, AppendProperties
  <2>4. \A i \in DOMAIN calls' : calls'[i].kind = "set"
    BY <1>2, <2>1, <2>3
  <2>5. /\ old_properties' \in [Prop -> [item : Item] \cup {NoCall}]
        /\ old_properties'[p] # NoCall /\ \A q \in Prop \ {p} : old_properties'[q] = old_properties[q]
    <3>1. NoCall # [item |-> item]
      BY CacheAssumption DEF Item
    <3>2. QED
      BY <1>3, <2>2, <3>1 DEF Remember
  <2>6. /\ dead' \in [Prop -> 0..MaxDead] /\ \A q \in Prop \ {p} : dead'[q] = dead[q]
        /\ dead'[p] = dead[p] + IF old_properties[p] = NoCall THEN 0 ELSE 1
    BY <1>3, <2>2, CacheAssumption DEF CancelEarlier
  <2>7. properties' \in [Prop -> Item] /\ listeners' \in [Watched -> Val \cup {Unset}]
    BY <1>3, <2>2 DEF Emit, Item
  <2>8. ASSUME NEW q \in Prop
        PROVE  Pending(calls', inbox', q)
                 = dead'[q] + IF old_properties'[q] = NoCall THEN 0 ELSE 1
    <3>1. /\ Pending(calls, inbox, q) \in Nat
          /\ Pending(Append(calls, m), inbox, q)
               = Pending(calls, inbox, q) + IF m \in SetCalls(q) THEN 1 ELSE 0
      BY <1>2, <2>1, PendingCall
    <3>2. Pending(calls, inbox, q) = dead[q] + IF old_properties[q] = NoCall THEN 0 ELSE 1
      BY DEF CallsOK, Paired
    <3>3. dead[q] \in Nat
      BY <1>3
    <3>4. Pending(calls', inbox', q) = Pending(Append(calls, m), inbox, q)
      BY <1>1, <2>2
    <3>5. CASE q = p
      BY <2>1, <2>5, <2>6, <3>1, <3>2, <3>3, <3>4, <3>5
    <3>6. CASE q # p
      BY <2>1, <2>5, <2>6, <3>1, <3>2, <3>3, <3>4, <3>6
    <3>7. QED
      BY <3>5, <3>6
  <2>9. TypeOK' /\ ConnOK'
    BY <1>1, <1>4, <2>3, <2>5, <2>6, <2>7 DEF CallsOK, TypeOK, ConnOK
  <2>10. PhaseOK'
    BY <1>1, <2>4 DEF CallsOK, PhaseOK, None
  <2>11. QED
    BY <2>8, <2>9, <2>10 DEF CallsOK, Paired
<1>7. QED
  BY <1>5, <1>6

\* What a reply does to the books, whoever takes it from the connection: the
\* first replies are those of calls given up.
BookReply(m) ==
    IF m.kind # "reply" THEN UNCHANGED <<old_properties, dead>>
    ELSE IF dead[m.prop] > 0
         THEN dead' = [dead EXCEPT ![m.prop] = @ - 1] /\ UNCHANGED old_properties
         ELSE old_properties' = [old_properties EXCEPT ![m.prop] = NoCall] /\ UNCHANGED dead

\* The next reply of p belongs to a call given up or to the set whose old value
\* is remembered.
LEMMA ReplyHasItsSet ==
    ASSUME CallsOK, inbox # <<>>, Head(inbox).kind = "reply"
    PROVE  /\ Head(inbox).prop \in Prop /\ Head(inbox).ok \in BOOLEAN
           /\ dead[Head(inbox).prop] \in Nat
           /\ dead[Head(inbox).prop] > 0 \/ old_properties[Head(inbox).prop] # NoCall
<1>1. calls \in Seq(CallMessage) /\ inbox \in Seq(InboxMessage)
  BY DEF CallsOK, ConnOK
<1>2. PICK m \in InboxMessage : m = Head(inbox)
  BY <1>1, TailOf
<1>3. PICK p \in Prop : p = m.prop /\ m \in Replies(p) /\ m.ok \in BOOLEAN
  BY <1>2, InboxKinds
<1>4. /\ Pending(calls, Tail(inbox), p) \in Nat
      /\ Pending(calls, inbox, p)
           = Pending(calls, Tail(inbox), p) + IF m \in Replies(p) THEN 1 ELSE 0
  BY <1>1, <1>2, PendingTaken
<1>5. Pending(calls, inbox, p) = dead[p] + IF old_properties[p] = NoCall THEN 0 ELSE 1
  BY DEF CallsOK, Paired
<1>6. dead[p] \in Nat
  BY DEF CallsOK, TypeOK
<1>7. QED
  BY <1>2, <1>3, <1>4, <1>5, <1>6

LEMMA TakePaired ==
    ASSUME CallsOK, inbox # <<>>, inbox' = Tail(inbox), BookReply(Head(inbox)),
           UNCHANGED <<calls, cache, waiting, answer, faulty, running>>
    PROVE  /\ inbox' \in Seq(InboxMessage) /\ Paired' /\ ConnOK' /\ PhaseOK'
           /\ old_properties' \in [Prop -> [item : Item] \cup {NoCall}]
           /\ dead' \in [Prop -> 0..MaxDead]
<1>1. calls \in Seq(CallMessage) /\ inbox \in Seq(InboxMessage)
  BY DEF CallsOK, ConnOK
<1>2. PICK m \in InboxMessage : m = Head(inbox)
  BY <1>1, TailOf
<1>3. inbox' \in Seq(InboxMessage)
  BY <1>1, TailOf
<1>4. /\ dead \in [Prop -> 0..MaxDead] /\ old_properties \in [Prop -> [item : Item] \cup {NoCall}]
  BY DEF CallsOK, TypeOK
<1>5. \A p \in Prop :
         /\ Pending(calls, inbox, p) \in Nat
         /\ Pending(calls, inbox', p) \in Nat
         /\ Pending(calls, inbox, p)
              = Pending(calls, inbox', p) + IF m \in Replies(p) THEN 1 ELSE 0
  BY <1>1, <1>2, PendingTaken
<1>6. \A p \in Prop :
         Pending(calls, inbox, p) = dead[p] + IF old_properties[p] = NoCall THEN 0 ELSE 1
  BY DEF CallsOK, Paired
<1>7. \A p \in Prop : dead[p] \in Nat
  BY <1>4
<1>8. CASE m.kind # "reply"
  <2>1. UNCHANGED <<old_properties, dead>>
    BY <1>2, <1>8 DEF BookReply
  <2>2. ASSUME NEW p \in Prop
        PROVE  Pending(calls, inbox', p) = dead[p] + IF old_properties[p] = NoCall THEN 0 ELSE 1
    <3>1. m \notin Replies(p)
      BY <1>8, InboxKinds
    <3>2. QED
      BY <1>5, <1>6, <3>1
  <2>3. Paired'
    BY <2>1, <2>2 DEF Paired
  <2>4. ConnOK' /\ PhaseOK'
    BY <1>3, <2>1 DEF CallsOK, ConnOK, PhaseOK
  <2>5. QED
    BY <1>3, <1>4, <2>1, <2>3, <2>4
<1>9. CASE m.kind = "reply"
  <2>1. PICK p \in Prop : p = m.prop
    BY InboxKinds
  <2>2. \A q \in Prop : m \in Replies(q) <=> q = p
    BY <1>9, <2>1, InboxKinds
  <2>3. dead[p] > 0 \/ old_properties[p] # NoCall
    BY <1>2, <1>9, <2>1, ReplyHasItsSet
  <2>4. /\ old_properties' \in [Prop -> [item : Item] \cup {NoCall}]
        /\ dead' \in [Prop -> 0..MaxDead]
        /\ \A q \in Prop \ {p} : dead'[q] = dead[q] /\ old_properties'[q] = old_properties[q]
        /\ \A q \in Prop : old_properties[q] = NoCall => old_properties'[q] = NoCall
        /\ \/ dead[p] > 0 /\ dead'[p] = dead[p] - 1 /\ old_properties'[p] = old_properties[p]
           \/ dead[p] = 0 /\ dead'[p] = 0 /\ old_properties'[p] = NoCall
    <3>1. CASE dead[p] > 0
      <4>1. dead' = [dead EXCEPT ![p] = @ - 1] /\ UNCHANGED old_properties
        BY <1>2, <1>9, <2>1, <3>1 DEF BookReply
      <4>2. dead[p] \in 0..MaxDead /\ dead[p] - 1 \in 0..MaxDead
        BY <1>4, <3>1, CacheAssumption
      <4>3. QED
        BY <1>4, <3>1, <4>1, <4>2
    <3>2. CASE ~(dead[p] > 0)
      <4>1. old_properties' = [old_properties EXCEPT ![p] = NoCall] /\ UNCHANGED dead
        BY <1>2, <1>9, <2>1, <3>2 DEF BookReply
      <4>2. dead[p] = 0
        BY <1>4, <3>2
      <4>3. QED
        BY <1>4, <4>1, <4>2
    <3>3. QED
      BY <3>1, <3>2
  <2>5. ASSUME NEW q \in Prop
        PROVE  Pending(calls, inbox', q) = dead'[q] + IF old_properties'[q] = NoCall THEN 0 ELSE 1
    <3>1. CASE q = p
      <4>1. m \in Replies(q)
        BY <2>2, <3>1
      <4>2. Pending(calls, inbox', q) \in Nat /\ Pending(calls, inbox, q) = Pending(calls, inbox', q) + 1
        BY <1>5, <4>1
      <4>3. Pending(calls, inbox, q) = dead[q] + IF old_properties[q] = NoCall THEN 0 ELSE 1
        BY <1>6
      <4>4. QED
        BY <1>7, <2>3, <2>4, <3>1, <4>2, <4>3
    <3>2. CASE q # p
      <4>1. m \notin Replies(q)
        BY <2>2, <3>2
      <4>2. Pending(calls, inbox', q) \in Nat /\ Pending(calls, inbox, q) = Pending(calls, inbox', q)
        BY <1>5, <4>1
      <4>3. QED
        BY <1>6, <2>4, <3>2, <4>2
    <3>3. QED
      BY <3>1, <3>2
  <2>6. Paired'
    BY <2>5 DEF Paired
  <2>7. ConnOK' /\ PhaseOK'
    <3>1. ConnOK'
      BY <1>3 DEF CallsOK, ConnOK
    <3>2. PhaseOK'
      BY <2>4 DEF CallsOK, PhaseOK
    <3>3. QED
      BY <3>1, <3>2
  <2>8. QED
    BY <1>3, <2>4, <2>6, <2>7
<1>10. QED
  BY <1>8, <1>9

LEMMA AskPaired ==
    CallsOK /\ (Open \/ \E p \in Prop : \/ Lookup(p) \/ \E v \in Val : SetUncached(p, v)
                                        \/ \E recursive \in BOOLEAN : Reset(p, recursive)) => CallsOK'
<1>1. ASSUME CallsOK, Open PROVE CallsOK'
  <2> DEFINE op == [kind |-> "prefetch"]
             m == [kind |-> "get all"]
  <2>1. op \in Operation /\ op # None /\ m \in Blocking
    BY DEF Operation, None, Blocking
  <2>2. waiting = None
    BY <1>1 DEF Open, CallsOK, PhaseOK
  <2>3. cache = "closed" /\ cache' = "opening" /\ Block(op, m) /\ UNCHANGED <<properties, listeners>>
    BY <1>1 DEF Open
  <2>4. op.kind = "prefetch"
    OBVIOUS
  <2> HIDE DEF op, m
  <2>5. QED
    BY <1>1, <2>1, <2>2, <2>3, <2>4, BlockPaired
<1>2. ASSUME CallsOK, NEW op \in Operation, op.kind \in {"lookup", "set", "reset"},
             NEW m \in Blocking, Block(op, m), Idle, UNCHANGED <<cache, properties, listeners>>
      PROVE  CallsOK'
  <2>1. op # None
    BY <1>2 DEF None
  <2>2. QED
    BY <1>2, <2>1, BlockPaired DEF Idle
<1>3. ASSUME CallsOK, NEW p \in Prop, Lookup(p) PROVE CallsOK'
  <2> DEFINE op == [kind |-> "lookup", prop |-> p]
             m == [kind |-> "get", prop |-> p]
  <2>1. op \in Operation /\ op.kind = "lookup" /\ m \in Blocking
    BY DEF Operation, Blocking
  <2>2. Block(op, m) /\ Idle /\ UNCHANGED <<cache, properties, listeners>>
    BY <1>3 DEF Lookup
  <2> HIDE DEF op, m
  <2>3. QED
    BY <1>2, <1>3, <2>1, <2>2
<1>4. ASSUME CallsOK, NEW p \in Prop, NEW v \in Val, SetUncached(p, v) PROVE CallsOK'
  <2> DEFINE op == [kind |-> "set", prop |-> p, value |-> v]
             m == [kind |-> "get", prop |-> p]
  <2>1. op \in Operation /\ op.kind = "set" /\ m \in Blocking
    BY DEF Operation, Blocking
  <2>2. Block(op, m) /\ Idle /\ UNCHANGED <<cache, properties, listeners>>
    BY <1>4 DEF SetUncached
  <2> HIDE DEF op, m
  <2>3. QED
    BY <1>2, <1>4, <2>1, <2>2
<1>5. ASSUME CallsOK, NEW p \in Prop, NEW recursive \in BOOLEAN, Reset(p, recursive) PROVE CallsOK'
  <2> DEFINE op == [kind |-> "reset", prop |-> p, recursive |-> recursive]
  <2>1. op \in Operation /\ op.kind = "reset" /\ op \in Blocking
    BY DEF Operation, Blocking
  <2>2. Block(op, op) /\ Idle /\ UNCHANGED <<cache, properties, listeners>>
    BY <1>5 DEF Reset
  <2> HIDE DEF op
  <2>3. QED
    BY <1>2, <1>5, <2>1, <2>2
<1>6. QED
  BY <1>1, <1>3, <1>4, <1>5

LEMMA SetCachedPaired ==
    ASSUME CallsOK, NEW p \in Prop, NEW v \in Val, SetCached(p, v) PROVE CallsOK'
<1>1. waiting = None /\ answer = None /\ cache = "open" /\ properties[p] \in Item
  BY OnlySets DEF SetCached, Idle, CallsOK, TypeOK
<1>2. /\ PutValue(p, v, properties[p]) /\ waiting' = None /\ answer' = None
      /\ UNCHANGED <<daemonVars, inbox, cache, faulty>>
  BY <1>1 DEF SetCached
<1>3. QED
  BY <1>1, <1>2, PutPaired

\* A blocked operation goes on when nothing is under way to the daemon.
LEMMA ResumePaired == CallsOK /\ Resume => CallsOK'
<1> SUFFICES ASSUME CallsOK, Resume PROVE CallsOK'
  OBVIOUS
<1>1. /\ answer # None /\ answer' = None /\ waiting' = None /\ calls = <<>>
      /\ UNCHANGED <<daemonVars, inbox, faulty>> /\ waiting # None
      /\ cache = (IF waiting.kind = "prefetch" THEN "opening" ELSE "open")
  BY DEF Resume, CallsOK, PhaseOK
<1>2. /\ answer \in Answer /\ waiting \in Operation
      /\ properties \in [Prop -> Item] /\ listeners \in [Watched -> Val \cup {Unset}]
  BY DEF CallsOK, ConnOK, TypeOK
<1>3. waiting.kind \in {"prefetch", "lookup", "set", "reset"}
  BY <1>1, <1>2 DEF Operation, None
\* of all but a set
<1>4. ASSUME properties' \in [Prop -> Item], listeners' \in [Watched -> Val \cup {Unset}],
             cache' = "open", UNCHANGED <<old_properties, dead, calls>>
      PROVE  CallsOK'
  <2>1. UNCHANGED <<system, user, queue, told, running, inbox, faulty>>
    BY <1>1 DEF daemonVars
  <2>2. None \in Answer /\ None \in Operation
    BY DEF None, Answer, Operation
  <2>3. TypeOK' /\ ConnOK' /\ Paired'
    BY <1>1, <1>4, <2>1, <2>2 DEF CallsOK, TypeOK, ConnOK, Paired
  <2>4. PhaseOK'
    <3>1. DOMAIN calls' = {}
      BY <1>1, <1>4
    <3>2. QED
      BY <1>1, <1>4, <3>1 DEF PhaseOK, None
  <2>5. QED
    BY <2>3, <2>4 DEF CallsOK
<1>5. CASE waiting.kind = "prefetch"
  <2>1. ResumePrefetch
    BY <1>5 DEF Resume
  <2>2. answer.kind = "values" => answer.values \in [Prop -> Val \cup {Unset}]
    BY <1>2 DEF Answer
  <2>3. properties' \in [Prop -> Item]
    BY <1>2, <2>1, <2>2 DEF ResumePrefetch, Item
  <2>4. \A p \in Watched : properties'[p] = NotCached \/ properties'[p] \in Val
    BY <2>3, CacheAssumption DEF Item
  <2>5. listeners' \in [Watched -> Val \cup {Unset}]
    BY <2>1, <2>4 DEF ResumePrefetch
  <2>6. QED
    BY <1>4, <2>1, <2>3, <2>5 DEF ResumePrefetch
<1>6. CASE waiting.kind = "lookup"
  <2>1. PICK p \in Prop : p = waiting.prop /\ ResumeLookup(p)
    BY <1>2, <1>6 DEF Resume, Operation
  <2>2. answer.kind = "value" => answer.value \in Val
    BY <1>2 DEF Answer
  <2>3. properties' \in [Prop -> Item]
    BY <1>2, <2>1, <2>2 DEF ResumeLookup, Item
  <2>4. QED
    BY <1>1, <1>2, <1>4, <1>6, <2>1, <2>3 DEF ResumeLookup
<1>7. CASE waiting.kind = "reset"
  <2>1. PICK p \in Prop, recursive \in BOOLEAN : ResumeReset(p, recursive)
    BY <1>2, <1>7 DEF Resume, Operation
  <2>2. properties' \in [Prop -> Item]
    BY <1>2, <2>1 DEF ResumeReset, Evict, Item
  <2>3. QED
    BY <1>1, <1>2, <1>4, <1>7, <2>1, <2>2 DEF ResumeReset
<1>8. CASE waiting.kind = "set"
  <2>1. PICK p \in Prop, v \in Val : ResumeSet(p, v)
    BY <1>2, <1>8 DEF Resume, Operation
  <2>2. CASE answer.kind = "bus error"
    BY <1>1, <1>2, <1>4, <1>8, <2>1, <2>2 DEF ResumeSet
  <2>3. CASE answer.kind # "bus error"
    <3>1. PICK item \in Item : item = IF answer.kind = "value" THEN answer.value ELSE NotCached
      BY <1>2 DEF Answer, Item
    <3>2. PutValue(p, v, item) /\ UNCHANGED cache
      BY <2>1, <2>3, <3>1 DEF ResumeSet
    <3>3. cache = "open"
      BY <1>1, <1>8
    <3>4. QED
      BY <1>1, <3>2, <3>3, PutPaired
  <2>4. QED
    BY <2>2, <2>3
<1>9. QED
  BY <1>3, <1>5, <1>6, <1>7, <1>8

\* What the main loop hands to a handler is booked, and the cache shows values.
LEMMA HandleBooks ==
    ASSUME CallsOK, Dispatch
    PROVE  /\ BookReply(Head(inbox)) /\ properties' \in [Prop -> Item]
           /\ listeners' \in [Watched -> Val \cup {Unset}]
<1>1. PICK m \in InboxMessage : m = Head(inbox) /\ Handle(m)
  BY TailOf DEF Dispatch, CallsOK, ConnOK
<1>2. /\ properties \in [Prop -> Item] /\ listeners \in [Watched -> Val \cup {Unset}]
      /\ old_properties \in [Prop -> [item : Item] \cup {NoCall}]
  BY DEF CallsOK, TypeOK
<1>3. PICK p \in Prop : p = m.prop
  BY InboxKinds
<1>4. CASE m.kind = "reply"
  <2>1. OnReply(p, m.ok)
    BY <1>1, <1>3, <1>4 DEF Handle
  <2>2. BookReply(m)
    BY <1>3, <1>4, <2>1 DEF BookReply, OnReply, HandleReply
  <2>3. dead[p] \in Nat /\ (dead[p] > 0 \/ old_properties[p] # NoCall)
    BY <1>1, <1>3, <1>4, ReplyHasItsSet DEF Dispatch
  <2>4. properties' \in [Prop -> Item] /\ UNCHANGED listeners
    <3>1. CASE dead[p] > 0
      BY <1>2, <2>1, <3>1 DEF OnReply
    <3>2. CASE ~(dead[p] > 0)
      <4>1. old_properties[p].item \in Item
        BY <1>2, <2>3, <3>2
      <4>2. HandleReply(p, m.ok)
        BY <2>1, <3>2 DEF OnReply
      <4>3. QED
        BY <1>2, <4>1, <4>2 DEF HandleReply, GoBack
    <3>3. QED
      BY <3>1, <3>2
  <2>5. QED
    BY <1>1, <1>2, <2>2, <2>4
<1>5. CASE m.kind = "changed"
  <2>1. PICK v \in Val : OnChanged(p, v)
    BY <1>1, <1>3, <1>5, InboxKinds DEF Handle
  <2>2. QED
    BY <1>1, <1>2, <1>5, <2>1 DEF OnChanged, Update, Emit, BookReply, Item
<1>6. CASE m.kind = "removed"
  <2>1. OnRemoved(p)
    BY <1>1, <1>3, <1>6 DEF Handle
  <2>2. QED
    BY <1>1, <1>2, <1>6, <2>1 DEF OnRemoved, Emit, BookReply, Item
<1>7. QED
  BY <1>4, <1>5, <1>6, InboxKinds

LEMMA DispatchPaired == CallsOK /\ Dispatch => CallsOK'
<1> SUFFICES ASSUME CallsOK, Dispatch PROVE CallsOK'
  OBVIOUS
<1>1. /\ UNCHANGED <<system, user, queue, told, running, calls, answer, cache, waiting, faulty>>
      /\ inbox # <<>> /\ inbox' = Tail(inbox)
  BY DEF Dispatch, daemonVars
<1>2. /\ BookReply(Head(inbox)) /\ properties' \in [Prop -> Item]
      /\ listeners' \in [Watched -> Val \cup {Unset}]
  BY HandleBooks
<1>3. /\ Paired' /\ ConnOK' /\ PhaseOK'
      /\ old_properties' \in [Prop -> [item : Item] \cup {NoCall}]
      /\ dead' \in [Prop -> 0..MaxDead]
  BY <1>1, <1>2, TakePaired
<1>4. TypeOK'
  BY <1>1, <1>2, <1>3 DEF CallsOK, TypeOK
<1>5. QED
  BY <1>3, <1>4 DEF CallsOK

\* The end of the cache and what comes after it.
LEMMA EndPaired == CallsOK /\ (Close \/ EndCall \/ Closed \/ Discard) => CallsOK'
<1>1. ASSUME CallsOK, Close PROVE CallsOK'
  <2>1. CallsOK /\ UNCHANGED <<daemonVars, connVars, properties, old_properties, waiting, listeners, faulty>>
    BY <1>1 DEF Close
  <2>2. waiting = None /\ cache' = "closing" /\ cache = "open"
    BY <1>1 DEF Close, Idle
  <2>3. TypeOK' /\ ConnOK' /\ Paired'
    BY <2>1, <2>2 DEF CallsOK, TypeOK, ConnOK, Paired, daemonVars, connVars
  <2>4. PhaseOK'
    BY <2>1, <2>2 DEF CallsOK, PhaseOK, connVars, None
  <2>5. QED
    BY <2>3, <2>4 DEF CallsOK
<1>2. ASSUME CallsOK, Closed PROVE CallsOK'
  <2>1. CallsOK /\ UNCHANGED <<daemonVars, connVars, old_properties, waiting, listeners, faulty>>
    BY <1>2 DEF Closed
  <2>2. /\ cache = "closing" /\ cache' = "closed" /\ \A p \in Prop : old_properties[p] = NoCall
        /\ properties' \in [Prop -> Item]
    BY <1>2 DEF Closed, Item
  <2>3. TypeOK' /\ ConnOK' /\ Paired'
    BY <2>1, <2>2 DEF CallsOK, TypeOK, ConnOK, Paired, daemonVars, connVars
  <2>4. PhaseOK'
    BY <2>1, <2>2 DEF CallsOK, PhaseOK, connVars, None
  <2>5. QED
    BY <2>3, <2>4 DEF CallsOK
<1>3. ASSUME CallsOK, EndCall \/ Discard PROVE CallsOK'
  <2>1. /\ UNCHANGED <<system, user, queue, told, running, calls, answer, cache, waiting, faulty,
                       properties, listeners>>
        /\ inbox # <<>> /\ inbox' = Tail(inbox)
    BY <1>3 DEF EndCall, Discard, daemonVars, clientVars
  <2>2. BookReply(Head(inbox))
    <3>1. CASE EndCall
      BY <3>1 DEF EndCall, BookReply
    <3>2. CASE Discard
      <4>1. \A p \in Prop : old_properties[p] = NoCall
        BY <1>3, <3>2 DEF Discard, CallsOK, PhaseOK
      <4>2. Head(inbox).kind = "reply" =>
              Head(inbox).prop \in Prop /\ dead[Head(inbox).prop] > 0
        BY <1>3, <2>1, <4>1, ReplyHasItsSet
      <4>3. QED
        BY <3>2, <4>2 DEF Discard, BookReply, clientVars
    <3>3. QED
      BY <1>3, <3>1, <3>2
  <2>3. /\ Paired' /\ ConnOK' /\ PhaseOK'
        /\ old_properties' \in [Prop -> [item : Item] \cup {NoCall}]
        /\ dead' \in [Prop -> 0..MaxDead]
    BY <1>3, <2>1, <2>2, TakePaired
  <2>4. TypeOK'
    BY <1>3, <2>1, <2>3 DEF CallsOK, TypeOK
  <2>5. QED
    BY <2>3, <2>4 DEF CallsOK
<1>4. QED
  BY <1>1, <1>2, <1>3

\* A call that is given up is one reply more that nobody waits for.
LEMMA TimesOutPaired ==
    ASSUME CallsOK, NEW p \in Prop, TimesOut(p) PROVE CallsOK'
<1>1. /\ UNCHANGED <<system, user, queue, told, running, calls, inbox, answer, cache, waiting>>
      /\ faulty' = TRUE /\ old_properties[p] # NoCall /\ dead[p] < MaxDead /\ cache = "open"
      /\ HandleReply(p, FALSE) /\ dead' = [dead EXCEPT ![p] = @ + 1]
  BY DEF TimesOut, Idle, daemonVars
<1>2. /\ properties \in [Prop -> Item] /\ listeners \in [Watched -> Val \cup {Unset}]
      /\ old_properties \in [Prop -> [item : Item] \cup {NoCall}] /\ dead \in [Prop -> 0..MaxDead]
  BY DEF CallsOK, TypeOK
<1>3. old_properties[p].item \in Item
  BY <1>1, <1>2
<1>4. /\ properties' \in [Prop -> Item] /\ listeners' = listeners
      /\ old_properties' = [old_properties EXCEPT ![p] = NoCall]
  BY <1>1, <1>2, <1>3 DEF HandleReply, GoBack
<1>5. dead' \in [Prop -> 0..MaxDead]
  <2>1. dead[p] \in 0..MaxDead /\ dead[p] + 1 \in 0..MaxDead
    BY <1>1, <1>2, CacheAssumption
  <2>2. QED
    BY <1>1, <1>2, <2>1
<1>6. old_properties' \in [Prop -> [item : Item] \cup {NoCall}]
  BY <1>2, <1>4
<1>7. Paired'
  <2>1. SUFFICES ASSUME NEW q \in Prop
                 PROVE  Pending(calls, inbox, q)
                          = dead'[q] + IF old_properties'[q] = NoCall THEN 0 ELSE 1
    BY <1>1 DEF Paired
  <2>2. Pending(calls, inbox, q) = dead[q] + IF old_properties[q] = NoCall THEN 0 ELSE 1
    BY DEF CallsOK, Paired
  <2>3. dead[q] \in Nat
    BY <1>2
  <2>4. CASE q = p
    BY <1>1, <1>2, <1>4, <2>2, <2>3, <2>4
  <2>5. CASE q # p
    BY <1>1, <1>2, <1>4, <2>2, <2>3, <2>5
  <2>6. QED
    BY <2>4, <2>5
<1>8. TypeOK' /\ ConnOK'
  BY <1>1, <1>4, <1>5, <1>6 DEF CallsOK, TypeOK, ConnOK
<1>9. PhaseOK'
  BY <1>1 DEF CallsOK, PhaseOK
<1>10. QED
  BY <1>7, <1>8, <1>9 DEF CallsOK

LEMMA NextPaired == CallsOK /\ [Next]_vars => CallsOK'
<1> SUFFICES ASSUME CallsOK, [Next]_vars PROVE CallsOK'
  OBVIOUS
<1>1. CASE App
  BY <1>1, AskPaired, SetCachedPaired, OtherClientPaired, EndPaired DEF App, AppChange
<1>2. CASE Daemon
  BY <1>2, ServePaired, EmitPaired, StartsPaired DEF Daemon
<1>3. CASE Client
  BY <1>3, ResumePaired, DispatchPaired, EndPaired DEF Client
<1>4. CASE DaemonDies
  BY <1>4, DiesPaired
<1>5. CASE \E p \in Prop : TimesOut(p)
  BY <1>5, TimesOutPaired
<1>6. CASE UNCHANGED vars
  <2>1. UNCHANGED <<connVars, clientVars, running, faulty>> /\ TypeOK'
    BY <1>6 DEF vars, daemonVars, connVars, clientVars, CallsOK, TypeOK
  <2>2. QED
    BY <2>1, StillPaired
<1>7. QED
  BY <1>1, <1>2, <1>3, <1>4, <1>5, <1>6 DEF Next

\* The invariant holds of every behaviour.
LEMMA AlwaysCallsOK == Spec => []CallsOK
  BY InitCalls, NextPaired, PTL DEF Spec

\* The cache, the connection's books and the daemon keep their shapes: no reply
\* takes a count of given up calls below zero, and no failed set puts anything
\* but an earlier item back.
THEOREM CacheTypes == Spec => []TypeOK
<1>1. CallsOK => TypeOK
  BY DEF CallsOK
<1>2. QED
  BY <1>1, AlwaysCallsOK, PTL

\* Each property with an old value has exactly one reply coming that will be
\* handled, and there is nobody whose reply is mixed up with another's
\* (blconf_cache_set, its reply handler and blconf_cache_old_item_end_call),
\* whatever fails in between.
THEOREM RepliesAreNotMixedUp == Spec => []EachReplyHasItsSet
<1>1. CallsOK => EachReplyHasItsSet
  BY CallsArePaired
<1>2. QED
  BY <1>1, AlwaysCallsOK, PTL

-----------------------------------------------------------------------------
(* What an application reads back.                                         *)

\* A step of the main loop leaves a property alone whose set is under way, or
\* drops it from the cache.
LEMMA DispatchHolds ==
    ASSUME CallsOK, Dispatch, NEW p \in Prop, old_properties[p] # NoCall,
           old_properties'[p] # NoCall
    PROVE  properties'[p] \in {properties[p], NotCached}
<1>1. PICK m \in InboxMessage : m = Head(inbox) /\ Handle(m)
  BY TailOf DEF Dispatch, CallsOK, ConnOK
<1>2. properties \in [Prop -> Item] /\ old_properties \in [Prop -> [item : Item] \cup {NoCall}]
  BY DEF CallsOK, TypeOK
<1>3. PICK q \in Prop : q = m.prop
  BY InboxKinds
<1>4. CASE m.kind = "reply"
  <2>1. OnReply(q, m.ok)
    BY <1>1, <1>3, <1>4 DEF Handle
  <2>2. CASE dead[q] > 0
    BY <2>1, <2>2 DEF OnReply
  <2>3. CASE ~(dead[q] > 0)
    <3>1. HandleReply(q, m.ok)
      BY <2>1, <2>3 DEF OnReply
    <3>2. q # p
      BY <1>2, <3>1 DEF HandleReply
    <3>3. QED
      BY <1>2, <3>1, <3>2 DEF HandleReply, GoBack
  <2>4. QED
    BY <2>2, <2>3
<1>5. CASE m.kind = "changed"
  <2>1. OnChanged(q, m.value)
    BY <1>1, <1>3, <1>5 DEF Handle
  <2>2. QED
    BY <1>2, <2>1 DEF OnChanged, Update
<1>6. CASE m.kind = "removed"
  <2>1. OnRemoved(q)
    BY <1>1, <1>3, <1>6 DEF Handle
  <2>2. QED
    BY <1>2, <2>1 DEF OnRemoved
<1>7. QED
  BY <1>4, <1>5, <1>6, InboxKinds

\* What an application has set it reads back until the daemon has answered:
\* blconf_cache_property_changed lets no signal of an earlier value, its own or
\* another client's, come between, and no reply of a call given up does.
THEOREM OwnSetIsReadBack == Spec => OwnSetHolds
<1>1. CallsOK => (\A p \in Prop :
          Dispatch /\ old_properties[p] # NoCall /\ old_properties'[p] # NoCall =>
              properties'[p] \in {properties[p], NotCached})
  BY DispatchHolds
<1>2. QED
  BY <1>1, AlwaysCallsOK, PTL DEF OwnSetHolds

-----------------------------------------------------------------------------
(* The daemon that the cache talks to.                                     *)

\* The queue as SettingsStore has it.
Named(q) == [i \in DOMAIN q |-> <<"channel", q[i]>>]

\* It has the same length and order.
LEMMA NamedQueue ==
    ASSUME NEW q \in Seq(Prop)
    PROVE  /\ Named(q) \in Seq({"channel"} \X Prop)
           /\ Len(q) \in Nat /\ Len(Named(q)) = Len(q)
           /\ \A i \in 1..Len(q) : Named(q)[i] = <<"channel", q[i]>>
           /\ Named(<<>>) = <<>>
           /\ q # <<>> => /\ Named(q) # <<>> /\ Tail(q) \in Seq(Prop)
                          /\ Head(Named(q)) = <<"channel", Head(q)>>
                          /\ Named(Tail(q)) = Tail(Named(q))
<1>1. Len(q) \in Nat /\ DOMAIN q = 1..Len(q) /\ \A i \in 1..Len(q) : q[i] \in Prop
  BY LenProperties, ElementOfSeq
<1>2. /\ Named(q) \in Seq({"channel"} \X Prop) /\ Len(Named(q)) = Len(q)
      /\ \A i \in 1..Len(q) : Named(q)[i] = <<"channel", q[i]>>
  BY <1>1 DEF Named
<1>3. Named(<<>>) = <<>>
  BY DEF Named
<1>4. ASSUME q # <<>>
      PROVE  /\ Named(q) # <<>> /\ Tail(q) \in Seq(Prop)
             /\ Head(Named(q)) = <<"channel", Head(q)>>
             /\ Named(Tail(q)) = Tail(Named(q))
  <2>1. /\ Len(q) \in Nat \ {0} /\ Head(q) = q[1] /\ Tail(q) \in Seq(Prop)
        /\ Len(Tail(q)) = Len(q) - 1 /\ DOMAIN Tail(q) = 1..(Len(q) - 1)
        /\ \A i \in 1..(Len(q) - 1) : Tail(q)[i] = q[i + 1]
    BY <1>4, TailOf
  <2>2. Named(q) # <<>>
    BY <1>2, <2>1, EmptySeq
  <2>3. /\ Head(Named(q)) = Named(q)[1] /\ Tail(Named(q)) \in Seq({"channel"} \X Prop)
        /\ Len(Tail(Named(q))) = Len(q) - 1 /\ DOMAIN Tail(Named(q)) = 1..(Len(q) - 1)
        /\ \A i \in 1..(Len(q) - 1) : Tail(Named(q))[i] = Named(q)[i + 1]
    BY <1>2, <2>2, TailOf
  <2>4. \A i \in 1..(Len(q) - 1) : Tail(Named(q))[i] = <<"channel", Tail(q)[i]>>
    BY <1>2, <2>1, <2>3
  <2>5. \A i \in 1..(Len(q) - 1) : Tail(q)[i] \in Prop
    BY <1>1, <2>1
  <2>6. /\ Named(Tail(q)) \in Seq({"channel"} \X Prop) /\ Len(Named(Tail(q))) = Len(q) - 1
        /\ \A i \in 1..(Len(q) - 1) : Named(Tail(q))[i] = <<"channel", Tail(q)[i]>>
    BY <2>1, <2>5 DEF Named
  <2>7. Named(Tail(q)) = Tail(Named(q))
    <3> DEFINE s == Named(Tail(q))
               t == Tail(Named(q))
    <3>1. s \in Seq({"channel"} \X Prop) /\ t \in Seq({"channel"} \X Prop) /\ Len(s) = Len(t)
      BY <2>3, <2>6
    <3>2. \A i \in 1..Len(s) : s[i] = t[i]
      BY <2>4, <2>6
    <3> HIDE DEF s, t
    <3>3. s = t
      BY <3>1, <3>2, SeqEqual
    <3>4. QED
      BY <3>3 DEF s, t
  <2>8. QED
    BY <1>2, <2>1, <2>2, <2>3, <2>7
<1>5. QED
  BY <1>1, <1>2, <1>3, <1>4

LockedAlone == \A p \in system.locked : user[p] = Unset

\* A request tells of every change, and changes nothing that is locked.
Tells ==
    /\ queue' \in Seq(Prop)
    /\ Len(queue) \in Nat /\ Len(queue') \in Nat /\ Len(queue) <= Len(queue')
    /\ \A i \in 1..Len(queue) : queue'[i] = queue[i]
    /\ \A p \in Prop : Setting(p)' # Setting(p) =>
          \E i \in (Len(queue) + 1)..Len(queue') : queue'[i] = p
    /\ LockedAlone =>
          LockedAlone' /\ \A i \in (Len(queue) + 1)..Len(queue') : queue'[i] \notin system.locked

\* A set that does not fail leaves the value there.
LEMMA SetTells ==
    ASSUME TypeOK, NEW p \in Prop, NEW v \in Val, user' = DoSet(p, v).user, UNCHANGED system,
           Notify(DoSet(p, v).changed)
    PROVE  /\ Tells
           /\ p \notin system.locked => Setting(p)' = v
<1>1. DoSet(p, v).changed \in SUBSET Prop
  BY RequestTypes
<1>2. /\ queue' \in Seq(Prop)
      /\ Len(queue) \in Nat /\ Len(queue') \in Nat /\ Len(queue) <= Len(queue')
      /\ \A i \in 1..Len(queue) : queue'[i] = queue[i]
      /\ \A i \in (Len(queue) + 1)..Len(queue') : queue'[i] \in DoSet(p, v).changed
      /\ \A q \in DoSet(p, v).changed : \E i \in (Len(queue) + 1)..Len(queue') : queue'[i] = q
  BY <1>1, NotifyAdds DEF TypeOK
<1>3. user \in [Prop -> Val \cup {Unset}] /\ v # Unset
  BY CacheAssumption DEF TypeOK
<1>4. ASSUME NEW q \in Prop, Setting(q)' # Setting(q) PROVE q \in DoSet(p, v).changed
  BY <1>3, <1>4 DEF DoSet, Setting
<1>5. LockedAlone => LockedAlone' /\ \A q \in DoSet(p, v).changed : q \notin system.locked
  BY <1>3 DEF DoSet, LockedAlone
<1>6. p \notin system.locked => Setting(p)' = v
  BY <1>3 DEF DoSet, Setting
<1>7. \A q \in Prop : Setting(q)' # Setting(q) =>
         \E i \in (Len(queue) + 1)..Len(queue') : queue'[i] = q
  BY <1>2, <1>4
<1>8. LockedAlone =>
         LockedAlone' /\ \A i \in (Len(queue) + 1)..Len(queue') : queue'[i] \notin system.locked
  BY <1>2, <1>5
<1>9. QED
  BY <1>2, <1>6, <1>7, <1>8 DEF Tells

\* A reset takes away what users have set.
LEMMA ResetTells ==
    ASSUME TypeOK, NEW p \in Prop, NEW recursive \in BOOLEAN, user' = DoReset(p, recursive).user,
           UNCHANGED system, Notify(DoReset(p, recursive).changed)
    PROVE  Tells
<1> DEFINE S == IF recursive THEN {p} \cup Below(p) ELSE {p}
<1>1. DoReset(p, recursive).changed \in SUBSET Prop
  BY RequestTypes
<1>2. /\ queue' \in Seq(Prop)
      /\ Len(queue) \in Nat /\ Len(queue') \in Nat /\ Len(queue) <= Len(queue')
      /\ \A i \in 1..Len(queue) : queue'[i] = queue[i]
      /\ \A i \in (Len(queue) + 1)..Len(queue') : queue'[i] \in DoReset(p, recursive).changed
      /\ \A q \in DoReset(p, recursive).changed :
            \E i \in (Len(queue) + 1)..Len(queue') : queue'[i] = q
  BY <1>1, NotifyAdds DEF TypeOK
<1>3. /\ user' = [q \in Prop |-> IF q \in S THEN Unset ELSE user[q]]
      /\ DoReset(p, recursive).changed = {q \in S : user[q] # Unset}
      /\ S \subseteq Prop
  BY DEF DoReset, UserSet, Below
<1> HIDE DEF S
<1>4. ASSUME NEW q \in Prop, Setting(q)' # Setting(q) PROVE q \in DoReset(p, recursive).changed
  BY <1>3, <1>4 DEF Setting
<1>5. system.locked \subseteq Prop
  BY CacheAssumption DEF TypeOK
<1>6. LockedAlone => LockedAlone' /\ \A q \in DoReset(p, recursive).changed : q \notin system.locked
  BY <1>3, <1>5 DEF LockedAlone
<1>7. \A q \in Prop : Setting(q)' # Setting(q) =>
         \E i \in (Len(queue) + 1)..Len(queue') : queue'[i] = q
  BY <1>2, <1>4
<1>8. LockedAlone =>
         LockedAlone' /\ \A i \in (Len(queue) + 1)..Len(queue') : queue'[i] \notin system.locked
  BY <1>2, <1>6
<1>9. QED
  BY <1>2, <1>7, <1>8 DEF Tells

\* Neither does a step that asks only.
LEMMA AskTells ==
    ASSUME TypeOK, UNCHANGED <<system, user, queue>>
    PROVE  Tells
  BY LenProperties DEF TypeOK, Tells, Setting, LockedAlone

LEMMA ServeTells ==
    ASSUME CallsOK, Serve \/ OtherClient
    PROVE  Tells /\ running /\ running' /\ UNCHANGED <<system, told>>
<1>1. running /\ running' /\ UNCHANGED <<system, told>> /\ TypeOK
  <2>1. running /\ UNCHANGED <<system, told, running>>
    BY DEF Serve, OtherClient
  <2>2. QED
    BY <2>1 DEF CallsOK
<1>2. CASE OtherClient
  <2>1. CASE \E p \in Prop, v \in Val : user' = DoSet(p, v).user /\ Notify(DoSet(p, v).changed)
    BY <1>1, <2>1, SetTells
  <2>2. CASE \E p \in Prop, recursive \in BOOLEAN :
                /\ user' = DoReset(p, recursive).user
                /\ Notify(DoReset(p, recursive).changed)
    BY <1>1, <2>2, ResetTells
  <2>3. QED
    BY <1>1, <1>2, <2>1, <2>2 DEF OtherClient
<1>3. CASE Serve
  <2>1. PICK m \in CallMessage : m = Head(calls)
    BY <1>3, TailOf DEF Serve, CallsOK, ConnOK
  <2>2. CASE m.kind = "set"
    <3>1. m.prop \in Prop /\ m.value \in Val /\ ServeSet(m)
      BY <1>3, <2>1, <2>2, CallKinds DEF Serve
    <3>2. QED
      BY <1>1, <3>1, SetTells DEF ServeSet
  <2>3. CASE m.kind = "reset"
    <3>1. m.prop \in Prop /\ m.recursive \in BOOLEAN /\ ServeReset(m)
      BY <1>3, <2>1, <2>3, CallKinds DEF Serve
    <3>2. QED
      BY <1>1, <3>1, ResetTells DEF ServeReset
  <2>4. CASE m.kind \in {"get", "get all"}
    <3>1. UNCHANGED <<user, queue>>
      BY <1>3, <2>1, <2>4 DEF Serve, ServeGet, ServeGetAll
    <3>2. QED
      BY <1>1, <3>1, AskTells
  <2>5. QED
    BY <2>2, <2>3, <2>4, CallKinds
<1>4. QED
  BY <1>1, <1>2, <1>3

\* The settings as SettingsStore has them.
InChannel(f) == [c \in {"channel"} |-> f]

LEMMA NextIsStoreStep == CallsOK /\ [Next]_vars => [Store!SettingsNext]_Store!storeVars
<1> SUFFICES ASSUME CallsOK, [Next]_vars
             PROVE  Store!SettingsNext \/ UNCHANGED Store!storeVars
  OBVIOUS
<1>1. /\ queue \in Seq(Prop) /\ Len(queue) \in Nat /\ Len(Named(queue)) = Len(queue)
      /\ Named(queue) \in Seq({"channel"} \X Prop)
      /\ told \in [Prop -> Val \cup {Unset}]
  BY NamedQueue DEF CallsOK, TypeOK
<1>2. CASE Serve \/ OtherClient
  <2>1. Tells /\ running /\ running' /\ UNCHANGED <<system, told>>
    BY <1>2, ServeTells
  <2>2. /\ Named(queue') \in Seq({"channel"} \X Prop) /\ Len(Named(queue')) = Len(queue')
        /\ \A i \in 1..Len(queue') : Named(queue')[i] = <<"channel", queue'[i]>>
        /\ \A i \in 1..Len(queue) : Named(queue)[i] = <<"channel", queue[i]>>
    BY <1>1, <2>1, NamedQueue DEF Tells
  <2>3. SubSeq(Named(queue'), 1, Len(queue)) = Named(queue)
    <3> DEFINE all == Named(queue')
               sub == SubSeq(all, 1, Len(queue))
    <3>1. all \in Seq({"channel"} \X Prop) /\ Len(all) = Len(queue') /\ Len(queue') \in Nat
          /\ Len(queue) <= Len(queue')
          /\ \A i \in 1..Len(queue) : all[i] = Named(queue)[i]
      <4>1. Len(queue) \in Nat /\ Len(queue') \in Nat /\ Len(queue) <= Len(queue')
            /\ \A i \in 1..Len(queue) : queue'[i] = queue[i]
        BY <2>1 DEF Tells
      <4>2. \A i \in 1..Len(queue) : i \in 1..Len(queue')
        BY <4>1
      <4>3. QED
        BY <2>2, <4>1, <4>2
    <3>2. \A i \in 1..Len(queue) : all[i] \in {"channel"} \X Prop
      BY <1>1, <3>1, ElementOfSeq
    <3> HIDE DEF all
    <3>3. /\ sub \in Seq({"channel"} \X Prop)
          /\ Len(sub) = IF 1 <= Len(queue) THEN Len(queue) - 1 + 1 ELSE 0
          /\ \A i \in 1..(Len(queue) - 1 + 1) : sub[i] = all[1 + i - 1]
      BY <1>1, <3>1, <3>2, SubSeqProperties
    <3> HIDE DEF sub
    <3>4. Len(sub) = Len(Named(queue)) /\ \A i \in 1..Len(sub) : sub[i] = Named(queue)[i]
      BY <1>1, <3>1, <3>3
    <3>5. sub = Named(queue)
      BY <1>1, <3>3, <3>4, SeqEqual
    <3>6. QED
      BY <3>5 DEF sub, all
  <2>4. ASSUME NEW p \in Prop, Settings'[p] # Settings[p]
        PROVE  \E i \in (Len(queue) + 1)..Len(queue') : Named(queue')[i] = <<"channel", p>>
    <3>1. Setting(p)' # Setting(p)
      BY <2>4 DEF Settings
    <3>2. PICK i \in (Len(queue) + 1)..Len(queue') : queue'[i] = p
      BY <2>1, <3>1 DEF Tells
    <3>3. i \in 1..Len(queue')
      BY <2>1 DEF Tells
    <3>4. QED
      BY <2>2, <3>2, <3>3
  <2>5. Store!Changes
    <3>1. /\ Len(Named(queue)) <= Len(Named(queue'))
          /\ SubSeq(Named(queue'), 1, Len(Named(queue))) = Named(queue)
      BY <1>1, <2>1, <2>2, <2>3 DEF Tells
    <3>2. \A c \in {"channel"}, p \in Prop :
             InChannel(Settings')[c][p] # InChannel(Settings)[c][p] =>
               \E i \in (Len(Named(queue)) + 1)..Len(Named(queue')) : Named(queue')[i] = <<c, p>>
      BY <1>1, <2>2, <2>4 DEF InChannel
    <3>3. InChannel(told') = InChannel(told)
      BY <2>1
    <3>4. QED
      BY <2>1, <3>1, <3>2, <3>3 DEF Store!Changes, Named, InChannel
  <2>6. QED
    BY <2>5 DEF Store!SettingsNext
<1>3. CASE EmitIdled
  <2>1. PICK p \in Prop : /\ p = Head(queue) /\ queue # <<>> /\ queue' = Tail(queue)
                          /\ told' = [told EXCEPT ![p] = Setting(p)]
                          /\ running /\ UNCHANGED <<system, user, running>>
    BY <1>1, <1>3, TailOf DEF EmitIdled
  <2>2. /\ Named(queue) # <<>> /\ Head(Named(queue)) = <<"channel", p>>
        /\ Named(queue') = Tail(Named(queue))
    BY <1>1, <2>1, NamedQueue
  <2>3. Settings' = Settings
    BY <2>1 DEF Settings, Setting
  <2>4. InChannel(told') = [InChannel(told) EXCEPT !["channel"][p] = InChannel(Settings)["channel"][p]]
    BY <1>1, <2>1 DEF InChannel, Settings
  <2>5. Head(Named(queue))[1] = "channel" /\ Head(Named(queue))[2] = p
    BY <2>2
  <2>6. Store!Signal
    BY <2>1, <2>2, <2>3, <2>4, <2>5 DEF Store!Signal, Named, InChannel
  <2>7. QED
    BY <2>6 DEF Store!SettingsNext
<1>4. CASE DaemonDies
  <2>1. running /\ ~running' /\ queue' = <<>> /\ told' = told
    BY <1>4 DEF DaemonDies, CallsOK, ConnOK
  <2>2. Named(queue') = <<>>
    BY <1>1, <2>1, NamedQueue
  <2>3. Store!Stop
    BY <2>1, <2>2 DEF Store!Stop, Named
  <2>4. QED
    BY <2>3 DEF Store!SettingsNext
<1>5. CASE DaemonStarts
  <2>1. ~running /\ running' /\ told' = Settings /\ UNCHANGED <<system, user, queue>>
    BY <1>5 DEF DaemonStarts
  <2>2. Settings' = Settings
    BY <2>1 DEF Settings, Setting
  <2>3. Store!Start
    BY <2>1, <2>2 DEF Store!Start
  <2>4. QED
    BY <2>3 DEF Store!SettingsNext
<1>6. CASE UNCHANGED daemonVars
  <2>1. UNCHANGED <<system, user, queue, told, running>>
    BY <1>6 DEF daemonVars
  <2>2. Settings' = Settings
    BY <2>1 DEF Settings, Setting
  <2>3. QED
    BY <2>1, <2>2 DEF Store!storeVars
<1>7. Serve \/ OtherClient \/ EmitIdled \/ DaemonDies \/ DaemonStarts \/ UNCHANGED daemonVars
  <2>1. ASSUME NEW p \in Prop, NEW v \in Val, SetCached(p, v) \/ SetUncached(p, v)
        PROVE  UNCHANGED daemonVars
    BY <2>1 DEF SetCached, SetUncached, Block
  <2>2. ASSUME NEW p \in Prop, NEW recursive \in BOOLEAN, Reset(p, recursive) \/ Lookup(p)
        PROVE  UNCHANGED daemonVars
    BY <2>2 DEF Reset, Lookup, Block
  <2>3. Open \/ Close \/ (\E p \in Prop : Lookup(p) \/ TimesOut(p)) => UNCHANGED daemonVars
    BY DEF Open, Close, Lookup, TimesOut, Block
  <2>4. Client => UNCHANGED daemonVars
    BY DEF Client, Resume, Dispatch, EndCall, Closed, Discard
  <2>5. QED
    BY <2>1, <2>2, <2>3, <2>4 DEF Next, App, AppChange, Daemon, vars
<1>8. QED
  BY <1>2, <1>3, <1>4, <1>5, <1>6, <1>7

LEMMA InitIsStoreInit == Init => Store!SettingsInit
<1> SUFFICES ASSUME Init PROVE Store!SettingsInit
  OBVIOUS
<1>1. Named(queue) = <<>>
  BY DEF Init, Named
<1>2. QED
  BY <1>1 DEF Init, Store!SettingsInit, Named

\* The daemon of this model makes the promise that the daemon's own model is
\* shown to keep (BlconfDaemonProofs): what is proved here of the cache needs
\* nothing of a daemon that the real one does not do.
THEOREM ItsDaemonIsSettingsStore == Spec => DaemonIsSettingsStore
  BY InitIsStoreInit, NextIsStoreStep, AlwaysCallsOK, PTL
  DEF Spec, DaemonIsSettingsStore, Store!SettingsSpec

-----------------------------------------------------------------------------
(* What the cache may be behind by, while nothing has failed.              *)

\* A signal of p that comes after every reply for p that is under way.
Behind(q, b, p) ==
    \/ \E i \in DOMAIN q : q[i] = p
    \/ \E i \in DOMAIN b : b[i] \in Signals(p) /\ \A j \in DOMAIN b : j > i => b[j] \notin Replies(p)

Fresh(p, item) == item \in {NotCached, Setting(p)} \/ Behind(queue, inbox, p)

\* What the daemon sends, whether or not a cache is there.  Only sets of locked
\* properties fail and nothing is signalled of these; a signal tells the present
\* value, or another one of the property is behind it.
Arrived(i) ==
    LET m == inbox[i]
    IN  /\ m.kind = "reply" => m.ok = (m.prop \notin system.locked)
        /\ m.kind # "reply" => m.prop \notin system.locked
        /\ m.kind = "changed" => \/ m.value = Setting(m.prop)
                                 \/ \E j \in DOMAIN queue : queue[j] = m.prop
                                 \/ \E j \in DOMAIN inbox : j > i /\ inbox[j] \in Signals(m.prop)

WireOK ==
    /\ LockedAlone /\ \A i \in DOMAIN queue : queue[i] \notin system.locked
    /\ \A i \in DOMAIN inbox : Arrived(i)

\* A value that is asked for is that of the property somebody waits for.
AnswerOK ==
    /\ \A i \in DOMAIN calls : calls[i].kind = "get" =>
          waiting.kind \in {"lookup", "set"} /\ waiting.prop = calls[i].prop
    /\ answer.kind = "value" => waiting.kind \in {"lookup", "set"} /\ Fresh(waiting.prop, answer.value)
    /\ answer.kind = "values" => \A p \in Prop : answer.values[p] # Unset => Fresh(p, answer.values[p])

HasSet(c, p) == \E i \in DOMAIN c : c[i] \in SetCalls(p)
LastSet(c, p, i) == c[i] \in SetCalls(p) /\ \A j \in DOMAIN c : j > i => c[j] \notin SetCalls(p)

\* While a set of p is under way the cache shows what the last one says.  Once
\* that was served it shows the daemon's value, or a signal comes after its
\* reply.
SetShows(p) ==
    /\ ~HasSet(calls, p) => Fresh(p, properties[p])
    /\ \A i \in DOMAIN calls : LastSet(calls, p, i) => properties[p] \in {NotCached, calls[i].value}

\* A set of a locked property will fail, and goes back to the system's value.
ItemOK(p) ==
    IF old_properties[p] = NoCall THEN Fresh(p, properties[p])
    ELSE IF p \in system.locked THEN old_properties[p].item \in {NotCached, Setting(p)}
    ELSE SetShows(p)

CacheOK ==
    /\ cache = "open" => \A p \in Prop : ItemOK(p)
    /\ cache \in {"closed", "opening"} => \A p \in Prop : properties[p] = NotCached
    /\ \A p \in Prop : old_properties[p] = NoCall => dead[p] = 0

\* The inductive strengthening of BehindBySignals.
Current == ~faulty => WireOK /\ AnswerOK /\ CacheOK

\* What it is for.
LEMMA CurrentIsBehindBySignals == CallsOK /\ Current => BehindBySignals
<1>1. SUFFICES ASSUME CallsOK, Current, ~faulty, cache = "open", NEW p \in Prop,
                      old_properties[p] = NoCall, properties[p] \notin {NotCached, Setting(p)}
               PROVE  SignalUnderWay(p)
  BY DEF BehindBySignals
<1>2. Behind(queue, inbox, p)
  BY <1>1 DEF Current, CacheOK, ItemOK, Fresh
<1>3. \A i \in DOMAIN inbox : inbox[i] \in Signals(p) => inbox[i].kind # "reply" /\ inbox[i].prop = p
  BY DEF Signals
<1>4. QED
  BY <1>2, <1>3 DEF Behind, SignalUnderWay

LEMMA InitCurrent == Init => Current
<1> SUFFICES ASSUME Init PROVE WireOK /\ AnswerOK /\ CacheOK
  BY DEF Current
<1>1. WireOK
  BY DEF Init, WireOK, LockedAlone
<1>2. AnswerOK
  BY DEF Init, AnswerOK, None
<1>3. CacheOK
  BY DEF Init, CacheOK
<1>4. QED
  BY <1>1, <1>2, <1>3

\* A message that is taken was not the signal, or replies follow it.
LEMMA BehindTake ==
    ASSUME NEW q, NEW b \in Seq(InboxMessage), b # <<>>, NEW p \in Prop, Behind(q, b, p),
           Head(b) \notin Signals(p) \/ \E j \in DOMAIN Tail(b) : Tail(b)[j] \in Replies(p)
    PROVE  Behind(q, Tail(b), p)
<1>1. /\ Len(b) \in Nat \ {0} /\ DOMAIN b = 1..Len(b) /\ Head(b) = b[1]
      /\ DOMAIN Tail(b) = 1..(Len(b) - 1)
      /\ \A i \in 1..(Len(b) - 1) : Tail(b)[i] = b[i + 1]
  BY TailOf
<1>2. CASE \E i \in DOMAIN q : q[i] = p
  BY <1>2 DEF Behind
<1>3. CASE ~\E i \in DOMAIN q : q[i] = p
  <2>1. PICK i \in DOMAIN b : b[i] \in Signals(p) /\ \A j \in DOMAIN b : j > i => b[j] \notin Replies(p)
    BY <1>3 DEF Behind
  <2>2. i # 1
    <3>1. ASSUME NEW j \in DOMAIN Tail(b), Tail(b)[j] \in Replies(p), i = 1 PROVE FALSE
      <4>1. j + 1 \in DOMAIN b /\ j + 1 > 1 /\ b[j + 1] \in Replies(p)
        BY <1>1, <3>1
      <4>2. QED
        BY <2>1, <3>1, <4>1
    <3>2. QED
      BY <1>1, <2>1, <3>1
  <2>3. /\ i - 1 \in DOMAIN Tail(b) /\ Tail(b)[i - 1] \in Signals(p)
    BY <1>1, <2>1, <2>2
  <2>4. \A j \in DOMAIN Tail(b) : j > i - 1 => Tail(b)[j] \notin Replies(p)
    <3>1. SUFFICES ASSUME NEW j \in DOMAIN Tail(b), j > i - 1 PROVE Tail(b)[j] \notin Replies(p)
      OBVIOUS
    <3>2. j + 1 \in DOMAIN b /\ j + 1 > i /\ Tail(b)[j] = b[j + 1]
      BY <1>1, <2>1, <3>1
    <3>3. QED
      BY <2>1, <3>2
  <2>5. QED
    BY <2>3, <2>4 DEF Behind
<1>4. QED
  BY <1>2, <1>3

\* A message that arrives is the signal itself, or no reply to p.
LEMMA BehindPost ==
    ASSUME NEW q, NEW b \in Seq(InboxMessage), NEW m \in InboxMessage, NEW p \in Prop
    PROVE  /\ Behind(q, b, p) /\ m \notin Replies(p) => Behind(q, Append(b, m), p)
           /\ m \in Signals(p) => Behind(q, Append(b, m), p)
<1> DEFINE a == Append(b, m)
           n == Len(b) + 1
<1>1. /\ Len(b) \in Nat /\ DOMAIN b = 1..Len(b) /\ DOMAIN a = 1..n /\ a[n] = m
      /\ \A i \in 1..Len(b) : a[i] = b[i]
  BY AppendProperties, LenProperties
<1> HIDE DEF a
<1>2. ASSUME Behind(q, b, p), m \notin Replies(p) PROVE Behind(q, a, p)
  <2>1. CASE \E i \in DOMAIN q : q[i] = p
    BY <2>1 DEF Behind
  <2>2. CASE ~\E i \in DOMAIN q : q[i] = p
    <3>1. PICK i \in DOMAIN b : b[i] \in Signals(p) /\ \A j \in DOMAIN b : j > i => b[j] \notin Replies(p)
      BY <1>2, <2>2 DEF Behind
    <3>2. i \in DOMAIN a /\ a[i] \in Signals(p)
      BY <1>1, <3>1
    <3>3. \A j \in DOMAIN a : j > i => a[j] \notin Replies(p)
      BY <1>1, <1>2, <3>1
    <3>4. QED
      BY <3>2, <3>3 DEF Behind
  <2>3. QED
    BY <2>1, <2>2
<1>3. ASSUME m \in Signals(p) PROVE Behind(q, a, p)
  <2>1. n \in DOMAIN a /\ a[n] \in Signals(p) /\ \A j \in DOMAIN a : ~(j > n)
    BY <1>1, <1>3
  <2>2. QED
    BY <2>1 DEF Behind
<1>4. QED
  BY <1>2, <1>3 DEF a

\* The sets among the calls, when one is served or added.
LEMMA SetsServed ==
    ASSUME NEW c \in Seq(CallMessage), c # <<>>, NEW p \in Prop
    PROVE  /\ \A i \in DOMAIN Tail(c) : LastSet(Tail(c), p, i) =>
                 \E j \in DOMAIN c : LastSet(c, p, j) /\ c[j] = Tail(c)[i]
           /\ ~HasSet(Tail(c), p) =>
                 IF Head(c) \in SetCalls(p) THEN 1 \in DOMAIN c /\ LastSet(c, p, 1) /\ c[1] = Head(c)
                 ELSE ~HasSet(c, p)
<1> DEFINE t == Tail(c)
<1>1. /\ Len(c) \in Nat \ {0} /\ DOMAIN c = 1..Len(c) /\ Head(c) = c[1]
      /\ DOMAIN t = 1..(Len(c) - 1)
      /\ \A i \in 1..(Len(c) - 1) : t[i] = c[i + 1]
  BY TailOf
<1>2. \A j \in DOMAIN c : j = 1 \/ (j - 1 \in DOMAIN t /\ t[j - 1] = c[j])
  BY <1>1
<1> HIDE DEF t
<1>3. ASSUME NEW i \in DOMAIN t, LastSet(t, p, i)
      PROVE  \E j \in DOMAIN c : LastSet(c, p, j) /\ c[j] = t[i]
  <2>1. i + 1 \in DOMAIN c /\ c[i + 1] = t[i]
    BY <1>1
  <2>2. ASSUME NEW j \in DOMAIN c, j > i + 1 PROVE c[j] \notin SetCalls(p)
    <3>1. j - 1 \in DOMAIN t /\ t[j - 1] = c[j] /\ j - 1 > i
      BY <1>1, <2>2
    <3>2. QED
      BY <1>3, <3>1 DEF LastSet
  <2>3. LastSet(c, p, i + 1)
    BY <1>3, <2>1, <2>2 DEF LastSet
  <2>4. QED
    BY <2>1, <2>3
<1>4. ASSUME ~HasSet(t, p), Head(c) \in SetCalls(p)
      PROVE  1 \in DOMAIN c /\ LastSet(c, p, 1) /\ c[1] = Head(c)
  <2>1. \A j \in DOMAIN c : j > 1 => c[j] \notin SetCalls(p)
    BY <1>1, <1>2, <1>4 DEF HasSet
  <2>2. QED
    BY <1>1, <1>4, <2>1 DEF LastSet
<1>5. ASSUME ~HasSet(t, p), Head(c) \notin SetCalls(p)
      PROVE  ~HasSet(c, p)
  BY <1>1, <1>2, <1>5 DEF HasSet
<1>6. QED
  BY <1>3, <1>4, <1>5 DEF t

LEMMA SetsAdded ==
    ASSUME NEW c \in Seq(CallMessage), NEW m \in CallMessage, NEW p \in Prop
    PROVE  LET a == Append(c, m)
           IN  /\ m \notin SetCalls(p) =>
                     /\ ~HasSet(a, p) => ~HasSet(c, p)
                     /\ \A i \in DOMAIN a : LastSet(a, p, i) =>
                           i \in DOMAIN c /\ LastSet(c, p, i) /\ c[i] = a[i]
               /\ m \in SetCalls(p) =>
                     /\ HasSet(a, p)
                     /\ \A i \in DOMAIN a : LastSet(a, p, i) => a[i] = m
<1> DEFINE a == Append(c, m)
           n == Len(c) + 1
<1>1. /\ Len(c) \in Nat /\ DOMAIN c = 1..Len(c) /\ DOMAIN a = 1..n /\ a[n] = m
      /\ \A i \in 1..Len(c) : a[i] = c[i]
  BY AppendProperties, LenProperties
<1> HIDE DEF a
<1>2. n \in DOMAIN a /\ \A i \in DOMAIN a : i = n \/ (i \in DOMAIN c /\ a[i] = c[i] /\ n > i)
  BY <1>1
<1>3. \A i \in DOMAIN c : i \in DOMAIN a /\ a[i] = c[i]
  BY <1>1
<1>4. ASSUME m \notin SetCalls(p), ~HasSet(a, p) PROVE ~HasSet(c, p)
  BY <1>3, <1>4 DEF HasSet
<1>5. ASSUME m \notin SetCalls(p), NEW i \in DOMAIN a, LastSet(a, p, i)
      PROVE  i \in DOMAIN c /\ LastSet(c, p, i) /\ c[i] = a[i]
  <2>1. i # n
    BY <1>1, <1>5 DEF LastSet
  <2>2. i \in DOMAIN c /\ c[i] = a[i]
    BY <1>2, <2>1
  <2>3. QED
    BY <1>3, <1>5, <2>2 DEF LastSet
<1>6. ASSUME m \in SetCalls(p) PROVE HasSet(a, p)
  BY <1>1, <1>2, <1>6 DEF HasSet
<1>7. ASSUME m \in SetCalls(p), NEW i \in DOMAIN a, LastSet(a, p, i) PROVE a[i] = m
  BY <1>1, <1>2, <1>7 DEF LastSet
<1>8. QED
  BY <1>4, <1>5, <1>6, <1>7 DEF a

\* What is sent stays in order when the first message is taken.
LEMMA WireTake ==
    ASSUME CallsOK, WireOK, inbox # <<>>, inbox' = Tail(inbox), UNCHANGED <<system, user, queue>>
    PROVE  WireOK'
<1>1. /\ Len(inbox) \in Nat \ {0} /\ DOMAIN inbox = 1..Len(inbox)
      /\ DOMAIN inbox' = 1..(Len(inbox) - 1)
      /\ \A i \in 1..(Len(inbox) - 1) : inbox'[i] = inbox[i + 1]
  BY TailOf DEF CallsOK, ConnOK
<1>2. \A p \in Prop : Setting(p)' = Setting(p)
  BY DEF Setting
<1>3. ASSUME NEW i \in DOMAIN inbox'
      PROVE  Arrived(i)'
  <2>1. i + 1 \in DOMAIN inbox /\ inbox'[i] = inbox[i + 1]
    BY <1>1
  <2>2. PICK m \in InboxMessage : m = inbox[i + 1]
    BY <2>1, <1>1, ElementOfSeq DEF CallsOK, ConnOK
  <2>3. Arrived(i + 1)
    BY <2>1 DEF WireOK
  <2>4. m.prop \in Prop
    BY InboxKinds
  <2>5. /\ m.kind = "reply" => m.ok = (m.prop \notin system'.locked)
        /\ m.kind # "reply" => m.prop \notin system'.locked
    BY <2>2, <2>3 DEF Arrived
  <2>6. ASSUME m.kind = "changed"
        PROVE  \/ m.value = Setting(m.prop)'
               \/ \E j \in DOMAIN queue' : queue'[j] = m.prop
               \/ \E j \in DOMAIN inbox' : j > i /\ inbox'[j] \in Signals(m.prop)
    <3>1. \/ m.value = Setting(m.prop)
          \/ \E j \in DOMAIN queue : queue[j] = m.prop
          \/ \E j \in DOMAIN inbox : j > i + 1 /\ inbox[j] \in Signals(m.prop)
      BY <2>2, <2>3, <2>6 DEF Arrived
    <3>2. ASSUME NEW j \in DOMAIN inbox, j > i + 1, inbox[j] \in Signals(m.prop)
          PROVE  \E k \in DOMAIN inbox' : k > i /\ inbox'[k] \in Signals(m.prop)
      <4>1. j - 1 \in DOMAIN inbox' /\ j - 1 > i /\ inbox'[j - 1] = inbox[j]
        BY <1>1, <3>2
      <4>2. QED
        BY <3>2, <4>1
    <3>3. QED
      BY <1>2, <2>4, <3>1, <3>2
  <2>7. QED
    BY <2>1, <2>2, <2>5, <2>6 DEF Arrived
<1>4. QED
  BY <1>3 DEF WireOK, LockedAlone

\* Requests of any client leave what was sent in order, and so does a reply
\* that tells whether the set of it was locked.
LEMMA WireTells ==
    ASSUME CallsOK, WireOK, Tells, UNCHANGED system,
           \/ inbox' = inbox
           \/ \E m \in InboxMessage : /\ inbox' = Append(inbox, m) /\ m.kind = "reply"
                                      /\ m.ok = (m.prop \notin system.locked)
    PROVE  WireOK'
<1>1. /\ Len(inbox) \in Nat /\ DOMAIN inbox = 1..Len(inbox)
      /\ \A i \in DOMAIN inbox : i \in DOMAIN inbox' /\ inbox'[i] = inbox[i]
      /\ \A i \in DOMAIN inbox' : \/ i \in DOMAIN inbox
                                  \/ /\ inbox'[i] \in InboxMessage /\ inbox'[i].kind = "reply"
                                     /\ inbox'[i].ok = (inbox'[i].prop \notin system.locked)
  <2>1. inbox \in Seq(InboxMessage)
    BY DEF CallsOK, ConnOK
  <2>2. QED
    BY <2>1, AppendProperties, LenProperties
<1>2. LockedAlone' /\ \A i \in DOMAIN queue' : queue'[i] \notin system.locked
  <2>1. /\ DOMAIN queue = 1..Len(queue) /\ DOMAIN queue' = 1..Len(queue')
        /\ Len(queue) \in Nat /\ Len(queue') \in Nat
    BY LenProperties DEF CallsOK, TypeOK, Tells
  <2>2. QED
    BY <2>1 DEF Tells, WireOK
<1>3. ASSUME NEW p \in Prop
      PROVE  /\ (\E j \in DOMAIN queue : queue[j] = p) => \E j \in DOMAIN queue' : queue'[j] = p
             /\ Setting(p)' # Setting(p) => \E j \in DOMAIN queue' : queue'[j] = p
  <2>1. /\ DOMAIN queue = 1..Len(queue) /\ DOMAIN queue' = 1..Len(queue')
        /\ Len(queue) \in Nat /\ Len(queue') \in Nat /\ Len(queue) <= Len(queue')
    BY LenProperties DEF CallsOK, TypeOK, Tells
  <2>2. QED
    BY <2>1 DEF Tells
<1>4. ASSUME NEW i \in DOMAIN inbox
      PROVE  Arrived(i)'
  <2>1. PICK m \in InboxMessage : m = inbox[i] /\ m = inbox'[i]
    BY <1>1, ElementOfSeq DEF CallsOK, ConnOK
  <2>2. Arrived(i) /\ m.prop \in Prop
    BY InboxKinds DEF WireOK
  <2>3. ASSUME m.kind = "changed"
        PROVE  \/ m.value = Setting(m.prop)'
               \/ \E j \in DOMAIN queue' : queue'[j] = m.prop
               \/ \E j \in DOMAIN inbox' : j > i /\ inbox'[j] \in Signals(m.prop)
    BY <1>1, <1>3, <2>1, <2>2, <2>3 DEF Arrived
  <2>4. QED
    BY <2>1, <2>2, <2>3 DEF Arrived
<1>5. ASSUME NEW i \in DOMAIN inbox'
      PROVE  Arrived(i)'
  <2>1. CASE i \in DOMAIN inbox
    BY <1>4, <2>1
  <2>2. CASE i \notin DOMAIN inbox
    BY <1>1, <2>2 DEF Arrived
  <2>3. QED
    BY <2>1, <2>2
<1>6. QED
  BY <1>2, <1>5 DEF WireOK

\* What was fresh, or is about to be, stays so when the daemon serves requests,
\* unless the reply to a set of it overtakes the signal.
LEMMA FreshTells ==
    ASSUME CallsOK, Tells, UNCHANGED system, NEW p \in Prop, NEW item,
           \/ inbox' = inbox
           \/ \E m \in InboxMessage : inbox' = Append(inbox, m) /\ m \notin Replies(p),
           Fresh(p, item)
    PROVE  Fresh(p, item)'
<1>1. /\ (\E j \in DOMAIN queue : queue[j] = p) => \E j \in DOMAIN queue' : queue'[j] = p
      /\ Setting(p)' # Setting(p) => \E j \in DOMAIN queue' : queue'[j] = p
  <2>1. /\ DOMAIN queue = 1..Len(queue) /\ DOMAIN queue' = 1..Len(queue')
        /\ Len(queue) \in Nat /\ Len(queue') \in Nat /\ Len(queue) <= Len(queue')
    BY LenProperties DEF CallsOK, TypeOK, Tells
  <2>2. QED
    BY <2>1 DEF Tells
<1>2. CASE item \in {NotCached, Setting(p)}
  BY <1>1, <1>2 DEF Fresh, Behind
<1>3. CASE Behind(queue, inbox, p)
  <2>1. Behind(queue, inbox', p)
    BY <1>3, BehindPost DEF CallsOK, ConnOK
  <2>2. Behind(queue', inbox', p)
    BY <1>1, <2>1 DEF Behind
  <2>3. QED
    BY <2>2 DEF Fresh
<1>4. QED
  BY <1>2, <1>3 DEF Fresh

\* Nothing is signalled of a locked property, whose setting does not change.
LEMMA LockedStays ==
    ASSUME LockedAlone, Tells, UNCHANGED system, NEW p \in Prop, p \in system.locked
    PROVE  Setting(p)' = Setting(p)
  BY DEF Tells

\* What the cache shows of a property is as good as before when the daemon
\* serves a request that is not a set of it.
LEMMA ItemTells ==
    ASSUME CallsOK, WireOK, Tells, UNCHANGED <<system, properties, old_properties>>, NEW p \in Prop,
           \/ inbox' = inbox
           \/ \E m \in InboxMessage : inbox' = Append(inbox, m) /\ m \notin Replies(p),
           ~HasSet(calls', p) => ~HasSet(calls, p),
           \A i \in DOMAIN calls' : LastSet(calls', p, i) =>
              \E j \in DOMAIN calls : LastSet(calls, p, j) /\ calls[j] = calls'[i],
           ItemOK(p)
    PROVE  ItemOK(p)'
<1>1. \A item : Fresh(p, item) => Fresh(p, item)'
  BY FreshTells
<1>2. CASE old_properties[p] = NoCall
  BY <1>1, <1>2 DEF ItemOK
<1>3. CASE old_properties[p] # NoCall /\ p \in system.locked
  BY <1>3, LockedStays DEF ItemOK, WireOK
<1>4. CASE old_properties[p] # NoCall /\ p \notin system.locked
  <2>1. SetShows(p)
    BY <1>4 DEF ItemOK
  <2>2. SetShows(p)'
    BY <1>1, <2>1 DEF SetShows
  <2>3. QED
    BY <1>4, <2>2 DEF ItemOK
<1>5. QED
  BY <1>2, <1>3, <1>4

\* So is an answer that nobody has taken yet.
LEMMA AnswerKept ==
    ASSUME CallsOK, AnswerOK, UNCHANGED <<answer, waiting, calls>>,
           \A p \in Prop : \A item : Fresh(p, item) => Fresh(p, item)'
    PROVE  AnswerOK'
<1>1. PICK a, w : a = answer /\ w = waiting
  OBVIOUS
<1>2. ASSUME a.kind = "value"
      PROVE  w.kind \in {"lookup", "set"} /\ Fresh(w.prop, a.value)'
  <2>1. w.kind \in {"lookup", "set"} /\ Fresh(w.prop, a.value)
    BY <1>1, <1>2 DEF AnswerOK
  <2>2. w.prop \in Prop
    BY <1>1, <2>1 DEF CallsOK, ConnOK, Operation
  <2>3. QED
    BY <2>1, <2>2
<1>3. ASSUME a.kind = "values", NEW p \in Prop, a.values[p] # Unset
      PROVE  Fresh(p, a.values[p])'
  <2>1. Fresh(p, a.values[p])
    BY <1>1, <1>3 DEF AnswerOK
  <2>2. QED
    BY <2>1
<1>4. a = answer' /\ w = waiting'
  BY <1>1
<1>5. \A i \in DOMAIN calls' : calls'[i].kind = "get" =>
         waiting'.kind \in {"lookup", "set"} /\ waiting'.prop = calls'[i].prop
  BY DEF AnswerOK
<1>6. QED
  BY <1>2, <1>3, <1>4, <1>5 DEF AnswerOK

LEMMA OtherClientCurrent ==
    ASSUME CallsOK, WireOK, AnswerOK, CacheOK, OtherClient
    PROVE  WireOK' /\ AnswerOK' /\ CacheOK'
<1>1. Tells /\ UNCHANGED <<system, calls, inbox, answer, dead, cache, properties, old_properties, waiting>>
  BY ServeTells DEF OtherClient, connVars, clientVars
<1>2. WireOK'
  BY <1>1, WireTells
<1>3. AnswerOK'
  <2>1. \A p \in Prop : \A item : Fresh(p, item) => Fresh(p, item)'
    BY <1>1, FreshTells
  <2>2. QED
    BY <1>1, <2>1, AnswerKept
<1>4. CacheOK'
  <2>1. ASSUME NEW p \in Prop, ItemOK(p) PROVE ItemOK(p)'
    <3>1. /\ ~HasSet(calls', p) => ~HasSet(calls, p)
          /\ \A i \in DOMAIN calls' : LastSet(calls', p, i) =>
                \E j \in DOMAIN calls : LastSet(calls, p, j) /\ calls[j] = calls'[i]
      BY <1>1
    <3>2. QED
      BY <1>1, <2>1, <3>1, ItemTells
  <2>2. QED
    BY <1>1, <2>1 DEF CacheOK
<1>5. QED
  BY <1>2, <1>3, <1>4

\* A set that is served has its value in the daemon before the reply is sent.
LEMMA ServeCurrent ==
    ASSUME CallsOK, WireOK, AnswerOK, CacheOK, Serve
    PROVE  WireOK' /\ AnswerOK' /\ CacheOK'
<1>1. /\ Tells /\ calls # <<>> /\ calls' = Tail(calls) /\ calls \in Seq(CallMessage)
      /\ UNCHANGED <<system, dead, cache, properties, old_properties, waiting>>
  BY ServeTells DEF Serve, clientVars, CallsOK, ConnOK
<1>2. PICK m \in CallMessage : m = Head(calls)
  BY <1>1, TailOf
<1>3. answer = None /\ inbox \in Seq(InboxMessage)
  BY <1>1 DEF CallsOK, PhaseOK, ConnOK
<1>4. \A p \in Prop :
         /\ \A i \in DOMAIN calls' : LastSet(calls', p, i) =>
               \E j \in DOMAIN calls : LastSet(calls, p, j) /\ calls[j] = calls'[i]
         /\ ~HasSet(calls', p) =>
               IF m \in SetCalls(p) THEN 1 \in DOMAIN calls /\ LastSet(calls, p, 1) /\ calls[1] = m
               ELSE ~HasSet(calls, p)
  BY <1>1, <1>2, SetsServed
<1>5. CASE m.kind # "set"
  <2>1. inbox' = inbox
    BY <1>2, <1>5, CallKinds DEF Serve, ServeGet, ServeGetAll, ServeReset
  <2>2. \A p \in Prop : m \notin SetCalls(p)
    BY <1>5, CallKinds
  <2>3. WireOK'
    BY <1>1, <2>1, WireTells
  <2>4. CacheOK'
    <3>1. ASSUME NEW p \in Prop, ItemOK(p) PROVE ItemOK(p)'
      BY <1>1, <1>4, <2>1, <2>2, <3>1, ItemTells
    <3>2. QED
      BY <1>1, <3>1 DEF CacheOK
  <2>5. AnswerOK'
    <3> DOMAIN calls' = {}
      <4>1. Len(calls) = 1
        <5>1. 1 \in DOMAIN calls /\ calls[1] = m
          BY <1>1, <1>2, TailOf
        <5>2. QED
          BY <1>5, <5>1 DEF CallsOK, PhaseOK
      <4>2. QED
        BY <1>1, <4>1, TailOf
    <3>1. CASE m.kind = "get"
      <4>1. ServeGet(m) /\ m.prop \in Prop
        BY <1>2, <3>1, CallKinds DEF Serve
      <4>2. waiting.kind \in {"lookup", "set"} /\ waiting.prop = m.prop
        BY <1>1, <1>2, <3>1, TailOf DEF AnswerOK
      <4>3. PICK p \in Prop : p = m.prop
        BY <4>1
      <4>4. Setting(p)' = Setting(p)
        BY <1>1, <4>1 DEF ServeGet, Setting
      <4>5. answer' = IF Setting(p) = Unset THEN [kind |-> "not found"]
                      ELSE [kind |-> "value", value |-> Setting(p)]
        BY <4>1, <4>3 DEF ServeGet
      <4>6. answer'.kind \in {"not found", "value"} /\ (answer'.kind = "value" => answer'.value = Setting(p)')
        BY <4>4, <4>5
      <4>7. answer'.kind = "value" => Fresh(waiting.prop, answer.value)'
        BY <1>1, <4>2, <4>3, <4>6 DEF Fresh
      <4>8. QED
        BY <1>1, <4>2, <4>6, <4>7 DEF AnswerOK
    <3>2. CASE m.kind = "get all"
      <4>1. ServeGetAll(m)
        BY <1>2, <3>2 DEF Serve
      <4>2. answer'.kind = "values" /\ \A p \in Prop : answer'.values[p] = Setting(p)
        BY <4>1 DEF ServeGetAll, Settings
      <4>3. \A p \in Prop : Setting(p)' = Setting(p)
        BY <1>1, <4>1 DEF ServeGetAll, Setting
      <4>4. QED
        BY <4>2, <4>3 DEF AnswerOK, Fresh
    <3>3. CASE m.kind = "reset"
      <4>1. ServeReset(m)
        BY <1>2, <3>3 DEF Serve
      <4>2. QED
        BY <4>1 DEF ServeReset, AnswerOK
    <3>4. QED
      BY <1>5, <3>1, <3>2, <3>3, CallKinds
  <2>6. QED
    BY <2>3, <2>4, <2>5
<1>6. CASE m.kind = "set"
  <2>1. PICK q \in Prop, v \in Val : m \in SetCalls(q) /\ m.prop = q /\ m.value = v
    BY <1>6, CallKinds
  <2>2. ServeSet(m)
    BY <1>2, <1>6 DEF Serve
  <2>3. PICK r \in InboxMessage : /\ inbox' = Append(inbox, r) /\ r.kind = "reply"
                                  /\ r.ok = (q \notin system.locked) /\ r \in Replies(q)
    <3>1. DoSet(q, v).ok = (q \notin system.locked) /\ DoSet(q, v).ok \in BOOLEAN
      BY RequestTypes DEF CallsOK
    <3>2. inbox' = Append(inbox, Reply(q, DoSet(q, v).ok))
      BY <2>1, <2>2 DEF ServeSet, Post
    <3>3. PICK r : r = Reply(q, DoSet(q, v).ok)
      OBVIOUS
    <3>4. r \in Replies(q) /\ r.kind = "reply" /\ r.ok = DoSet(q, v).ok
      BY <3>1, <3>3 DEF Reply, Replies
    <3>5. r \in InboxMessage
      BY <3>4 DEF InboxMessage
    <3>6. QED
      BY <3>1, <3>2, <3>3, <3>4, <3>5
  <2>4. r.prop = q /\ \A p \in Prop : r \in Replies(p) <=> p = q
    BY <2>3, InboxKinds
  <2>5. q \notin system.locked => Setting(q)' = v
    BY <1>1, <2>1, <2>2, SetTells DEF ServeSet, CallsOK
  <2>6. WireOK'
    BY <1>1, <2>3, <2>4, WireTells
  <2>7. AnswerOK'
    <3>1. \A i \in DOMAIN calls' : \E j \in DOMAIN calls : calls'[i] = calls[j]
      <4>1. /\ Len(calls) \in Nat /\ DOMAIN calls = 1..Len(calls) /\ DOMAIN calls' = 1..(Len(calls) - 1)
            /\ \A i \in 1..(Len(calls) - 1) : calls'[i] = calls[i + 1]
        BY <1>1, TailOf
      <4>2. \A i \in 1..(Len(calls) - 1) : i + 1 \in 1..Len(calls)
        BY <4>1
      <4>3. QED
        BY <4>1, <4>2
    <3>2. \A i \in DOMAIN calls' : calls'[i].kind = "get" =>
             waiting.kind \in {"lookup", "set"} /\ waiting.prop = calls'[i].prop
      BY <3>1 DEF AnswerOK
    <3>3. QED
      BY <1>1, <1>3, <2>2, <3>2 DEF ServeSet, AnswerOK, None
  <2>8. old_properties[q] # NoCall
    <3>1. /\ Pending(Tail(calls), inbox, q) \in Nat
          /\ Pending(calls, inbox, q)
               = Pending(Tail(calls), inbox, q) + IF m \in SetCalls(q) THEN 1 ELSE 0
      BY <1>1, <1>2, <1>3, PendingServed
    <3>2. Pending(calls, inbox, q) = dead[q] + IF old_properties[q] = NoCall THEN 0 ELSE 1
      BY DEF CallsOK, Paired
    <3>3. old_properties[q] = NoCall => dead[q] = 0
      BY DEF CacheOK
    <3>4. QED
      BY <2>1, <3>1, <3>2, <3>3
  <2>9. ASSUME NEW p \in Prop, ItemOK(p) PROVE ItemOK(p)'
    <3>1. CASE p # q
      <4>1. m \notin SetCalls(p) /\ r \notin Replies(p)
        BY <1>6, <2>1, <2>4, <3>1, CallKinds
      <4>2. \E x \in InboxMessage : inbox' = Append(inbox, x) /\ x \notin Replies(p)
        BY <2>3, <4>1
      <4>3. /\ ~HasSet(calls', p) => ~HasSet(calls, p)
            /\ \A i \in DOMAIN calls' : LastSet(calls', p, i) =>
                  \E j \in DOMAIN calls : LastSet(calls, p, j) /\ calls[j] = calls'[i]
        BY <1>4, <4>1
      <4>4. QED
        BY <1>1, <2>9, <4>2, <4>3, ItemTells
    <3>2. CASE p = q /\ p \in system.locked
      <4>1. Setting(p)' = Setting(p)
        BY <1>1, <3>2, LockedStays DEF WireOK
      <4>2. QED
        BY <1>1, <2>8, <2>9, <3>2, <4>1 DEF ItemOK
    <3>3. CASE p = q /\ p \notin system.locked
      <4>1. SetShows(q)
        BY <2>8, <2>9, <3>3 DEF ItemOK
      <4>2. ASSUME ~HasSet(calls', q) PROVE Fresh(q, properties[q])'
        <5>1. properties[q] \in {NotCached, v}
          BY <1>4, <2>1, <4>1, <4>2 DEF SetShows
        <5>2. QED
          BY <1>1, <2>5, <3>3, <5>1 DEF Fresh
      <4>3. \A i \in DOMAIN calls' : LastSet(calls', q, i) => properties'[q] \in {NotCached, calls'[i].value}
        BY <1>1, <1>4, <4>1 DEF SetShows
      <4>4. SetShows(q)'
        BY <4>2, <4>3 DEF SetShows
      <4>5. QED
        BY <1>1, <2>8, <3>3, <4>4 DEF ItemOK
    <3>4. QED
      BY <3>1, <3>2, <3>3
  <2>10. CacheOK'
    BY <1>1, <2>9 DEF CacheOK
  <2>11. QED
    BY <2>6, <2>7, <2>10
<1>7. QED
  BY <1>5, <1>6

\* A signal goes behind everything that was sent before.
LEMMA EmitCurrent ==
    ASSUME CallsOK, WireOK, AnswerOK, CacheOK, EmitIdled
    PROVE  WireOK' /\ AnswerOK' /\ CacheOK'
<1>1. UNCHANGED <<system, user, calls, answer, dead, cache, properties, old_properties, waiting>>
  BY DEF EmitIdled, clientVars
<1>2. /\ queue \in Seq(Prop) /\ queue # <<>> /\ queue' = Tail(queue)
      /\ inbox \in Seq(InboxMessage) /\ calls \in Seq(CallMessage)
  BY DEF EmitIdled, CallsOK, TypeOK, ConnOK
<1>3. /\ Len(queue) \in Nat \ {0} /\ DOMAIN queue = 1..Len(queue) /\ Head(queue) = queue[1]
      /\ DOMAIN queue' = 1..(Len(queue) - 1)
      /\ \A i \in 1..(Len(queue) - 1) : queue'[i] = queue[i + 1]
  BY <1>2, TailOf
<1>4. PICK h \in Prop : h = Head(queue)
  BY <1>2, TailOf
<1>5. /\ \A i \in DOMAIN queue : queue[i] = h \/ \E j \in DOMAIN queue' : queue'[j] = queue[i]
      /\ \A i \in DOMAIN queue' : \E j \in DOMAIN queue : queue'[i] = queue[j]
  <2>1. \A i \in DOMAIN queue : i # 1 => i - 1 \in DOMAIN queue' /\ queue'[i - 1] = queue[i]
    BY <1>3
  <2>2. \A i \in DOMAIN queue' : i + 1 \in DOMAIN queue /\ queue'[i] = queue[i + 1]
    BY <1>3
  <2>3. QED
    BY <1>3, <1>4, <2>1, <2>2
<1>6. h \notin system.locked
  BY <1>3, <1>4 DEF WireOK
<1>7. \A p \in Prop : Setting(p)' = Setting(p)
  BY <1>1 DEF Setting
<1>8. Setting(h) = Unset \/ Setting(h) \in Val
  BY CacheAssumption DEF Setting, CallsOK, TypeOK
<1>9. PICK s \in Signals(h) : inbox' = Append(inbox, s) /\ (s.kind = "changed" => s.value = Setting(h))
  BY <1>4, <1>8 DEF EmitIdled, SendSignal, Post, Signals, PropertyRemoved, PropertyChanged
<1>10. /\ s \in InboxMessage /\ s.kind # "reply" /\ s.prop = h
       /\ \A p \in Prop : s \notin Replies(p)
  BY <1>9 DEF Signals, InboxMessage, Replies
<1>11. /\ Len(inbox) \in Nat /\ DOMAIN inbox = 1..Len(inbox) /\ DOMAIN inbox' = 1..(Len(inbox) + 1)
       /\ inbox'[Len(inbox) + 1] = s
       /\ \A i \in 1..Len(inbox) : inbox'[i] = inbox[i]
  BY <1>2, <1>9, <1>10, AppendProperties, LenProperties
<1>12. ASSUME NEW p \in Prop, Behind(queue, inbox, p)
       PROVE  Behind(queue', inbox', p)
  <2>1. CASE p = h
    BY <1>2, <1>9, <1>10, <2>1, BehindPost
  <2>2. CASE p # h
    <3>1. Behind(queue, inbox', p)
      BY <1>2, <1>9, <1>10, <1>12, BehindPost
    <3>2. QED
      BY <1>5, <2>2, <3>1 DEF Behind
  <2>3. QED
    BY <2>1, <2>2
<1>13. \A p \in Prop : \A item : Fresh(p, item) => Fresh(p, item)'
  BY <1>7, <1>12 DEF Fresh
<1>14. AnswerOK'
  BY <1>1, <1>13, AnswerKept
<1>15. ASSUME NEW p \in Prop, ItemOK(p) PROVE ItemOK(p)'
  <2>1. Fresh(p, properties[p]) => Fresh(p, properties[p])'
    <3>1. PICK item : item = properties[p]
      OBVIOUS
    <3>2. item = properties'[p]
      BY <1>1, <3>1
    <3>3. Fresh(p, item) => Fresh(p, item)'
      BY <1>13
    <3>4. QED
      BY <3>1, <3>2, <3>3
  <2>2. SetShows(p) => SetShows(p)'
    BY <1>1, <2>1 DEF SetShows
  <2>3. QED
    BY <1>1, <1>7, <1>15, <2>1, <2>2 DEF ItemOK
<1>16. CacheOK'
  BY <1>1, <1>15 DEF CacheOK
<1>17. WireOK'
  <2>1. LockedAlone' /\ \A i \in DOMAIN queue' : queue'[i] \notin system'.locked
    BY <1>1, <1>5 DEF WireOK, LockedAlone
  <2>2. ASSUME NEW i \in 1..Len(inbox) PROVE Arrived(i)'
    <3>1. PICK m \in InboxMessage : m = inbox[i] /\ m = inbox'[i]
      BY <1>2, <1>11, ElementOfSeq
    <3>2. Arrived(i) /\ m.prop \in Prop
      BY <1>11, InboxKinds DEF WireOK
    <3>3. ASSUME m.kind = "changed"
          PROVE  \/ m.value = Setting(m.prop)'
                 \/ \E j \in DOMAIN queue' : queue'[j] = m.prop
                 \/ \E j \in DOMAIN inbox' : j > i /\ inbox'[j] \in Signals(m.prop)
      <4>1. \/ m.value = Setting(m.prop)
            \/ \E j \in DOMAIN queue : queue[j] = m.prop
            \/ \E j \in DOMAIN inbox : j > i /\ inbox[j] \in Signals(m.prop)
        BY <3>1, <3>2, <3>3 DEF Arrived
      <4>2. CASE m.value = Setting(m.prop)
        BY <1>7, <3>2, <4>2
      <4>3. CASE \E j \in DOMAIN queue : queue[j] = m.prop
        <5>1. m.prop = h \/ \E j \in DOMAIN queue' : queue'[j] = m.prop
          BY <1>5, <4>3
        <5>2. Len(inbox) + 1 \in DOMAIN inbox' /\ Len(inbox) + 1 > i
              /\ inbox'[Len(inbox) + 1] \in Signals(h)
          BY <1>9, <1>11
        <5>3. QED
          BY <5>1, <5>2
      <4>4. CASE \E j \in DOMAIN inbox : j > i /\ inbox[j] \in Signals(m.prop)
        <5>1. \A j \in DOMAIN inbox : j \in DOMAIN inbox' /\ inbox'[j] = inbox[j]
          BY <1>11
        <5>2. QED
          BY <4>4, <5>1
      <4>5. QED
        BY <4>1, <4>2, <4>3, <4>4
    <3>4. QED
      BY <1>1, <3>1, <3>2, <3>3 DEF Arrived
  <2>3. ASSUME NEW n, n = Len(inbox) + 1 PROVE Arrived(n)'
    <3>1. inbox'[n] = s /\ (s.kind = "changed" => s.value = Setting(s.prop)')
      BY <1>7, <1>9, <1>10, <1>11, <2>3
    <3>2. s.prop \notin system'.locked /\ s.kind # "reply"
      BY <1>1, <1>6, <1>10
    <3>3. QED
      BY <3>1, <3>2 DEF Arrived
  <2>4. \A i \in DOMAIN inbox' : Arrived(i)'
    <3>1. ASSUME NEW i \in DOMAIN inbox' PROVE Arrived(i)'
      <4>1. i \in 1..Len(inbox) \/ i = Len(inbox) + 1
        BY <1>11
      <4>2. CASE i \in 1..Len(inbox)
        BY <2>2, <4>2
      <4>3. CASE i = Len(inbox) + 1
        BY <2>3, <4>3
      <4>4. QED
        BY <4>1, <4>2, <4>3
    <3>2. QED
      BY <3>1
  <2>5. QED
    BY <2>1, <2>4 DEF WireOK
<1>18. QED
  BY <1>14, <1>16, <1>17

\* Steps of the client that take nothing from the connection.
LEMMA QuietWire ==
    ASSUME UNCHANGED <<daemonVars, inbox>>
    PROVE  /\ WireOK => WireOK'
           /\ \A p \in Prop : Setting(p)' = Setting(p)
           /\ \A p \in Prop : \A item : Fresh(p, item) => Fresh(p, item)'
<1>1. UNCHANGED <<system, user, queue, inbox>>
  BY DEF daemonVars
<1>2. \A p : Setting(p)' = Setting(p)
  BY <1>1 DEF Setting
<1>3. \A i : Arrived(i) => Arrived(i)'
  BY <1>1, <1>2 DEF Arrived
<1>4. WireOK => WireOK'
  BY <1>1, <1>3 DEF WireOK, LockedAlone
<1>5. \A p \in Prop : \A item : Fresh(p, item) => Fresh(p, item)'
  BY <1>1, <1>2 DEF Fresh
<1>6. QED
  BY <1>2, <1>4, <1>5

\* The shown item of a property that a step of the client leaves alone.
LEMMA ItemKept ==
    ASSUME CallsOK, UNCHANGED <<daemonVars, inbox>>, NEW p \in Prop,
           properties'[p] = properties[p], old_properties'[p] = old_properties[p],
           ~HasSet(calls', p) => ~HasSet(calls, p),
           \A i \in DOMAIN calls' : LastSet(calls', p, i) =>
              \E j \in DOMAIN calls : LastSet(calls, p, j) /\ calls[j] = calls'[i],
           ItemOK(p)
    PROVE  ItemOK(p)'
<1>1. /\ system' = system /\ Setting(p)' = Setting(p)
      /\ \A item : Fresh(p, item) => Fresh(p, item)'
  BY QuietWire DEF daemonVars
<1>2. Fresh(p, properties[p]) => Fresh(p, properties[p])'
  <2>1. PICK item : item = properties[p]
    OBVIOUS
  <2>2. item = properties'[p]
    BY <2>1
  <2>3. Fresh(p, item) => Fresh(p, item)'
    BY <1>1
  <2>4. QED
    BY <2>1, <2>2, <2>3
<1>3. SetShows(p) => SetShows(p)'
  BY <1>2 DEF SetShows
<1>4. QED
  BY <1>1, <1>2, <1>3 DEF ItemOK

\* A blocking call is sent.
LEMMA BlockCurrent ==
    ASSUME CallsOK, WireOK, AnswerOK, CacheOK, cache \in {"closed", "open"}, waiting = None,
           NEW op \in Operation, NEW m \in Blocking, Block(op, m),
           m.kind = "get" => op.kind \in {"lookup", "set"} /\ op.prop = m.prop,
           cache' = IF cache = "closed" THEN "opening" ELSE cache,
           UNCHANGED <<properties, listeners>>
    PROVE  WireOK' /\ AnswerOK' /\ CacheOK'
<1>1. /\ UNCHANGED <<daemonVars, inbox, answer, dead, old_properties, properties>>
      /\ calls' = Append(calls, m) /\ waiting' = op
  BY DEF Block, Call
<1>2. WireOK'
  BY <1>1, QuietWire
<1>3. m \in CallMessage /\ \A p \in Prop : m \notin SetCalls(p)
  BY DEF CallMessage, Blocking, SetCalls
<1>4. calls \in Seq(CallMessage)
  BY DEF CallsOK, ConnOK
<1>5. answer = None /\ \A i \in DOMAIN calls : calls[i].kind = "set"
  BY OnlySets
<1>6. AnswerOK'
  <2>1. /\ Len(calls) \in Nat /\ DOMAIN calls = 1..Len(calls) /\ DOMAIN calls' = 1..(Len(calls) + 1)
        /\ calls'[Len(calls) + 1] = m /\ \A i \in 1..Len(calls) : calls'[i] = calls[i]
    BY <1>1, <1>3, <1>4, AppendProperties, LenProperties
  <2>2. \A i \in DOMAIN calls' : calls'[i].kind = "set" \/ calls'[i] = m
    BY <1>5, <2>1
  <2>3. \A i \in DOMAIN calls' : calls'[i].kind = "get" =>
           waiting'.kind \in {"lookup", "set"} /\ waiting'.prop = calls'[i].prop
    BY <1>1, <2>2
  <2>4. QED
    BY <1>1, <1>5, <2>3 DEF AnswerOK, None
<1>7. ASSUME NEW p \in Prop, ItemOK(p) PROVE ItemOK(p)'
  <2>1. /\ ~HasSet(calls', p) => ~HasSet(calls, p)
        /\ \A i \in DOMAIN calls' : LastSet(calls', p, i) =>
              \E j \in DOMAIN calls : LastSet(calls, p, j) /\ calls[j] = calls'[i]
    BY <1>1, <1>3, <1>4, SetsAdded
  <2>2. QED
    BY <1>1, <1>7, <2>1, ItemKept
<1>8. CacheOK'
  BY <1>1, <1>7 DEF CacheOK
<1>9. QED
  BY <1>2, <1>6, <1>8

LEMMA AskCurrent ==
    ASSUME CallsOK, WireOK, AnswerOK, CacheOK,
           Open \/ \E p \in Prop : \/ Lookup(p) \/ \E v \in Val : SetUncached(p, v)
                                   \/ \E recursive \in BOOLEAN : Reset(p, recursive)
    PROVE  WireOK' /\ AnswerOK' /\ CacheOK'
<1>1. CASE Open
  <2> DEFINE op == [kind |-> "prefetch"]
             m == [kind |-> "get all"]
  <2>1. op \in Operation /\ m \in Blocking /\ m.kind = "get all"
    BY DEF Operation, Blocking
  <2>2. waiting = None
    BY <1>1 DEF Open, CallsOK, PhaseOK
  <2>3. cache = "closed" /\ cache' = "opening" /\ Block(op, m) /\ UNCHANGED <<properties, listeners>>
    BY <1>1 DEF Open
  <2> HIDE DEF op, m
  <2>4. QED
    BY <2>1, <2>2, <2>3, BlockCurrent
<1>2. ASSUME NEW op \in Operation, NEW m \in Blocking, Block(op, m), Idle,
             m.kind = "get" => op.kind \in {"lookup", "set"} /\ op.prop = m.prop,
             UNCHANGED <<cache, properties, listeners>>
      PROVE  WireOK' /\ AnswerOK' /\ CacheOK'
  BY <1>2, BlockCurrent DEF Idle
<1>3. ASSUME NEW p \in Prop, Lookup(p) PROVE WireOK' /\ AnswerOK' /\ CacheOK'
  <2> DEFINE op == [kind |-> "lookup", prop |-> p]
             m == [kind |-> "get", prop |-> p]
  <2>1. op \in Operation /\ m \in Blocking /\ op.kind = "lookup" /\ op.prop = m.prop
    BY DEF Operation, Blocking
  <2>2. Block(op, m) /\ Idle /\ UNCHANGED <<cache, properties, listeners>>
    BY <1>3 DEF Lookup
  <2> HIDE DEF op, m
  <2>3. QED
    BY <1>2, <2>1, <2>2
<1>4. ASSUME NEW p \in Prop, NEW v \in Val, SetUncached(p, v) PROVE WireOK' /\ AnswerOK' /\ CacheOK'
  <2> DEFINE op == [kind |-> "set", prop |-> p, value |-> v]
             m == [kind |-> "get", prop |-> p]
  <2>1. op \in Operation /\ m \in Blocking /\ op.kind = "set" /\ op.prop = m.prop
    BY DEF Operation, Blocking
  <2>2. Block(op, m) /\ Idle /\ UNCHANGED <<cache, properties, listeners>>
    BY <1>4 DEF SetUncached
  <2> HIDE DEF op, m
  <2>3. QED
    BY <1>2, <2>1, <2>2
<1>5. ASSUME NEW p \in Prop, NEW recursive \in BOOLEAN, Reset(p, recursive)
      PROVE  WireOK' /\ AnswerOK' /\ CacheOK'
  <2> DEFINE op == [kind |-> "reset", prop |-> p, recursive |-> recursive]
  <2>1. op \in Operation /\ op \in Blocking /\ op.kind = "reset"
    BY DEF Operation, Blocking
  <2>2. Block(op, op) /\ Idle /\ UNCHANGED <<cache, properties, listeners>>
    BY <1>5 DEF Reset
  <2> HIDE DEF op
  <2>3. QED
    BY <1>2, <2>1, <2>2
<1>6. QED
  BY <1>1, <1>3, <1>4, <1>5

\* No signal of a locked property is ever under way.
LEMMA LockedNotBehind ==
    ASSUME WireOK, NEW p \in Prop, p \in system.locked
    PROVE  ~Behind(queue, inbox, p)
<1>1. \A i \in DOMAIN inbox : inbox[i] \notin Signals(p)
  <2>1. SUFFICES ASSUME NEW i \in DOMAIN inbox, inbox[i] \in Signals(p) PROVE FALSE
    OBVIOUS
  <2>2. PICK m : m = inbox[i]
    OBVIOUS
  <2>3. m.kind # "reply" /\ m.prop = p
    BY <2>1, <2>2 DEF Signals
  <2>4. Arrived(i)
    BY DEF WireOK
  <2>5. QED
    BY <2>2, <2>3, <2>4 DEF Arrived
<1>2. \A i \in DOMAIN queue : queue[i] # p
  BY DEF WireOK
<1>3. QED
  BY <1>1, <1>2 DEF Behind

\* The second half of a set.  The item is what the cache shows, or the daemon's
\* answer, which came when no call was under way any more.
LEMMA PutCurrent ==
    ASSUME CallsOK, WireOK, CacheOK, cache = "open", NEW p \in Prop, NEW v \in Val, NEW item \in Item,
           PutValue(p, v, item), answer' = None, UNCHANGED <<daemonVars, inbox, cache>>,
           \A i \in DOMAIN calls : calls[i].kind = "set",
           item = properties[p] \/ (Fresh(p, item) /\ calls = <<>>)
    PROVE  WireOK' /\ AnswerOK' /\ CacheOK'
<1>1. /\ properties \in [Prop -> Item] /\ calls \in Seq(CallMessage)
      /\ old_properties \in [Prop -> [item : Item] \cup {NoCall}] /\ dead \in [Prop -> 0..MaxDead]
  BY DEF CallsOK, TypeOK, ConnOK
<1>2. WireOK' /\ (\A q \in Prop : Setting(q)' = Setting(q)) /\ system' = system
      /\ \A q \in Prop : \A x : Fresh(q, x) => Fresh(q, x)'
  BY QuietWire DEF daemonVars
<1>3. \A q \in Prop : ItemOK(q)
  BY DEF CacheOK
<1>4. CASE item = v
  <2>1. properties' = [properties EXCEPT ![p] = item] /\ UNCHANGED <<old_properties, dead, calls>>
    BY <1>4 DEF PutValue
  <2>2. ASSUME NEW q \in Prop PROVE ItemOK(q)'
    <3>1. CASE properties'[q] = properties[q]
      <4>1. /\ ~HasSet(calls', q) => ~HasSet(calls, q)
            /\ \A i \in DOMAIN calls' : LastSet(calls', q, i) =>
                  \E j \in DOMAIN calls : LastSet(calls, q, j) /\ calls[j] = calls'[i]
        BY <2>1
      <4>2. QED
        BY <1>3, <2>1, <3>1, <4>1, ItemKept
    <3>2. CASE properties'[q] # properties[q]
      <4>1. q = p /\ properties'[q] = item /\ item # properties[p]
        BY <1>1, <2>1, <3>2
      <4>2. Fresh(q, item) /\ calls = <<>>
        BY <4>1
      <4>3. Fresh(q, item)'
        BY <1>2, <4>2
      <4>4. Fresh(q, properties[q])'
        BY <4>1, <4>3
      <4>5. SetShows(q)'
        BY <2>1, <4>2, <4>4 DEF SetShows
      <4>6. QED
        BY <1>2, <1>3, <2>1, <4>4, <4>5 DEF ItemOK
    <3>3. QED
      BY <3>1, <3>2
  <2>3. CacheOK'
    BY <2>1, <2>2 DEF CacheOK
  <2>4. AnswerOK'
    BY <2>1 DEF AnswerOK, None
  <2>5. QED
    BY <1>2, <2>3, <2>4
<1>5. CASE item # v
  <2>1. PICK m \in CallMessage : /\ calls' = Append(calls, m) /\ m.kind = "set" /\ m.value = v
                                 /\ m \in SetCalls(p) /\ \A q \in Prop : q # p => m \notin SetCalls(q)
    <3>1. PICK m : m = SetCall(p, v)
      OBVIOUS
    <3>2. m \in SetCalls(p) /\ m.kind = "set" /\ m.value = v /\ m.prop = p
      BY <3>1 DEF SetCall, SetCalls
    <3>3. m \in CallMessage
      BY <3>2 DEF CallMessage
    <3>4. \A q \in Prop : q # p => m \notin SetCalls(q)
      BY <3>2, <3>3, CallKinds
    <3>5. QED
      BY <1>5, <3>1, <3>2, <3>3, <3>4 DEF PutValue, Call
  <2>2. CancelEarlier(p) /\ Remember(p, item) /\ properties' = [properties EXCEPT ![p] = v]
    BY <1>5 DEF PutValue
  <2>3. /\ old_properties'[p] # NoCall
        /\ old_properties'[p] = (IF old_properties[p] # NoCall THEN old_properties[p] ELSE [item |-> item])
        /\ \A q \in Prop \ {p} : old_properties'[q] = old_properties[q]
    <3>1. NoCall # [item |-> item]
      BY CacheAssumption DEF Item
    <3>2. QED
      BY <1>1, <2>2, <3>1 DEF Remember
  <2>4. \A q \in Prop \ {p} : dead'[q] = dead[q] /\ properties'[q] = properties[q]
    BY <1>1, <2>2 DEF CancelEarlier
  <2>5. properties'[p] = v
    BY <1>1, <2>2
  <2>6. ASSUME NEW q \in Prop, q # p PROVE ItemOK(q)'
    <3>1. m \notin SetCalls(q)
      BY <2>1, <2>6
    <3>2. /\ ~HasSet(calls', q) => ~HasSet(calls, q)
          /\ \A i \in DOMAIN calls' : LastSet(calls', q, i) =>
                \E j \in DOMAIN calls : LastSet(calls, q, j) /\ calls[j] = calls'[i]
      BY <1>1, <2>1, <3>1, SetsAdded
    <3>3. QED
      BY <1>3, <2>3, <2>4, <2>6, <3>2, ItemKept
  <2>7. CASE p \in system.locked
    <3>1. old_properties'[p].item \in {NotCached, Setting(p)}
      <4>1. CASE old_properties[p] # NoCall
        BY <1>3, <2>3, <2>7, <4>1 DEF ItemOK
      <4>2. CASE old_properties[p] = NoCall
        <5>1. Fresh(p, properties[p])
          BY <1>3, <4>2 DEF ItemOK
        <5>2. Fresh(p, item)
          BY <5>1
        <5>3. item \in {NotCached, Setting(p)}
          BY <2>7, <5>2, LockedNotBehind DEF Fresh
        <5>4. QED
          BY <2>3, <4>2, <5>3
      <4>3. QED
        BY <4>1, <4>2
    <3>2. ItemOK(p)'
      BY <1>2, <2>3, <2>7, <3>1 DEF ItemOK
    <3>3. QED
      BY <1>2, <2>1, <2>3, <2>4, <2>6, <3>2 DEF CacheOK, AnswerOK, None
  <2>8. CASE p \notin system.locked
    <3>1. HasSet(calls', p) /\ \A i \in DOMAIN calls' : LastSet(calls', p, i) => calls'[i] = m
      BY <1>1, <2>1, SetsAdded
    <3>2. SetShows(p)'
      BY <2>1, <2>5, <3>1 DEF SetShows
    <3>3. ItemOK(p)'
      BY <1>2, <2>3, <2>8, <3>2 DEF ItemOK
    <3>4. QED
      BY <1>2, <2>1, <2>3, <2>4, <2>6, <3>3 DEF CacheOK, AnswerOK, None
  <2>9. QED
    BY <2>7, <2>8
<1>6. QED
  BY <1>4, <1>5

LEMMA SetCachedCurrent ==
    ASSUME CallsOK, WireOK, CacheOK, NEW p \in Prop, NEW v \in Val, SetCached(p, v)
    PROVE  WireOK' /\ AnswerOK' /\ CacheOK'
<1>1. /\ waiting = None /\ answer = None /\ cache = "open" /\ properties[p] \in Item
      /\ \A i \in DOMAIN calls : calls[i].kind = "set"
  BY OnlySets DEF SetCached, Idle, CallsOK, TypeOK
<1>2. PutValue(p, v, properties[p]) /\ answer' = None /\ UNCHANGED <<daemonVars, inbox, cache>>
  BY <1>1 DEF SetCached
<1>3. QED
  BY <1>1, <1>2, PutCurrent

\* An answer overtook replies and signals, and the signals will be handled later.
LEMMA ResumeCurrent ==
    ASSUME CallsOK, WireOK, AnswerOK, CacheOK, Resume
    PROVE  WireOK' /\ AnswerOK' /\ CacheOK'
<1>1. /\ answer # None /\ answer' = None /\ waiting' = None /\ calls = <<>>
      /\ UNCHANGED <<daemonVars, inbox>> /\ waiting # None
      /\ cache = (IF waiting.kind = "prefetch" THEN "opening" ELSE "open")
  BY DEF Resume, CallsOK, PhaseOK
<1>2. /\ answer \in Answer /\ waiting \in Operation /\ properties \in [Prop -> Item]
  BY DEF CallsOK, ConnOK, TypeOK
<1>3. waiting.kind \in {"prefetch", "lookup", "set", "reset"}
  BY <1>1, <1>2 DEF Operation, None
<1>4. \A p \in Prop : \A x : Fresh(p, x) => Fresh(p, x)'
  BY <1>1, QuietWire
<1>5. WireOK'
  BY <1>1, QuietWire
\* of all but a set: items are left alone or are fresh
<1>6. ASSUME cache' = "open", UNCHANGED <<old_properties, dead, calls>>,
             \A p \in Prop : \/ cache = "open" /\ properties'[p] = properties[p]
                             \/ Fresh(p, properties[p])'
      PROVE  WireOK' /\ AnswerOK' /\ CacheOK'
  <2>1. AnswerOK'
    <3>1. DOMAIN calls' = {}
      BY <1>1, <1>6
    <3>2. QED
      BY <1>1, <3>1 DEF AnswerOK, None
  <2>2. ASSUME NEW p \in Prop PROVE ItemOK(p)'
    <3>1. CASE cache = "open" /\ properties'[p] = properties[p]
      <4>1. ItemOK(p)
        BY <3>1 DEF CacheOK
      <4>2. /\ ~HasSet(calls', p) => ~HasSet(calls, p)
            /\ \A i \in DOMAIN calls' : LastSet(calls', p, i) =>
                  \E j \in DOMAIN calls : LastSet(calls, p, j) /\ calls[j] = calls'[i]
        BY <1>6
      <4>3. QED
        BY <1>1, <1>6, <3>1, <4>1, <4>2, ItemKept
    <3>2. CASE ~(cache = "open" /\ properties'[p] = properties[p])
      <4>1. Fresh(p, properties[p])'
        BY <1>6, <3>2
      <4>2. SetShows(p)'
        <5>1. DOMAIN calls' = {}
          BY <1>1, <1>6
        <5>2. QED
          BY <4>1, <5>1 DEF SetShows
      <4>3. old_properties[p] # NoCall /\ p \in system.locked =>
               old_properties[p].item \in {NotCached, Setting(p)}
        BY <1>1, <1>3 DEF CacheOK, ItemOK, CallsOK, PhaseOK
      <4>4. system' = system /\ Setting(p)' = Setting(p)
        BY <1>1, QuietWire DEF daemonVars
      <4>5. QED
        BY <1>6, <4>1, <4>2, <4>3, <4>4 DEF ItemOK
    <3>3. QED
      BY <3>1, <3>2
  <2>3. CacheOK'
    BY <1>6, <2>2 DEF CacheOK
  <2>4. QED
    BY <1>5, <2>1, <2>3
<1>7. CASE waiting.kind = "prefetch"
  <2>1. ResumePrefetch
    BY <1>7 DEF Resume
  <2>2. \A p \in Prop : properties[p] = NotCached
    BY <1>1, <1>7 DEF CacheOK
  <2>3. ASSUME NEW p \in Prop PROVE Fresh(p, properties[p])'
    <3>1. CASE properties'[p] = NotCached
      BY <3>1 DEF Fresh
    <3>2. CASE properties'[p] # NotCached
      <4>1. PICK x : x = properties'[p]
        OBVIOUS
      <4>2. answer.kind = "values" /\ answer.values[p] # Unset /\ x = answer.values[p]
        BY <2>1, <2>2, <3>2, <4>1 DEF ResumePrefetch
      <4>3. Fresh(p, x)
        BY <4>2 DEF AnswerOK
      <4>4. Fresh(p, x)'
        BY <1>4, <4>3
      <4>5. QED
        BY <4>1, <4>4 DEF Fresh
    <3>3. QED
      BY <3>1, <3>2
  <2>4. QED
    BY <1>6, <2>1, <2>3 DEF ResumePrefetch
<1>8. CASE waiting.kind = "lookup"
  <2>1. PICK q \in Prop : q = waiting.prop /\ ResumeLookup(q)
    BY <1>2, <1>8 DEF Resume, Operation
  <2>2. cache = "open" /\ cache' = "open" /\ UNCHANGED <<old_properties, dead, calls>>
    BY <1>1, <1>8, <2>1 DEF ResumeLookup
  <2>3. ASSUME NEW p \in Prop, properties'[p] # properties[p] PROVE Fresh(p, properties[p])'
    <3>1. PICK x : x = properties'[p]
      OBVIOUS
    <3>2. answer.kind = "value" /\ p = q /\ x = answer.value
      BY <1>2, <2>1, <2>3, <3>1 DEF ResumeLookup
    <3>3. Fresh(p, x)
      BY <2>1, <3>2 DEF AnswerOK
    <3>4. Fresh(p, x)'
      BY <1>4, <3>3
    <3>5. QED
      BY <3>1, <3>4 DEF Fresh
  <2>4. QED
    BY <1>6, <2>2, <2>3
<1>9. CASE waiting.kind = "reset"
  <2>1. PICK q \in Prop, recursive \in BOOLEAN : ResumeReset(q, recursive)
    BY <1>2, <1>9 DEF Resume, Operation
  <2>2. cache = "open" /\ cache' = "open" /\ UNCHANGED <<old_properties, dead, calls>>
    BY <1>1, <1>9, <2>1 DEF ResumeReset
  <2>3. ASSUME NEW p \in Prop, properties'[p] # properties[p] PROVE Fresh(p, properties[p])'
    <3>1. properties'[p] = NotCached
      BY <1>2, <2>1, <2>3 DEF ResumeReset, Evict
    <3>2. QED
      BY <3>1 DEF Fresh
  <2>4. QED
    BY <1>6, <2>2, <2>3
<1>10. CASE waiting.kind = "set"
  <2>1. PICK p \in Prop, v \in Val : p = waiting.prop /\ ResumeSet(p, v)
    BY <1>2, <1>10 DEF Resume, Operation
  <2>2. cache = "open" /\ cache' = "open"
    BY <1>1, <1>10, <2>1 DEF ResumeSet
  <2>3. CASE answer.kind = "bus error"
    BY <1>6, <2>1, <2>2, <2>3 DEF ResumeSet
  <2>4. CASE answer.kind # "bus error"
    <3>1. PICK item \in Item : item = IF answer.kind = "value" THEN answer.value ELSE NotCached
      BY <1>2 DEF Answer, Item
    <3>2. PutValue(p, v, item)
      BY <2>1, <2>4, <3>1 DEF ResumeSet
    <3>3. Fresh(p, item)
      <4>1. CASE answer.kind = "value"
        BY <2>1, <3>1, <4>1 DEF AnswerOK
      <4>2. CASE answer.kind # "value"
        BY <3>1, <4>2 DEF Fresh
      <4>3. QED
        BY <4>1, <4>2
    <3>4. \A i \in DOMAIN calls : calls[i].kind = "set"
      BY <1>1
    <3>5. QED
      BY <1>1, <2>2, <3>2, <3>3, <3>4, PutCurrent
  <2>5. QED
    BY <2>3, <2>4
<1>11. QED
  BY <1>3, <1>7, <1>8, <1>9, <1>10

\* What is pending is among the calls or in the inbox.
LEMMA PendingParts ==
    ASSUME NEW c \in Seq(CallMessage), NEW b \in Seq(InboxMessage), NEW p \in Prop
    PROVE  /\ Pending(c, b, p) \in Nat
           /\ Pending(c, b, p) = 0 => ~HasSet(c, p) /\ \A j \in DOMAIN b : b[j] \notin Replies(p)
           /\ Pending(c, b, p) # 0 /\ ~HasSet(c, p) => \E j \in DOMAIN b : b[j] \in Replies(p)
<1>1. /\ Count(c, SetCalls(p)) \in Nat
      /\ Count(c, SetCalls(p)) = 0 <=> \A i \in DOMAIN c : c[i] \notin SetCalls(p)
  BY CountType
<1>2. /\ Count(b, Replies(p)) \in Nat
      /\ Count(b, Replies(p)) = 0 <=> \A i \in DOMAIN b : b[i] \notin Replies(p)
  BY CountType
<1>3. QED
  BY <1>1, <1>2 DEF Pending, HasSet

\* The item of a property that a message is not for.
LEMMA ItemTake ==
    ASSUME CallsOK, inbox # <<>>, inbox' = Tail(inbox), UNCHANGED <<daemonVars, calls>>,
           NEW p \in Prop, \A x : Fresh(p, x) => Fresh(p, x)',
           properties'[p] = properties[p], old_properties'[p] = old_properties[p], ItemOK(p)
    PROVE  ItemOK(p)'
<1>1. system' = system /\ Setting(p)' = Setting(p)
  BY DEF daemonVars, Setting
<1>2. Fresh(p, properties[p]) => Fresh(p, properties[p])'
  <2>1. PICK item : item = properties[p]
    OBVIOUS
  <2>2. item = properties'[p]
    BY <2>1
  <2>3. Fresh(p, item) => Fresh(p, item)'
    OBVIOUS
  <2>4. QED
    BY <2>1, <2>2, <2>3
<1>3. SetShows(p) => SetShows(p)'
  BY <1>2 DEF SetShows
<1>4. QED
  BY <1>1, <1>2, <1>3 DEF ItemOK

\* What stays fresh when the first message is taken.
LEMMA FreshTake ==
    ASSUME CallsOK, inbox # <<>>, inbox' = Tail(inbox), UNCHANGED daemonVars, NEW p \in Prop, NEW x,
           Fresh(p, x),
           Head(inbox) \notin Signals(p) \/ \E j \in DOMAIN inbox' : inbox'[j] \in Replies(p)
    PROVE  Fresh(p, x)'
<1>1. Setting(p)' = Setting(p) /\ queue' = queue
  BY DEF daemonVars, Setting
<1>2. CASE x \in {NotCached, Setting(p)}
  BY <1>1, <1>2 DEF Fresh
<1>3. CASE Behind(queue, inbox, p)
  <2>1. Behind(queue, Tail(inbox), p)
    BY <1>3, BehindTake DEF CallsOK, ConnOK
  <2>2. QED
    BY <1>1, <2>1 DEF Fresh
<1>4. QED
  BY <1>2, <1>3 DEF Fresh

\* A signal is passed over while a set is under way, because the reply, and
\* what the daemon says next, are still to come.  A failed set goes back to the
\* system's value.
LEMMA DispatchCurrent ==
    ASSUME CallsOK, WireOK, AnswerOK, CacheOK, Dispatch
    PROVE  WireOK' /\ AnswerOK' /\ CacheOK'
<1>1. /\ inbox # <<>> /\ inbox' = Tail(inbox) /\ cache = "open" /\ waiting = None /\ answer = None
      /\ UNCHANGED <<daemonVars, calls, answer, cache, waiting>>
      /\ calls \in Seq(CallMessage) /\ inbox \in Seq(InboxMessage)
  BY OnlySets DEF Dispatch, Idle, CallsOK, ConnOK
<1>2. /\ properties \in [Prop -> Item] /\ dead \in [Prop -> 0..MaxDead]
      /\ old_properties \in [Prop -> [item : Item] \cup {NoCall}]
  BY DEF CallsOK, TypeOK
<1>3. PICK m \in InboxMessage : m = Head(inbox) /\ Handle(m)
  BY <1>1, TailOf DEF Dispatch
<1>4. PICK p \in Prop : p = m.prop
  BY InboxKinds
<1>5. \A q \in Prop : ItemOK(q) /\ (old_properties[q] = NoCall => dead[q] = 0)
  BY <1>1 DEF CacheOK
<1>6. /\ WireOK'
      /\ system' = system /\ \A q \in Prop : Setting(q)' = Setting(q)
  <2>1. UNCHANGED <<system, user, queue>>
    BY <1>1 DEF daemonVars
  <2>2. QED
    BY <1>1, <2>1, WireTake DEF Setting
<1>7. AnswerOK'
  BY <1>1 DEF AnswerOK, None
<1>8. /\ Len(inbox) \in Nat \ {0} /\ DOMAIN inbox = 1..Len(inbox) /\ inbox[1] = m
      /\ DOMAIN inbox' = 1..(Len(inbox) - 1)
      /\ \A i \in 1..(Len(inbox) - 1) : inbox'[i] = inbox[i + 1]
  BY <1>1, <1>3, TailOf
<1>9. Arrived(1)
  BY <1>8 DEF WireOK
\* the other properties
<1>10. ASSUME NEW q \in Prop, q # p, properties'[q] = properties[q],
              old_properties'[q] = old_properties[q]
       PROVE  ItemOK(q)'
  <2>1. m \notin Signals(q)
    BY <1>4, <1>10, InboxKinds
  <2>2. \A x : Fresh(q, x) => Fresh(q, x)'
    BY <1>1, <1>3, <2>1, FreshTake
  <2>3. QED
    BY <1>1, <1>5, <1>10, <2>2, ItemTake
<1>11. /\ Pending(calls, inbox, p) \in Nat
       /\ Pending(calls, inbox, p) = dead[p] + IF old_properties[p] = NoCall THEN 0 ELSE 1
       /\ dead[p] \in Nat
  BY <1>1, <1>2, PendingParts DEF CallsOK, Paired
\* it is enough to see to p
<1>12. ASSUME ItemOK(p)', \A q \in Prop : q # p => properties'[q] = properties[q],
              \A q \in Prop : q # p => old_properties'[q] = old_properties[q],
              \A q \in Prop : old_properties'[q] = NoCall => dead'[q] = 0
       PROVE  WireOK' /\ AnswerOK' /\ CacheOK'
  <2>1. \A q \in Prop : ItemOK(q)'
    BY <1>10, <1>12
  <2>2. QED
    BY <1>1, <1>6, <1>7, <1>12, <2>1 DEF CacheOK
<1>13. CASE m.kind = "reply"
  <2>1. OnReply(p, m.ok) /\ m.ok = (p \notin system.locked) /\ m \notin Signals(p) /\ m \in Replies(p)
    <3>1. m \notin Signals(p) /\ m \in Replies(p)
      BY <1>4, <1>13, InboxKinds
    <3>2. OnReply(p, m.ok)
      BY <1>3, <1>4, <1>13 DEF Handle
    <3>3. m.ok = (p \notin system.locked)
      BY <1>4, <1>8, <1>9, <1>13 DEF Arrived
    <3>4. QED
      BY <3>1, <3>2, <3>3
  <2>2. \A x : Fresh(p, x) => Fresh(p, x)'
    BY <1>1, <1>3, <2>1, FreshTake
  <2>3. CASE dead[p] > 0
    <3>1. dead' = [dead EXCEPT ![p] = @ - 1] /\ UNCHANGED <<properties, old_properties>>
      BY <2>1, <2>3 DEF OnReply
    <3>2. ItemOK(p)'
      BY <1>1, <1>5, <2>2, <3>1, ItemTake
    <3>3. \A q \in Prop : old_properties'[q] = NoCall => dead'[q] = 0
      BY <1>2, <1>5, <1>11, <2>3, <3>1
    <3>4. QED
      BY <1>12, <3>1, <3>2, <3>3
  <2>4. CASE ~(dead[p] > 0)
    <3>1. HandleReply(p, m.ok) /\ dead' = dead /\ dead[p] = 0
      BY <1>11, <2>1, <2>4 DEF OnReply
    <3>2. old_properties' = [old_properties EXCEPT ![p] = NoCall]
      BY <3>1 DEF HandleReply
    <3>3. /\ Pending(calls, inbox', p) \in Nat
          /\ Pending(calls, inbox, p) = Pending(calls, inbox', p) + 1
      <4>1. /\ Pending(calls, Tail(inbox), p) \in Nat
            /\ Pending(calls, inbox, p)
                 = Pending(calls, Tail(inbox), p) + IF m \in Replies(p) THEN 1 ELSE 0
        BY <1>1, <1>3, PendingTaken
      <4>2. QED
        BY <1>1, <2>1, <4>1
    <3>4. old_properties[p] # NoCall /\ Pending(calls, inbox', p) = 0
      BY <1>11, <3>1, <3>3
    <3>5. inbox' \in Seq(InboxMessage)
      BY <1>1, TailOf
    <3>6. ~HasSet(calls, p)
      BY <1>1, <3>4, <3>5, PendingParts
    <3>7. Fresh(p, properties[p])'
      <4>1. PICK x : x = properties'[p]
        OBVIOUS
      <4>2. Fresh(p, x)
        <5>1. CASE p \notin system.locked
          <6>1. x = properties[p]
            BY <2>1, <3>1, <4>1, <5>1 DEF HandleReply
          <6>2. SetShows(p)
            BY <1>5, <3>4, <5>1 DEF ItemOK
          <6>3. QED
            BY <3>6, <6>1, <6>2 DEF SetShows
        <5>2. CASE p \in system.locked
          <6>1. x \in {NotCached, old_properties[p].item}
            BY <1>2, <2>1, <3>1, <4>1, <5>2 DEF HandleReply, GoBack
          <6>2. old_properties[p].item \in {NotCached, Setting(p)}
            BY <1>5, <3>4, <5>2 DEF ItemOK
          <6>3. QED
            BY <6>1, <6>2 DEF Fresh
        <5>3. QED
          BY <5>1, <5>2
      <4>3. Fresh(p, x)'
        BY <2>2, <4>2
      <4>4. QED
        BY <4>1, <4>3 DEF Fresh
    <3>8. ItemOK(p)'
      BY <1>2, <3>2, <3>7 DEF ItemOK
    <3>9. \A q \in Prop : q # p => properties'[q] = properties[q] /\ old_properties'[q] = old_properties[q]
      BY <1>2, <3>1, <3>2 DEF HandleReply, GoBack
    <3>10. \A q \in Prop : old_properties'[q] = NoCall => dead'[q] = 0
      BY <1>5, <3>1, <3>9
    <3>11. QED
      BY <1>12, <3>8, <3>9, <3>10
  <2>5. QED
    BY <2>3, <2>4
<1>14. CASE m.kind = "changed"
  <2>1. PICK v : v = m.value /\ OnChanged(p, v)
    BY <1>3, <1>4, <1>14 DEF Handle
  <2>2. /\ UNCHANGED <<old_properties, dead>>
        /\ \A q \in Prop : q # p => properties'[q] = properties[q]
    BY <1>2, <2>1 DEF OnChanged, Update
  <2>3. p \notin system.locked /\ m \notin Replies(p)
    BY <1>4, <1>8, <1>9, <1>14, InboxKinds DEF Arrived
  <2>4. CASE old_properties[p] # NoCall
    <3>1. properties' = properties
      BY <2>1, <2>4 DEF OnChanged
    <3>2. SetShows(p)
      BY <1>5, <2>3, <2>4 DEF ItemOK
    <3>3. ASSUME ~HasSet(calls, p) PROVE Fresh(p, properties[p])'
      <4>1. Pending(calls, inbox, p) # 0
        BY <1>11, <2>4
      <4>2. PICK j \in DOMAIN inbox : inbox[j] \in Replies(p)
        BY <1>1, <3>3, <4>1, PendingParts
      <4>3. j # 1
        BY <1>8, <2>3, <4>2
      <4>4. j - 1 \in DOMAIN inbox' /\ inbox'[j - 1] \in Replies(p)
        BY <1>8, <4>2, <4>3
      <4>5. PICK x : x = properties[p]
        OBVIOUS
      <4>6. Fresh(p, x)
        BY <3>2, <3>3, <4>5 DEF SetShows
      <4>7. Fresh(p, x)'
        BY <1>1, <4>4, <4>6, FreshTake
      <4>8. QED
        BY <3>1, <4>5, <4>7 DEF Fresh
    <3>4. SetShows(p)'
      BY <1>1, <3>1, <3>2, <3>3 DEF SetShows
    <3>5. ItemOK(p)'
      BY <1>6, <2>2, <2>3, <2>4, <3>4 DEF ItemOK
    <3>6. QED
      BY <1>5, <1>12, <2>2, <3>5
  <2>5. CASE old_properties[p] = NoCall
    <3>1. properties'[p] = v
      BY <1>2, <2>1, <2>5 DEF OnChanged, Update
    <3>2. Pending(calls, inbox, p) = 0
      BY <1>5, <1>11, <2>5
    <3>3. \A j \in DOMAIN inbox : inbox[j] \notin Replies(p)
      BY <1>1, <3>2, PendingParts
    <3>4. \A j \in DOMAIN inbox' : inbox'[j] \notin Replies(p)
      <4>1. \A j \in DOMAIN inbox' : j + 1 \in DOMAIN inbox /\ inbox'[j] = inbox[j + 1]
        BY <1>8
      <4>2. QED
        BY <3>3, <4>1
    <3>5. \/ v = Setting(p)
          \/ \E j \in DOMAIN queue : queue[j] = p
          \/ \E j \in DOMAIN inbox : j > 1 /\ inbox[j] \in Signals(p)
      BY <1>4, <1>8, <1>9, <1>14, <2>1 DEF Arrived
    <3>6. queue' = queue
      BY <1>1 DEF daemonVars
    <3>7. Fresh(p, properties[p])'
      <4>1. CASE v = Setting(p)
        BY <1>6, <3>1, <4>1 DEF Fresh
      <4>2. CASE \E j \in DOMAIN queue : queue[j] = p
        BY <3>6, <4>2 DEF Fresh, Behind
      <4>3. CASE \E j \in DOMAIN inbox : j > 1 /\ inbox[j] \in Signals(p)
        <5>1. PICK j \in DOMAIN inbox : j > 1 /\ inbox[j] \in Signals(p)
          BY <4>3
        <5>2. j - 1 \in DOMAIN inbox' /\ inbox'[j - 1] \in Signals(p)
          BY <1>8, <5>1
        <5>3. Behind(queue', inbox', p)
          BY <3>4, <5>2 DEF Behind
        <5>4. QED
          BY <5>3 DEF Fresh
      <4>4. QED
        BY <3>5, <4>1, <4>2, <4>3
    <3>8. ItemOK(p)'
      BY <2>2, <2>5, <3>7 DEF ItemOK
    <3>9. QED
      BY <1>5, <1>12, <2>2, <3>8
  <2>6. QED
    BY <2>4, <2>5
<1>15. CASE m.kind = "removed"
  <2>1. OnRemoved(p)
    BY <1>3, <1>4, <1>15 DEF Handle
  <2>2. /\ UNCHANGED <<old_properties, dead>> /\ properties'[p] = NotCached
        /\ \A q \in Prop : q # p => properties'[q] = properties[q]
    BY <1>2, <2>1 DEF OnRemoved
  <2>3. Fresh(p, properties[p])' /\ SetShows(p)'
    BY <2>2 DEF Fresh, SetShows
  <2>4. p \notin system.locked
    BY <1>4, <1>8, <1>9, <1>15 DEF Arrived
  <2>5. ItemOK(p)'
    BY <1>6, <2>2, <2>3, <2>4 DEF ItemOK
  <2>6. QED
    BY <1>5, <1>12, <2>2, <2>5
<1>16. QED
  BY <1>13, <1>14, <1>15, InboxKinds

\* The end of the cache, and what arrives after it.
LEMMA EndCurrent ==
    ASSUME CallsOK, WireOK, AnswerOK, CacheOK, Close \/ EndCall \/ Closed \/ Discard
    PROVE  WireOK' /\ AnswerOK' /\ CacheOK'
<1>1. answer = None /\ answer' = None /\ UNCHANGED <<daemonVars, calls, waiting>>
  <2>1. answer' = answer /\ UNCHANGED <<daemonVars, calls, waiting>>
    BY DEF Close, EndCall, Closed, Discard, connVars, clientVars
  <2>2. waiting = None
    BY DEF Close, EndCall, Closed, Discard, Idle, CallsOK, PhaseOK
  <2>3. QED
    BY <2>1, <2>2 DEF CallsOK, PhaseOK
<1>2. AnswerOK'
  BY <1>1 DEF AnswerOK, None
<1>3. CASE Close \/ Closed
  <2>1. UNCHANGED <<daemonVars, inbox, dead, old_properties>>
    BY <1>3 DEF Close, Closed, connVars
  <2>2. WireOK'
    BY <2>1, QuietWire
  <2>3. CacheOK'
    <3>1. cache' = "closing" \/ (cache' = "closed" /\ \A p \in Prop : properties'[p] = NotCached)
      BY <1>3 DEF Close, Closed
    <3>2. QED
      BY <2>1, <3>1 DEF CacheOK
  <2>4. QED
    BY <1>2, <2>2, <2>3
<1>4. CASE EndCall \/ Discard
  <2>1. inbox # <<>> /\ inbox' = Tail(inbox) /\ UNCHANGED <<daemonVars, cache, properties>>
    BY <1>4 DEF EndCall, Discard, clientVars
  <2>2. WireOK'
    BY <2>1, WireTake DEF daemonVars
  <2>3. \A q \in Prop : old_properties[q] = NoCall => dead[q] = 0
    BY DEF CacheOK
  <2>4. /\ dead \in [Prop -> 0..MaxDead] /\ old_properties \in [Prop -> [item : Item] \cup {NoCall}]
    BY DEF CallsOK, TypeOK
  <2>5. \A q \in Prop : old_properties'[q] = NoCall => dead'[q] = 0
    <3>1. PICK m \in InboxMessage : m = Head(inbox)
      BY <2>1, TailOf DEF CallsOK, ConnOK
    <3>2. CASE m.kind # "reply"
      <4>1. UNCHANGED <<old_properties, dead>>
        BY <1>4, <3>1, <3>2 DEF EndCall, Discard, clientVars
      <4>2. QED
        BY <2>3, <4>1
    <3>3. CASE m.kind = "reply" /\ EndCall
      <4>1. PICK p \in Prop : p = m.prop
        BY InboxKinds
      <4>2. CASE dead[p] > 0
        <5>1. dead' = [dead EXCEPT ![p] = @ - 1] /\ UNCHANGED old_properties
          BY <3>1, <3>3, <4>1, <4>2 DEF EndCall
        <5>2. old_properties[p] # NoCall
          BY <2>3, <4>2
        <5>3. QED
          BY <2>3, <2>4, <5>1, <5>2
      <4>3. CASE ~(dead[p] > 0)
        <5>1. old_properties' = [old_properties EXCEPT ![p] = NoCall] /\ UNCHANGED dead
          BY <3>1, <3>3, <4>1, <4>3 DEF EndCall
        <5>2. dead[p] = 0
          BY <2>4, <4>3
        <5>3. QED
          BY <2>3, <2>4, <5>1, <5>2
      <4>4. QED
        BY <4>2, <4>3
    <3>4. CASE m.kind = "reply" /\ Discard
      <4>1. \A q \in Prop : old_properties[q] = NoCall
        BY <3>4 DEF Discard, CallsOK, PhaseOK
      <4>2. m.prop \in Prop /\ (dead[m.prop] > 0 \/ old_properties[m.prop] # NoCall)
        BY <2>1, <3>1, <3>4, ReplyHasItsSet
      <4>3. QED
        BY <2>3, <4>1, <4>2
    <3>5. QED
      BY <1>4, <3>2, <3>3, <3>4
  <2>6. cache # "open"
    BY <1>4 DEF EndCall, Discard
  <2>7. CacheOK'
    BY <2>1, <2>5, <2>6 DEF CacheOK
  <2>8. QED
    BY <1>2, <2>2, <2>7
<1>5. QED
  BY <1>3, <1>4

LEMMA NextCurrent == CallsOK /\ Current /\ [Next]_vars => Current'
<1> SUFFICES ASSUME CallsOK, Current, [Next]_vars, ~faulty'
             PROVE  WireOK' /\ AnswerOK' /\ CacheOK'
  BY DEF Current
<1>1. CASE Next
  <2>1. ~DaemonDies /\ ~\E p \in Prop : TimesOut(p)
    BY DEF DaemonDies, TimesOut
  <2>2. faulty' = faulty
    <3>1. App => faulty' = faulty
      BY DEF App, AppChange, SetCached, SetUncached, Reset, OtherClient, Open, Close, Lookup, Block
    <3>2. Daemon \/ Client => faulty' = faulty
      BY DEF Daemon, Client, Serve, EmitIdled, DaemonStarts, Resume, Dispatch, EndCall, Closed, Discard
    <3>3. QED
      BY <1>1, <2>1, <3>1, <3>2 DEF Next
  <2>3. WireOK /\ AnswerOK /\ CacheOK
    BY <2>2 DEF Current
  <2>4. CASE App
    BY <2>3, <2>4, AskCurrent, SetCachedCurrent, OtherClientCurrent, EndCurrent DEF App, AppChange
  <2>5. CASE Daemon
    <3>1. ~DaemonStarts
      BY <2>2 DEF DaemonStarts, CallsOK, ConnOK
    <3>2. QED
      BY <2>3, <2>5, <3>1, ServeCurrent, EmitCurrent DEF Daemon
  <2>6. CASE Client
    BY <2>3, <2>6, ResumeCurrent, DispatchCurrent, EndCurrent DEF Client
  <2>7. QED
    BY <1>1, <2>1, <2>4, <2>5, <2>6 DEF Next
<1>2. CASE UNCHANGED vars
  <2>1. /\ UNCHANGED <<daemonVars, inbox, calls, answer, dead, cache, properties, old_properties, waiting>>
        /\ faulty' = faulty
    BY <1>2 DEF vars, connVars, clientVars
  <2>2. WireOK /\ AnswerOK /\ CacheOK
    BY <2>1 DEF Current
  <2>3. WireOK' /\ \A p \in Prop : \A x : Fresh(p, x) => Fresh(p, x)'
    BY <2>1, <2>2, QuietWire
  <2>4. AnswerOK'
    BY <2>1, <2>2, <2>3, AnswerKept
  <2>5. \A p \in Prop : ItemOK(p) => ItemOK(p)'
    BY <2>1, ItemKept
  <2>6. CacheOK'
    BY <2>1, <2>2, <2>5 DEF CacheOK
  <2>7. QED
    BY <2>3, <2>4, <2>6
<1>3. QED
  BY <1>1, <1>2

\* A cached value that is neither the daemon's nor just being set is about to
\* be corrected by a signal, although answers overtake signals, signals are
\* passed over while a set is under way, and a failed set goes back to an item
\* of long ago (blconf_cache_property_changed and the reply handler).  It needs
\* that the daemon replies before it signals, in the order of the calls, and
\* that nothing is ever signalled of a locked property.
THEOREM StaleIsCorrected == Spec => []BehindBySignals
<1>1. Spec => [](CallsOK /\ Current)
  BY InitCalls, NextPaired, InitCurrent, NextCurrent, PTL DEF Spec
<1>2. QED
  BY <1>1, CurrentIsBehindBySignals, PTL

=============================================================================
