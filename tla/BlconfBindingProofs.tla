------------------------ MODULE BlconfBindingProofs -------------------------
(***************************************************************************)
(* Theorems about the bindings of object properties: that a binding comes  *)
(* and goes as a whole, that it does not answer a value of the channel     *)
(* with another one, that the calls the handlers make of each other come   *)
(* to an end, and that object and channel agree when they have, for every  *)
(* set of channels, objects, bindings and conversions.                     *)
(***************************************************************************)
EXTENDS BlconfBinding, SequenceCounts

-----------------------------------------------------------------------------
(* The calls in progress.                                                  *)

HandlerName == {"object_notify", "channel_notify", "init"}

Emissions == [fn : {"property-changed"}, c : Chan, name : {Relayed(c, p) : c \in Chan, p \in Path},
              v : Val \cup {Unset}, todo : SUBSET Binding]
Notifies == [fn : {"notify"}, o : Obj, todo : SUBSET Binding]
Handlers == [fn : HandlerName, b : Binding]
Frame == Emissions \cup Notifies \cup Handlers

\* How often a handler of a binding is in progress.
Calls(s, fn, b) == Count(s, {Handler(fn, b)})

\* A binding is being made only by the outermost call.
InitIsOutermost(s) == \A i \in DOMAIN s : s[i].fn = "init" => i = Len(s)
BeingMade(s, b) == s # <<>> /\ Last(s) = Handler("init", b)

\* A call is told apart by its function.
LEMMA FrameKinds ==
    ASSUME NEW f \in Frame
    PROVE  /\ f.fn \in {"property-changed", "notify"} \cup HandlerName
           /\ f.fn = "property-changed" =>
                 /\ f \in Emissions /\ f.c \in Chan /\ f.v \in Val \cup {Unset} /\ f.todo \in SUBSET Binding
                 /\ \A S \in SUBSET Binding : [f EXCEPT !.todo = S] \in Emissions
           /\ f.fn = "notify" =>
                 /\ f \in Notifies /\ f.o \in Obj /\ f.todo \in SUBSET Binding
                 /\ \A S \in SUBSET Binding : [f EXCEPT !.todo = S] \in Notifies
           /\ f.fn \in HandlerName => f.b \in Binding /\ f = Handler(f.fn, f.b)
<1>1. CASE f \in Emissions
  BY <1>1 DEF Emissions, HandlerName
<1>2. CASE f \in Notifies
  BY <1>2 DEF Notifies, HandlerName
<1>3. CASE f \in Handlers
  BY <1>3 DEF Handlers, HandlerName, Handler
<1>4. QED
  BY <1>1, <1>2, <1>3 DEF Frame

\* Handlers of different bindings or names are different calls.
LEMMA HandlersDiffer ==
    ASSUME NEW fn \in HandlerName, NEW b \in Binding
    PROVE  /\ Handler(fn, b) \in Frame /\ Handler(fn, b).fn = fn /\ Handler(fn, b).b = b
           /\ \A gn \in HandlerName, d \in Binding : Handler(gn, d) = Handler(fn, b) <=> gn = fn /\ d = b
           /\ \A f \in Emissions \cup Notifies : f # Handler(fn, b) /\ f.fn \notin HandlerName
<1>1. Handler(fn, b) \in Handlers /\ Handler(fn, b).fn = fn /\ Handler(fn, b).b = b
  BY DEF Handler, Handlers
<1>2. \A gn \in HandlerName, d \in Binding : Handler(gn, d).fn = gn /\ Handler(gn, d).b = d
  BY DEF Handler
<1>3. ASSUME NEW f \in Emissions \cup Notifies PROVE f.fn \notin HandlerName
  BY <1>3 DEF Emissions, Notifies, HandlerName
<1>4. QED
  BY <1>1, <1>2, <1>3 DEF Frame

\* A handler is running when there is a call of it.
LEMMA RunningIsCalled ==
    ASSUME NEW s \in Seq(Frame), NEW fn \in HandlerName, NEW b \in Binding
    PROVE  /\ Calls(s, fn, b) \in Nat
           /\ b \in {s[i].b : i \in {j \in DOMAIN s : s[j].fn = fn}} <=> Calls(s, fn, b) > 0
           /\ \A i \in DOMAIN s : s[i] = Handler(fn, b) => Calls(s, fn, b) > 0
           /\ s = <<>> => Calls(s, fn, b) = 0
<1>1. /\ Calls(s, fn, b) \in Nat
      /\ Calls(s, fn, b) = 0 <=> \A i \in DOMAIN s : s[i] # Handler(fn, b)
  BY CountType DEF Calls
<1>2. \A i \in DOMAIN s : s[i] = Handler(fn, b) <=> s[i].fn = fn /\ s[i].b = b
  <2>1. ASSUME NEW i \in DOMAIN s PROVE s[i] = Handler(fn, b) <=> s[i].fn = fn /\ s[i].b = b
    <3>1. s[i] \in Frame
      BY ElementOfSeq, LenProperties
    <3>2. QED
      BY <3>1, FrameKinds, HandlersDiffer
  <2>2. QED
    BY <2>1
<1>3. s = <<>> => DOMAIN s = {}
  OBVIOUS
<1>4. QED
  BY <1>1, <1>2, <1>3

\* A call in front.
LEMMA StackPush ==
    ASSUME NEW s \in Seq(Frame), NEW m \in Frame
    PROVE  /\ <<m>> \o s \in Seq(Frame) /\ <<m>> \o s # <<>>
           /\ Head(<<m>> \o s) = m /\ Tail(<<m>> \o s) = s
           /\ \A fn \in HandlerName, b \in Binding :
                 Calls(<<m>> \o s, fn, b) = Calls(s, fn, b) + IF m = Handler(fn, b) THEN 1 ELSE 0
           /\ InitIsOutermost(s) /\ (s = <<>> \/ m.fn # "init") => InitIsOutermost(<<m>> \o s)
           /\ s # <<>> => Last(<<m>> \o s) = Last(s)
           /\ s = <<>> => Last(<<m>> \o s) = m
<1> DEFINE a == <<m>> \o s
<1>1. /\ a \in Seq(Frame) /\ a # <<>> /\ Head(a) = m /\ Tail(a) = s /\ Len(a) = Len(s) + 1
      /\ \A i \in 1..Len(s) : a[i + 1] = s[i]
  BY CountCons
<1>2. /\ Len(s) \in Nat /\ DOMAIN s = 1..Len(s) /\ DOMAIN a = 1..(Len(s) + 1) /\ a[1] = m
      /\ s = <<>> <=> Len(s) = 0
  BY <1>1, LenProperties, TailOf, EmptySeq
<1>3. ASSUME NEW fn \in HandlerName, NEW b \in Binding
      PROVE  Calls(a, fn, b) = Calls(s, fn, b) + IF m = Handler(fn, b) THEN 1 ELSE 0
  <2>1. Count(a, {Handler(fn, b)}) = Count(s, {Handler(fn, b)})
                                       + IF m \in {Handler(fn, b)} THEN 1 ELSE 0
    BY CountCons
  <2>2. QED
    BY <2>1 DEF Calls
<1> HIDE DEF a
<1>4. \A i \in DOMAIN a : i = 1 \/ (i - 1 \in DOMAIN s /\ a[i] = s[i - 1])
  <2>1. ASSUME NEW i \in DOMAIN a, i # 1 PROVE i - 1 \in DOMAIN s /\ a[i] = s[i - 1]
    <3>1. i - 1 \in 1..Len(s) /\ (i - 1) + 1 = i
      BY <1>2, <2>1
    <3>2. QED
      BY <1>1, <1>2, <3>1
  <2>2. QED
    BY <2>1
<1>5. ASSUME InitIsOutermost(s), s = <<>> \/ m.fn # "init"
      PROVE  InitIsOutermost(a)
  <2>1. ASSUME NEW i \in DOMAIN a, a[i].fn = "init" PROVE i = Len(a)
    <3>1. CASE i = 1
      BY <1>1, <1>2, <1>5, <2>1, <3>1
    <3>2. CASE i # 1
      <4>1. i - 1 \in DOMAIN s /\ s[i - 1].fn = "init"
        BY <1>4, <2>1, <3>2
      <4>2. i - 1 = Len(s)
        BY <4>1, <1>5 DEF InitIsOutermost
      <4>3. QED
        BY <1>1, <1>2, <4>2
    <3>3. QED
      BY <3>1, <3>2
  <2>2. QED
    BY <2>1 DEF InitIsOutermost
<1>6. s # <<>> => Last(a) = Last(s)
  BY <1>1, <1>2 DEF Last
<1>7. s = <<>> => Last(a) = m
  BY <1>1, <1>2 DEF Last
<1>8. QED
  BY <1>1, <1>3, <1>5, <1>6, <1>7 DEF a

\* A call that returns.
LEMMA StackPop ==
    ASSUME NEW s \in Seq(Frame), s # <<>>
    PROVE  /\ Tail(s) \in Seq(Frame) /\ Head(s) \in Frame /\ 1 \in DOMAIN s /\ s[1] = Head(s)
           /\ \A fn \in HandlerName, b \in Binding :
                 /\ Calls(s, fn, b) = Calls(Tail(s), fn, b) + IF Head(s) = Handler(fn, b) THEN 1 ELSE 0
                 /\ Calls(s, fn, b) \in Nat /\ Calls(Tail(s), fn, b) \in Nat
           /\ InitIsOutermost(s) => InitIsOutermost(Tail(s))
           /\ Tail(s) # <<>> => Last(Tail(s)) = Last(s)
           /\ Tail(s) = <<>> => Last(s) = Head(s)
           /\ InitIsOutermost(s) /\ Head(s).fn = "init" => Tail(s) = <<>>
<1> DEFINE t == Tail(s)
<1>1. /\ Len(s) \in Nat \ {0} /\ DOMAIN s = 1..Len(s) /\ Head(s) = s[1] /\ Head(s) \in Frame
      /\ t \in Seq(Frame) /\ Len(t) = Len(s) - 1 /\ DOMAIN t = 1..(Len(s) - 1)
      /\ \A i \in 1..(Len(s) - 1) : t[i] = s[i + 1]
  BY TailOf
<1>2. t = <<>> <=> Len(t) = 0
  BY <1>1, EmptySeq
<1>3. ASSUME NEW fn \in HandlerName, NEW b \in Binding
      PROVE  /\ Calls(s, fn, b) = Calls(t, fn, b) + IF Head(s) = Handler(fn, b) THEN 1 ELSE 0
             /\ Calls(s, fn, b) \in Nat /\ Calls(t, fn, b) \in Nat
  <2>1. Count(s, {Handler(fn, b)}) = Count(t, {Handler(fn, b)})
                                       + IF Head(s) \in {Handler(fn, b)} THEN 1 ELSE 0
    BY CountTail
  <2>2. Count(s, {Handler(fn, b)}) \in Nat /\ Count(t, {Handler(fn, b)}) \in Nat
    BY <1>1, CountType
  <2>3. QED
    BY <2>1, <2>2 DEF Calls
<1> HIDE DEF t
<1>4. InitIsOutermost(s) => InitIsOutermost(t)
  <2>1. ASSUME InitIsOutermost(s), NEW i \in DOMAIN t, t[i].fn = "init" PROVE i = Len(t)
    <3>1. i \in 1..(Len(s) - 1) /\ i + 1 \in DOMAIN s /\ s[i + 1].fn = "init"
      BY <1>1, <2>1
    <3>2. i + 1 = Len(s)
      BY <2>1, <3>1 DEF InitIsOutermost
    <3>3. QED
      BY <1>1, <3>1, <3>2
  <2>2. QED
    BY <2>1 DEF InitIsOutermost
<1>5. t # <<>> => Last(t) = Last(s)
  <2>1. ASSUME t # <<>> PROVE Len(t) \in 1..(Len(s) - 1) /\ Len(t) + 1 = Len(s)
    BY <1>1, <1>2, <2>1
  <2>2. QED
    BY <1>1, <2>1 DEF Last
<1>6. t = <<>> => Last(s) = Head(s)
  <2>1. Len(t) = Len(s) - 1 /\ Len(s) \in Nat
    BY <1>1
  <2>2. ASSUME t = <<>> PROVE Last(s) = Head(s)
    <3>1. Len(t) = 0
      BY <1>2, <2>2
    <3>2. Len(s) = 1
      BY <2>1, <3>1
    <3>3. QED
      BY <1>1, <3>2 DEF Last
  <2>3. QED
    BY <2>2
<1>7. InitIsOutermost(s) /\ Head(s).fn = "init" => t = <<>>
  BY <1>1, <1>2 DEF InitIsOutermost
<1>8. QED
  BY <1>1, <1>3, <1>4, <1>5, <1>6, <1>7 DEF t

\* An emission goes on to its next handler: whether it calls this one or not,
\* nothing else on the stack changes.
GoesOn(s, t) ==
    /\ t \in Seq(Frame) /\ t # <<>>
    /\ \A fn \in HandlerName, b \in Binding : Calls(t, fn, b) = Calls(s, fn, b)
    /\ InitIsOutermost(s) => InitIsOutermost(t)
    /\ \A b \in Binding : BeingMade(t, b) <=> BeingMade(s, b)

LEMMA EmissionGoesOn ==
    ASSUME NEW s \in Seq(Frame), s # <<>>, Head(s).fn \in {"notify", "property-changed"}, NEW b
    PROVE  /\ GoesOn(s, <<[Head(s) EXCEPT !.todo = @ \ {b}]>> \o Tail(s))
           /\ [Head(s) EXCEPT !.todo = @ \ {b}] \in Frame
<1> DEFINE g == [Head(s) EXCEPT !.todo = @ \ {b}]
<1>1. Tail(s) \in Seq(Frame) /\ Head(s) \in Frame
  BY StackPop
<1>2. Head(s) \in Emissions \cup Notifies /\ Head(s).todo \in SUBSET Binding
  BY <1>1, FrameKinds
<1>3. g \in Emissions \cup Notifies /\ g.fn = Head(s).fn
  <2>1. g = [Head(s) EXCEPT !.todo = Head(s).todo \ {b}]
    OBVIOUS
  <2>2. Head(s).todo \ {b} \in SUBSET Binding
    BY <1>2
  <2> HIDE DEF g
  <2>3. g \in Emissions \cup Notifies
    BY <1>1, <2>1, <2>2, FrameKinds
  <2>4. g.fn = Head(s).fn
    BY <1>2, <2>1 DEF Emissions, Notifies
  <2>5. QED
    BY <2>3, <2>4
<1>4. g \in Frame
  BY <1>3 DEF Frame
<1> HIDE DEF g
<1>5. ASSUME NEW fn \in HandlerName, NEW d \in Binding
      PROVE  Head(s) # Handler(fn, d) /\ g # Handler(fn, d)
  <2>1. \A f \in Emissions \cup Notifies : f # Handler(fn, d)
    BY HandlersDiffer
  <2>2. QED
    BY <1>2, <1>3, <2>1
<1>6. ASSUME NEW fn \in HandlerName, NEW d \in Binding
      PROVE  Calls(<<g>> \o Tail(s), fn, d) = Calls(s, fn, d)
  <2>1. Calls(s, fn, d) = Calls(Tail(s), fn, d) + 0
    BY <1>5, StackPop
  <2>2. Calls(<<g>> \o Tail(s), fn, d)
          = Calls(Tail(s), fn, d) + IF g = Handler(fn, d) THEN 1 ELSE 0
    <3>1. \A gn \in HandlerName, e \in Binding :
             Calls(<<g>> \o Tail(s), gn, e)
               = Calls(Tail(s), gn, e) + IF g = Handler(gn, e) THEN 1 ELSE 0
      BY <1>1, <1>4, StackPush
    <3>2. QED
      BY <3>1
  <2>3. QED
    BY <1>5, <2>1, <2>2
<1>7. InitIsOutermost(s) => InitIsOutermost(<<g>> \o Tail(s))
  <2>1. g.fn # "init"
    BY <1>3
  <2>2. QED
    BY <1>1, <1>4, <2>1, StackPop, StackPush
<1>8. ASSUME NEW d \in Binding
      PROVE  BeingMade(<<g>> \o Tail(s), d) <=> BeingMade(s, d)
  <2>1. "init" \in HandlerName
    BY DEF HandlerName
  <2>2. Tail(s) # <<>> => Last(<<g>> \o Tail(s)) = Last(s)
    BY <1>1, <1>4, StackPop, StackPush
  <2>3. Tail(s) = <<>> => Last(<<g>> \o Tail(s)) = g /\ Last(s) = Head(s)
    BY <1>1, <1>4, StackPop, StackPush
  <2>4. <<g>> \o Tail(s) # <<>>
    BY <1>1, <1>4, StackPush
  <2>5. QED
    BY <2>1, <2>2, <2>3, <2>4, <1>5 DEF BeingMade
<1>9. <<g>> \o Tail(s) \in Seq(Frame) /\ <<g>> \o Tail(s) # <<>>
  BY <1>1, <1>4, StackPush
<1>10. QED
  BY <1>4, <1>6, <1>7, <1>8, <1>9 DEF GoesOn, g

-----------------------------------------------------------------------------
(* The inductive invariant of BindingsAreWhole.                            *)

BindingData == UNION {Bindable[b] : b \in Binding}

Types ==
    /\ blconf_refcnt \in 0..MaxInit
    /\ chan \in [Chan -> {"none", "live", "gone"}]
    /\ cache \in [Chan -> [Path -> Val \cup {Unset}]]
    /\ object \in [Obj -> UNION {ObjVal[o] \cup {Gone} : o \in Obj}]
    /\ \A o \in Obj : object[o] \in ObjVal[o] \cup {Gone}
    /\ bindings \in [Binding -> BindingData \cup {Gone}]
    /\ \A b \in Binding : bindings[b] \in Bindable[b] \cup {Gone}
    /\ listed \in SUBSET Binding /\ object_handler \in SUBSET Binding
    /\ channel_handler \in SUBSET Binding
    /\ object_block \in [Binding -> Nat] /\ channel_block \in [Binding -> Nat]
    /\ stack \in Seq(Frame)

\* A handler is blocked as often as the call that blocks it is in progress,
\* and the two calls of a binding are not in progress at the same time.
BlocksMatch ==
    /\ \A b \in Binding :
          /\ object_block[b] = Calls(stack, "channel_notify", b)
          /\ channel_block[b] = Calls(stack, "object_notify", b)
          /\ object_block[b] = 0 \/ channel_block[b] = 0
    /\ InitIsOutermost(stack)

\* What belongs to a binding while calls are in progress: one that was unbound
\* in its own object_notify is kept until that returns, and one that is being
\* made has no channel handler yet.
Parts(b) ==
    /\ b \in object_handler => bindings[b] # Gone
    /\ bindings[b] # Gone => b \in object_handler \/ channel_block[b] > 0
    /\ object_block[b] > 0 => b \in object_handler
    /\ BeingMade(stack, b) => b \in object_handler
    /\ b \in listed <=> bindings[b] # Gone /\ ~BeingMade(stack, b)
    /\ bindings[b] # Gone => /\ Live(bindings[b].channel) /\ object[bindings[b].object] # Gone
                             /\ blconf_refcnt > 0

PartsMatch == listed = channel_handler /\ \A b \in Binding : Parts(b)

BindInv == Types /\ BlocksMatch /\ PartsMatch

\* The data of a binding names a channel, a property of it and an object.
LEMMA DataKinds ==
    ASSUME NEW d \in BindingData
    PROVE  /\ d.channel \in Chan /\ d.object \in Obj
           /\ RealProp(d.channel, d.blconf_property) \in Path
           /\ d # Gone
<1>1. PICK b \in Binding : d \in Bindable[b]
  BY DEF BindingData
<1>2. d \in [channel : Chan, blconf_property : Seq(Piece) \ {<<>>}, object : Obj]
  BY <1>1, BindingAssumption
<1>3. QED
  BY <1>1, <1>2, BindingAssumption

\* Without a call in progress the parts of a binding are all there or all gone.
LEMMA QuietIsWhole ==
    ASSUME BindInv, MainLoop
    PROVE  /\ listed = object_handler /\ listed = channel_handler
           /\ \A b \in Binding :
                 /\ object_block[b] = 0 /\ channel_block[b] = 0
                 /\ bindings[b] # Gone <=> b \in listed
                 /\ ~BeingMade(stack, b)
<1>1. stack = <<>> /\ stack \in Seq(Frame)
  BY DEF BindInv, Types, MainLoop
<1>2. ASSUME NEW b \in Binding
      PROVE  /\ object_block[b] = 0 /\ channel_block[b] = 0
             /\ bindings[b] # Gone <=> b \in listed
             /\ ~BeingMade(stack, b)
             /\ b \in listed <=> b \in object_handler
  <2>1. Calls(stack, "channel_notify", b) = 0 /\ Calls(stack, "object_notify", b) = 0
    BY <1>1, RunningIsCalled DEF HandlerName
  <2>2. object_block[b] = 0 /\ channel_block[b] = 0
    BY <2>1 DEF BindInv, BlocksMatch
  <2>3. ~BeingMade(stack, b)
    BY <1>1 DEF BeingMade
  <2>4. Parts(b)
    BY DEF BindInv, PartsMatch
  <2>5. QED
    BY <2>2, <2>3, <2>4 DEF Parts
<1>3. listed \in SUBSET Binding /\ object_handler \in SUBSET Binding /\ listed = channel_handler
  BY DEF BindInv, Types, PartsMatch
<1>4. QED
  BY <1>2, <1>3

\* A step that leaves the handlers and the list alone.
LEMMA PartsStay ==
    ASSUME BindInv, UNCHANGED bindVars,
           \A c \in Chan : Live(c) => Live(c)',
           \A o \in Obj : object[o] # Gone => object'[o] # Gone,
           blconf_refcnt > 0 => blconf_refcnt' > 0,
           \A b \in Binding : BeingMade(stack', b) <=> BeingMade(stack, b),
           \A b \in Binding : object_block'[b] > 0 => object_block[b] > 0 \/ b \in object_handler,
           \A b \in Binding : channel_block[b] > 0 /\ b \notin object_handler /\ bindings[b] # Gone
                                => channel_block'[b] > 0
    PROVE  PartsMatch'
<1>1. /\ bindings' = bindings /\ listed' = listed /\ object_handler' = object_handler
      /\ channel_handler' = channel_handler
  BY DEF bindVars
<1>2. ASSUME NEW b \in Binding PROVE Parts(b)'
  <2>1. Parts(b)
    BY DEF BindInv, PartsMatch
  <2>2. bindings[b] # Gone => bindings[b].channel \in Chan /\ bindings[b].object \in Obj
    BY DataKinds DEF BindInv, Types
  <2>3. QED
    BY <1>1, <2>1, <2>2 DEF Parts, Live
<1>3. QED
  BY <1>1, <1>2 DEF BindInv, PartsMatch

\* The end of bindings: all their parts go.
LEMMA PartsGo ==
    ASSUME BindInv, NEW S \in SUBSET Binding, ObjectDisconnect(S),
           \A b \in S : object_block'[b] = 0 /\ ~BeingMade(stack', b),
           \A b \in Binding \ S : /\ object_block'[b] = object_block[b]
                                  /\ channel_block'[b] = channel_block[b]
                                  /\ BeingMade(stack', b) <=> BeingMade(stack, b)
                                  /\ bindings[b] # Gone =>
                                        /\ chan'[bindings[b].channel] = "live"
                                        /\ object'[bindings[b].object] # Gone
                                        /\ blconf_refcnt' > 0
    PROVE  /\ PartsMatch'
           /\ bindings' \in [Binding -> BindingData \cup {Gone}]
           /\ \A d \in Binding : bindings'[d] \in Bindable[d] \cup {Gone}
           /\ listed' \in SUBSET Binding /\ object_handler' \in SUBSET Binding
           /\ channel_handler' \in SUBSET Binding
<1>1. /\ object_handler' = object_handler \ S /\ channel_handler' = channel_handler \ S
      /\ listed' = listed \ S
      /\ bindings' = [b \in Binding |-> IF b \in S THEN Gone ELSE bindings[b]]
  BY DEF ObjectDisconnect
<1>2. /\ bindings' \in [Binding -> BindingData \cup {Gone}]
      /\ \A d \in Binding : bindings'[d] \in Bindable[d] \cup {Gone}
      /\ listed' \in SUBSET Binding /\ object_handler' \in SUBSET Binding
      /\ channel_handler' \in SUBSET Binding /\ listed' = channel_handler'
  BY <1>1 DEF BindInv, Types, PartsMatch
<1>3. ASSUME NEW b \in Binding PROVE Parts(b)'
  <2>1. CASE b \in S
    <3>1. bindings'[b] = Gone
      BY <1>1, <2>1
    <3>2. object_block'[b] = 0 /\ ~BeingMade(stack', b)
      BY <2>1
    <3>3. QED
      BY <1>1, <2>1, <3>1, <3>2 DEF Parts
  <2>2. CASE b \notin S
    <3>1. bindings'[b] = bindings[b]
      BY <1>1, <2>2
    <3>2. Parts(b)
      BY DEF BindInv, PartsMatch
    <3>3. /\ object_block'[b] = object_block[b] /\ channel_block'[b] = channel_block[b]
          /\ BeingMade(stack', b) <=> BeingMade(stack, b)
          /\ bindings[b] # Gone => /\ chan'[bindings[b].channel] = "live"
                                   /\ object'[bindings[b].object] # Gone
                                   /\ blconf_refcnt' > 0
      BY <2>2
    <3>4. QED
      BY <1>1, <2>2, <3>1, <3>2, <3>3 DEF Parts, Live
  <2>3. QED
    BY <2>1, <2>2
<1>4. QED
  BY <1>2, <1>3 DEF PartsMatch

\* The calls that are in progress stay as they are.
LEMMA BlocksStay ==
    ASSUME BlocksMatch, UNCHANGED <<blocks, stack>>
    PROVE  BlocksMatch'
BY DEF BlocksMatch, blocks

\* Calls that are put in front together are in front one after the other.
LEMMA InFront ==
    ASSUME NEW s \in Seq(Frame), NEW f \in Frame, NEW g \in Frame, NEW h \in Frame
    PROVE  /\ (<<f>> \o <<g>>) \o s = <<f>> \o (<<g>> \o s)

           /\ <<f, h, g>> = <<f>> \o (<<h>> \o <<g>>)
<1>1. <<f>> \in Seq(Frame) /\ <<g>> \in Seq(Frame) /\ <<h>> \in Seq(Frame)
  OBVIOUS
<1>2. <<f, h>> = <<f>> \o <<h>> /\ <<f>> = <<f>> \o <<>>
  OBVIOUS
<1>3. (<<f>> \o <<g>>) \o s = <<f>> \o (<<g>> \o s)
  BY <1>1, ConcatAssociative

<1>5. <<f, h, g>> = <<f>> \o (<<h>> \o <<g>>)
  <2>1. /\ <<f, h, g>> \in Seq(Frame) /\ Len(<<f, h, g>>) = 3
        /\ <<f, h, g>>[1] = f /\ <<f, h, g>>[2] = h /\ <<f, h, g>>[3] = g
    OBVIOUS
  <2>2. /\ <<f, h>> \in Seq(Frame) /\ Len(<<f, h>>) = 2 /\ <<f, h>>[1] = f /\ <<f, h>>[2] = h
        /\ <<g>> \in Seq(Frame) /\ Len(<<g>>) = 1 /\ <<g>>[1] = g
    OBVIOUS
  <2>3. /\ <<f, h>> \o <<g>> \in Seq(Frame) /\ Len(<<f, h>> \o <<g>>) = 3
        /\ (<<f, h>> \o <<g>>)[1] = f /\ (<<f, h>> \o <<g>>)[2] = h /\ (<<f, h>> \o <<g>>)[3] = g
    <3>1. /\ <<f, h>> \o <<g>> \in Seq(Frame) /\ Len(<<f, h>> \o <<g>>) = 2 + 1
          /\ \A i \in 1..(2 + 1) :
                (<<f, h>> \o <<g>>)[i] = IF i <= 2 THEN <<f, h>>[i] ELSE <<g>>[i - 2]
      BY <2>2, ConcatProperties
    <3>2. QED
      BY <3>1, <2>2
  <2>4. <<f, h, g>> = <<f, h>> \o <<g>>
    BY <2>1, <2>3, SeqEqual
  <2>5. (<<f>> \o <<h>>) \o <<g>> = <<f>> \o (<<h>> \o <<g>>)
    BY <1>1, ConcatAssociative
  <2>6. <<f, h>> = <<f>> \o <<h>>
    BY <1>2
  <2>7. QED
    BY <2>4, <2>5, <2>6, Zenon
<1>6. QED
  BY <1>3, <1>5

\* Likewise two calls in front of an emission.
LEMMA TwoInFront ==
    \A s \in Seq(Frame), f, g, h \in Frame :
        (<<f, h>> \o <<g>>) \o s = <<f>> \o (<<h>> \o (<<g>> \o s))
<1>1. SUFFICES ASSUME NEW s \in Seq(Frame), NEW f \in Frame, NEW g \in Frame, NEW h \in Frame
               PROVE  (<<f, h>> \o <<g>>) \o s = <<f>> \o (<<h>> \o (<<g>> \o s))
  OBVIOUS
<1>2. <<f>> \in Seq(Frame) /\ <<g>> \in Seq(Frame) /\ <<h>> \in Seq(Frame)
  OBVIOUS
<1>3. <<f, h>> = <<f>> \o <<h>> /\ <<f, h>> \in Seq(Frame)
  OBVIOUS
<1>4. (<<f, h>> \o <<g>>) \o s = <<f, h>> \o (<<g>> \o s)
  BY <1>2, <1>3, ConcatAssociative
<1>5. <<g>> \o s \in Seq(Frame)
  BY <1>2, ConcatProperties
<1>6. (<<f>> \o <<h>>) \o (<<g>> \o s) = <<f>> \o (<<h>> \o (<<g>> \o s))
  BY <1>2, <1>5, ConcatAssociative
<1>7. QED
  BY <1>3, <1>4, <1>6

\* What the two emissions put on the stack.
LEMMA EmissionKinds ==
    ASSUME Types
    PROVE  /\ \A c \in Chan, path \in Path, v \in Val \cup {Unset} : Emit(c, path, v) \in Emissions
           /\ \A o \in Obj : Notify(o) \in Notifies
           /\ \A f \in Emissions : f \in Frame /\ f.fn = "property-changed"
           /\ \A f \in Notifies : f \in Frame /\ f.fn = "notify"
<1>1. object_handler \in SUBSET Binding /\ channel_handler \in SUBSET Binding
  BY DEF Types
<1>2. ASSUME NEW c \in Chan, NEW path \in Path, NEW v \in Val \cup {Unset}
      PROVE  Emit(c, path, v) \in Emissions
  BY <1>1 DEF Emit, Emission, Emissions
<1>3. ASSUME NEW o \in Obj PROVE Notify(o) \in Notifies
  BY <1>1 DEF Notify, Notifies
<1>4. /\ \A f \in Emissions : f \in Frame /\ f.fn = "property-changed"
      /\ \A f \in Notifies : f \in Frame /\ f.fn = "notify"
  BY DEF Emissions, Notifies, Frame
<1>5. QED
  BY <1>2, <1>3, <1>4

\* An object is set to a value of its own, or left alone.
LEMMA NewValueKinds ==
    ASSUME NEW o \in Obj, NEW v \in Val \cup {Unset}
    PROVE  NewObjectValue(o, v) \in ObjVal[o] \cup {Fail}
BY BindingAssumption DEF NewObjectValue

\* The cache holds values.
LEMMA StoreKinds ==
    ASSUME NEW c \in Chan, NEW path \in Path, NEW v \in Val \cup {Unset}, Store(c, path, v),
           cache \in [Chan -> [Path -> Val \cup {Unset}]]
    PROVE  /\ cache' \in [Chan -> [Path -> Val \cup {Unset}]]
           /\ \A d \in Chan, p \in Path :
                 cache'[d][p] = IF d = c /\ p = path THEN v ELSE cache[d][p]
<1>1. cache[c] \in [Path -> Val \cup {Unset}]
  OBVIOUS
<1>2. cache' = [cache EXCEPT ![c] = [cache[c] EXCEPT ![path] = v]]
  BY DEF Store
<1>3. [cache[c] EXCEPT ![path] = v] \in [Path -> Val \cup {Unset}]
  BY <1>1
<1>4. QED
  BY <1>1, <1>2, <1>3

\* What the cache had is not touched, though an item may have been fetched.
Keeps(ca, cb) ==
    /\ cb \in [Chan -> [Path -> Val \cup {Unset}]]
    /\ \A d \in Chan, p \in Path : cb[d][p] = ca[d][p] \/ ca[d][p] = Unset

\* A lookup changes nothing but an item that was not cached.
LEMMA LookupKinds ==
    ASSUME NEW c \in Chan, NEW path \in Path, NEW v, Lookup(c, path, v),
           cache \in [Chan -> [Path -> Val \cup {Unset}]]
    PROVE  /\ Keeps(cache, cache') /\ v \in Val \cup {Unset} /\ cache'[c][path] = v
           /\ \A d \in Chan, p \in Path : d # c \/ p # path => cache'[d][p] = cache[d][p]
           /\ \/ cache' = cache /\ silent' = silent
              \/ cache[c][path] = Unset /\ silent' = silent \cup {<<c, path>>}
<1>1. cache[c] \in [Path -> Val \cup {Unset}]
  OBVIOUS
<1>2. CASE v = cache[c][path] /\ cache' = cache /\ silent' = silent
  BY <1>1, <1>2 DEF Keeps
<1>3. CASE cache[c][path] = Unset /\ v \in Val /\ StoreSilently(c, path, v)
  <2>1. cache' = [cache EXCEPT ![c] = [cache[c] EXCEPT ![path] = v]]
    BY <1>3 DEF StoreSilently
  <2>2. [cache[c] EXCEPT ![path] = v] \in [Path -> Val \cup {Unset}]
    BY <1>1, <1>3
  <2>3. \A d \in Chan, p \in Path :
           cache'[d][p] = IF d = c /\ p = path THEN v ELSE cache[d][p]
    BY <1>1, <2>1, <2>2
  <2>4. cache' \in [Chan -> [Path -> Val \cup {Unset}]]
    BY <2>1, <2>2
  <2>5. silent' = silent \cup {<<c, path>>}
    BY <1>3 DEF StoreSilently
  <2> QED
    BY <1>3, <2>3, <2>4, <2>5 DEF Keeps
<1>4. QED
  BY <1>2, <1>3 DEF Lookup

\* A set either stores the value and emits, or is no change to the cache.
LEMMA CacheSetKinds ==
    ASSUME NEW c \in Chan, NEW path \in Path, NEW v \in Val, NEW changed \in BOOLEAN,
           CacheSet(c, path, v, changed), cache \in [Chan -> [Path -> Val \cup {Unset}]]
    PROVE  \/ changed /\ ~Equal(cache[c][path], v) /\ Store(c, path, v)
           \/ /\ ~changed /\ Keeps(cache, cache')
              /\ \A d \in Chan, p \in Path : d # c \/ p # path => cache'[d][p] = cache[d][p]
              /\ \/ cache[c][path] = Unset /\ cache' = cache /\ silent' = silent
                 \/ Equal(v, v) /\ cache[c][path] = v /\ cache' = cache /\ silent' = silent
                 \/ /\ Equal(v, v) /\ cache[c][path] = Unset /\ cache'[c][path] = v
                    /\ silent' = silent \cup {<<c, path>>}
<1>1. CASE changed /\ ~Equal(cache[c][path], v) /\ Store(c, path, v)
  BY <1>1
<1>2. CASE ~changed /\ cache[c][path] = Unset /\ UNCHANGED <<cache, silent>>
  BY <1>2 DEF Keeps
<1>3. CASE ~changed /\ Equal(v, v) /\ Lookup(c, path, v)
  <2>1. /\ Keeps(cache, cache') /\ cache'[c][path] = v
        /\ \A d \in Chan, p \in Path : d # c \/ p # path => cache'[d][p] = cache[d][p]
        /\ \/ cache' = cache /\ silent' = silent
           \/ cache[c][path] = Unset /\ silent' = silent \cup {<<c, path>>}
    BY <1>3, LookupKinds
  <2>2. QED
    BY <1>3, <2>1
<1>4. QED
  BY <1>1, <1>2, <1>3 DEF CacheSet

\* A handler that is skipped.
LEMMA SkipBind ==
    ASSUME BindInv, stack # <<>>, Head(stack).fn \in {"notify", "property-changed"},
           NEW b, SkipHandler(b),
           UNCHANGED <<blconf_refcnt, chan, cache, object, bindVars, blocks>>
    PROVE  BindInv'
<1>1. stack \in Seq(Frame)
  BY DEF BindInv, Types
<1>2. GoesOn(stack, stack')
  <2>1. stack' = <<[Head(stack) EXCEPT !.todo = @ \ {b}]>> \o Tail(stack)
    BY DEF SkipHandler
  <2>2. QED
    BY <1>1, <2>1, EmissionGoesOn
<1>3. Types'
  BY <1>2 DEF GoesOn, BindInv, Types, bindVars, blocks
<1>4. BlocksMatch'
  <2>1. BlocksMatch /\ object_block' = object_block /\ channel_block' = channel_block
    BY DEF BindInv, blocks
  <2>2. \A d \in Binding : /\ Calls(stack', "channel_notify", d) = Calls(stack, "channel_notify", d)
                           /\ Calls(stack', "object_notify", d) = Calls(stack, "object_notify", d)
    BY <1>2 DEF GoesOn, HandlerName
  <2>3. InitIsOutermost(stack')
    BY <1>2, <2>1 DEF GoesOn, BlocksMatch
  <2>4. QED
    BY <2>1, <2>2, <2>3 DEF BlocksMatch
<1>5. PartsMatch'
  <2>1. \A d \in Binding : BeingMade(stack', d) <=> BeingMade(stack, d)
    BY <1>2 DEF GoesOn
  <2>2. /\ UNCHANGED <<blconf_refcnt, chan, object>> /\ UNCHANGED bindVars
        /\ object_block' = object_block /\ channel_block' = channel_block
    BY DEF blocks
  <2>3. QED
    BY <2>1, <2>2, PartsStay DEF Live
<1>6. QED
  BY <1>3, <1>4, <1>5 DEF BindInv

\* A call of a handler, with or without the emission it makes in its turn.
Called(s, t, fn, b) ==
    /\ t \in Seq(Frame) /\ t # <<>>
    /\ \A gn \in HandlerName, d \in Binding :
          Calls(t, gn, d) = Calls(s, gn, d) + IF gn = fn /\ d = b THEN 1 ELSE 0
    /\ InitIsOutermost(s) => InitIsOutermost(t)
    /\ \A d \in Binding : BeingMade(t, d) <=> BeingMade(s, d)

LEMMA HandlerIsCalled ==
    ASSUME NEW s \in Seq(Frame), s # <<>>, Head(s).fn \in {"notify", "property-changed"},
           NEW b \in Binding, NEW fn \in {"object_notify", "channel_notify"}
    PROVE  LET u == <<[Head(s) EXCEPT !.todo = @ \ {b}]>> \o Tail(s)
               t == <<Handler(fn, b)>> \o u
           IN  /\ u \in Seq(Frame) /\ u # <<>> /\ t \in Seq(Frame)
               /\ Called(s, t, fn, b)
               /\ \A m \in Emissions \cup Notifies : Called(s, <<m>> \o t, fn, b)
<1> DEFINE h == Handler(fn, b)
           u == <<[Head(s) EXCEPT !.todo = @ \ {b}]>> \o Tail(s)
           t == <<h>> \o u
<1>1. GoesOn(s, u)
  BY EmissionGoesOn
<1> HIDE DEF u
<1>2. u \in Seq(Frame) /\ u # <<>>
  BY <1>1 DEF GoesOn
<1>3. fn \in HandlerName /\ h \in Frame /\ h.fn = fn /\ h.fn # "init"
  <2>1. fn \in HandlerName /\ fn # "init"
    BY DEF HandlerName
  <2>2. QED
    BY <2>1, HandlersDiffer
<1>4. \A gn \in HandlerName, d \in Binding : h = Handler(gn, d) <=> gn = fn /\ d = b
  BY <1>3, HandlersDiffer
<1> HIDE DEF h
<1>5. t \in Seq(Frame) /\ t # <<>>
  BY <1>2, <1>3, StackPush
<1>6. \A gn \in HandlerName, d \in Binding :
         Calls(t, gn, d) = Calls(u, gn, d) + IF h = Handler(gn, d) THEN 1 ELSE 0
  BY <1>2, <1>3, StackPush
<1>7. \A gn \in HandlerName, d \in Binding :
         Calls(t, gn, d) = Calls(s, gn, d) + IF gn = fn /\ d = b THEN 1 ELSE 0
  <2>1. ASSUME NEW gn \in HandlerName, NEW d \in Binding
        PROVE  Calls(t, gn, d) = Calls(s, gn, d) + IF gn = fn /\ d = b THEN 1 ELSE 0
    <3>1. Calls(u, gn, d) = Calls(s, gn, d)
      BY <1>1 DEF GoesOn
    <3>2. h = Handler(gn, d) <=> gn = fn /\ d = b
      BY <1>4
    <3>3. Calls(t, gn, d) = Calls(u, gn, d) + IF h = Handler(gn, d) THEN 1 ELSE 0
      BY <1>6
    <3>4. QED
      BY <3>1, <3>2, <3>3
  <2>2. QED
    BY <2>1
<1>8. InitIsOutermost(s) => InitIsOutermost(t)
  <2>1. InitIsOutermost(s) => InitIsOutermost(u)
    BY <1>1 DEF GoesOn
  <2>2. InitIsOutermost(u) => InitIsOutermost(t)
    BY <1>2, <1>3, StackPush
  <2>3. QED
    BY <2>1, <2>2
<1>9. Last(t) = Last(u)
  BY <1>2, <1>3, StackPush
<1>10. \A d \in Binding : BeingMade(t, d) <=> BeingMade(s, d)
  <2>1. \A d \in Binding : BeingMade(u, d) <=> BeingMade(s, d)
    BY <1>1 DEF GoesOn
  <2>2. \A d \in Binding : BeingMade(t, d) <=> BeingMade(u, d)
    BY <1>2, <1>5, <1>9 DEF BeingMade
  <2>3. QED
    BY <2>1, <2>2
<1>11. Called(s, t, fn, b)
  BY <1>5, <1>7, <1>8, <1>10 DEF Called
<1> HIDE DEF t
<1>12. ASSUME NEW m \in Emissions \cup Notifies PROVE Called(s, <<m>> \o t, fn, b)
  <2>1. m \in Frame /\ m.fn # "init"
    BY DEF Frame, Emissions, Notifies
  <2>2. <<m>> \o t \in Seq(Frame) /\ <<m>> \o t # <<>>
    BY <1>5, <2>1, StackPush
  <2>3. \A gn \in HandlerName, d \in Binding :
           Calls(<<m>> \o t, gn, d) = Calls(t, gn, d) + IF m = Handler(gn, d) THEN 1 ELSE 0
    BY <1>5, <2>1, StackPush
  <2>4. \A gn \in HandlerName, d \in Binding :
           Calls(<<m>> \o t, gn, d) = Calls(s, gn, d) + IF gn = fn /\ d = b THEN 1 ELSE 0
    <3>1. ASSUME NEW gn \in HandlerName, NEW d \in Binding
          PROVE  Calls(<<m>> \o t, gn, d) = Calls(s, gn, d) + IF gn = fn /\ d = b THEN 1 ELSE 0
      <4>1. m # Handler(gn, d)
        BY HandlersDiffer
      <4>2. Calls(<<m>> \o t, gn, d) = Calls(t, gn, d) + 0
        BY <4>1, <2>3
      <4>3. Calls(t, gn, d) = Calls(s, gn, d) + IF gn = fn /\ d = b THEN 1 ELSE 0
        BY <1>7
      <4>4. Calls(t, gn, d) \in Nat
        BY <1>5, RunningIsCalled
      <4>5. QED
        BY <4>2, <4>3, <4>4
    <3>2. QED
      BY <3>1
  <2>5. InitIsOutermost(t) => InitIsOutermost(<<m>> \o t)
    BY <1>5, <2>1, StackPush
  <2>6. Last(<<m>> \o t) = Last(t)
    BY <1>5, <2>1, StackPush
  <2>7. \A d \in Binding : BeingMade(<<m>> \o t, d) <=> BeingMade(s, d)
    BY <1>5, <1>10, <2>2, <2>6 DEF BeingMade
  <2>8. QED
    BY <1>8, <2>2, <2>4, <2>5, <2>7 DEF Called
<1>13. QED
  BY <1>2, <1>5, <1>11, <1>12 DEF t, h, u

LEMMA TwoCalls == \A f, h \in Frame : <<f>> \o <<h>> = <<f, h>> /\ <<>> \o <<h>> = <<h>>
<1>1. SUFFICES ASSUME NEW f \in Frame, NEW h \in Frame
               PROVE  <<f>> \o <<h>> = <<f, h>> /\ <<>> \o <<h>> = <<h>>
  OBVIOUS
<1>2. <<f>> \in Seq(Frame) /\ <<h>> \in Seq(Frame)
  OBVIOUS
<1>3. <<f>> \o <<h>> = <<f, h>>
  <2>1. /\ Len(<<f>> \o <<h>>) = 2 /\ (<<f>> \o <<h>>)[1] = f /\ (<<f>> \o <<h>>)[2] = h
        /\ Len(<<f, h>>) = 2 /\ <<f, h>>[1] = f /\ <<f, h>>[2] = h /\ <<f, h>> \in Seq(Frame)
    OBVIOUS
  <2>2. <<f>> \o <<h>> \in Seq(Frame)
    BY <1>2, ConcatProperties
  <2>3. PICK a \in Seq(Frame), c \in Seq(Frame) :
           /\ a = <<f>> \o <<h>> /\ c = <<f, h>>
           /\ Len(a) = 2 /\ a[1] = f /\ a[2] = h /\ Len(c) = 2 /\ c[1] = f /\ c[2] = h
    BY <2>1, <2>2
  <2>4. Len(a) = Len(c) /\ \A i \in 1..Len(a) : a[i] = c[i]
    <3>1. /\ Len(a) = 2 /\ a[1] = f /\ a[2] = h /\ Len(c) = 2 /\ c[1] = f /\ c[2] = h
          /\ \A i \in 1..2 : i = 1 \/ i = 2
      BY <2>3
    <3>2. QED
      BY <3>1
  <2>5. QED
    BY <2>3, <2>4, SeqEqual
<1>4. <<>> \o <<h>> = <<h>>
  BY <1>2
<1>5. QED
  BY <1>3, <1>4

\* What an object's handler does when it is called.
LEMMA ObjectNotifySets ==
    ASSUME NEW b \in Binding, ObjectNotify(b), b \in object_handler, ~(object_block[b] > 0)
    PROVE  LET bd == bindings[b]
               c == bd.channel
               path == RealProp(bd.channel, bd.blconf_property)
               v == ToChannel[bd.object][object[bd.object]]
               e == Emit(bd.channel, path, v)
               h == Handler("object_notify", b)
           IN  /\ c \in Chan /\ path \in Path /\ v \in Val /\ e \in Frame /\ h \in Frame
               /\ cache \in [Chan -> [Path -> Val \cup {Unset}]]
               => /\ channel_block' = [channel_block EXCEPT ![b] = @ + 1]
                  /\ \/ CallHandler(b, <<e, h>>) /\ ~Equal(cache[c][path], v) /\ Store(c, path, v)
                     \/ /\ CallHandler(b, <<h>>)
                        /\ Keeps(cache, cache')
                        /\ \A d \in Chan, p \in Path : d # c \/ p # path => cache'[d][p] = cache[d][p]
                        /\ \/ cache[c][path] = Unset /\ cache' = cache /\ silent' = silent
                           \/ Equal(v, v) /\ cache[c][path] = v /\ cache' = cache /\ silent' = silent
                           \/ /\ Equal(v, v) /\ cache[c][path] = Unset /\ cache'[c][path] = v
                              /\ silent' = silent \cup {<<c, path>>}
<1> DEFINE bd == bindings[b]
           c == bd.channel
           path == RealProp(bd.channel, bd.blconf_property)
           v == ToChannel[bd.object][object[bd.object]]
           e == Emit(bd.channel, path, v)
           h == Handler("object_notify", b)
<1>1. /\ channel_block' = [channel_block EXCEPT ![b] = @ + 1]
      /\ \E changed \in BOOLEAN :
            /\ CacheSet(c, path, v, changed)
            /\ CallHandler(b, (IF changed THEN <<e>> ELSE <<>>) \o <<h>>)
  BY DEF ObjectNotify
<1> HIDE DEF bd, c, path, v, e, h
<1> SUFFICES ASSUME c \in Chan, path \in Path, v \in Val, e \in Frame, h \in Frame,
                    cache \in [Chan -> [Path -> Val \cup {Unset}]]
             PROVE  /\ channel_block' = [channel_block EXCEPT ![b] = @ + 1]
                    /\ \/ CallHandler(b, <<e, h>>) /\ ~Equal(cache[c][path], v) /\ Store(c, path, v)
                       \/ /\ CallHandler(b, <<h>>)
                          /\ Keeps(cache, cache')
                          /\ \A d \in Chan, p \in Path : d # c \/ p # path => cache'[d][p] = cache[d][p]
                          /\ \/ cache[c][path] = Unset /\ cache' = cache /\ silent' = silent
                             \/ Equal(v, v) /\ cache[c][path] = v /\ cache' = cache /\ silent' = silent
                             \/ /\ Equal(v, v) /\ cache[c][path] = Unset /\ cache'[c][path] = v
                                /\ silent' = silent \cup {<<c, path>>}
  BY DEF bd, c, path, v, e, h
<1>2. PICK changed \in BOOLEAN :
         /\ CacheSet(c, path, v, changed)
         /\ CallHandler(b, (IF changed THEN <<e>> ELSE <<>>) \o <<h>>)
  BY <1>1
<1>4. <<e>> \o <<h>> = <<e, h>> /\ <<>> \o <<h>> = <<h>>
  BY TwoCalls
<1>8. /\ changed => ~Equal(cache[c][path], v) /\ Store(c, path, v)
      /\ ~changed =>
            /\ Keeps(cache, cache')
            /\ \A d \in Chan, p \in Path : d # c \/ p # path => cache'[d][p] = cache[d][p]
            /\ \/ cache[c][path] = Unset /\ cache' = cache /\ silent' = silent
               \/ Equal(v, v) /\ cache[c][path] = v /\ cache' = cache /\ silent' = silent
               \/ /\ Equal(v, v) /\ cache[c][path] = Unset /\ cache'[c][path] = v
                  /\ silent' = silent \cup {<<c, path>>}
  BY <1>2, CacheSetKinds
<1>5. CASE changed
  <2>1. CallHandler(b, <<e, h>>)
    BY <1>2, <1>4, <1>5
  <2>2. QED
    BY <1>1, <1>5, <1>8, <2>1
<1>6. CASE ~changed
  <2>1. CallHandler(b, <<h>>)
    BY <1>2, <1>4, <1>6
  <2>2. QED
    BY <1>1, <1>6, <1>8, <2>1
<1>7. QED
  BY <1>5, <1>6

\* Each step of the calls keeps the invariant.
LEMMA ObjectNotifyBind ==
    ASSUME BindInv, NEW b \in Binding, ObjectNotify(b)
    PROVE  BindInv'
<1> DEFINE bd == bindings[b]
           path == RealProp(bd.channel, bd.blconf_property)
           dst_val == ToChannel[bd.object][object[bd.object]]
           u == <<[Head(stack) EXCEPT !.todo = @ \ {b}]>> \o Tail(stack)
           t == <<Handler("object_notify", b)>> \o u
           e == Emit(bd.channel, path, dst_val)
<1>1. /\ stack # <<>> /\ Head(stack).fn = "notify"
      /\ UNCHANGED <<blconf_refcnt, chan, object>> /\ UNCHANGED bindVars
      /\ object_block' = object_block
  BY DEF ObjectNotify, In
<1>2. CASE b \notin object_handler \/ object_block[b] > 0
  <2>1. SkipHandler(b) /\ UNCHANGED <<cache, channel_block>>
    BY <1>2 DEF ObjectNotify
  <2>2. QED
    BY <1>1, <2>1, SkipBind DEF blocks
<1>3. CASE b \in object_handler /\ ~(object_block[b] > 0)
  <2>1. Parts(b) /\ Types /\ BlocksMatch
    BY DEF BindInv, PartsMatch
  <2>2. bd \in BindingData /\ Live(bd.channel)
    BY <1>3, <2>1 DEF Parts, Types
  <2>3. bd.channel \in Chan /\ bd.object \in Obj /\ path \in Path
    BY <2>2, DataKinds
  <2>4. object[bd.object] \in ObjVal[bd.object] /\ dst_val \in Val
    <3>1. object[bd.object] # Gone
      BY <1>3, <2>1 DEF Parts
    <3>2. object[bd.object] \in ObjVal[bd.object]
      BY <2>1, <2>3, <3>1 DEF Types
    <3>3. ToChannel[bd.object] \in [ObjVal[bd.object] -> Val]
      BY <2>3, BindingAssumption
    <3>4. QED
      BY <3>2, <3>3
  <2>5. /\ u \in Seq(Frame) /\ u # <<>> /\ t \in Seq(Frame) /\ Called(stack, t, "object_notify", b)
        /\ \A m \in Emissions \cup Notifies : Called(stack, <<m>> \o t, "object_notify", b)
    BY <1>1, <2>1, HandlerIsCalled DEF Types
  <2>6. e \in Emissions /\ e \in Frame /\ Handler("object_notify", b) \in Frame
    <3>1. e \in Emissions
      BY <2>1, <2>3, <2>4, EmissionKinds
    <3>2. QED
      BY <3>1, <2>1, EmissionKinds, HandlersDiffer DEF HandlerName
  <2> HIDE DEF e
  <2>7. /\ channel_block' = [channel_block EXCEPT ![b] = @ + 1]
        /\ \/ stack' = t /\ Keeps(cache, cache')
           \/ stack' = <<e>> \o t /\ Store(bd.channel, path, dst_val)
    <3>1. [Head(stack) EXCEPT !.todo = @ \ {b}] \in Frame /\ Tail(stack) \in Seq(Frame)
      BY <1>1, <2>1, EmissionGoesOn, StackPop DEF Types
    <3>2. /\ channel_block' = [channel_block EXCEPT ![b] = @ + 1]
          /\ \/ CallHandler(b, <<Handler("object_notify", b)>>) /\ Keeps(cache, cache')
             \/ /\ CallHandler(b, <<e, Handler("object_notify", b)>>)
                /\ Store(bd.channel, path, dst_val)
      BY <1>3, <2>1, <2>3, <2>4, <2>6, ObjectNotifySets DEF Types, e
    <3>3. CASE CallHandler(b, <<Handler("object_notify", b)>>) /\ Keeps(cache, cache')
      <4>1. stack' = t
        BY <2>6, <3>1, <3>3, InFront DEF CallHandler
      <4>2. QED
        BY <3>2, <3>3, <4>1
    <3>4. CASE /\ CallHandler(b, <<e, Handler("object_notify", b)>>)
               /\ Store(bd.channel, path, dst_val)
      <4>1. stack' = <<e>> \o t
        <5>1. PICK g \in Frame : g = [Head(stack) EXCEPT !.todo = @ \ {b}]
          BY <3>1
        <5>2. (<<e, Handler("object_notify", b)>> \o <<g>>) \o Tail(stack)
                = <<e>> \o (<<Handler("object_notify", b)>> \o (<<g>> \o Tail(stack)))
          BY <2>6, <3>1, TwoInFront
        <5>3. stack' = (<<e, Handler("object_notify", b)>> \o <<g>>) \o Tail(stack)
          BY <3>4, <5>1 DEF CallHandler
        <5>4. t = <<Handler("object_notify", b)>> \o (<<g>> \o Tail(stack))
          BY <5>1
        <5>5. QED
          BY <5>2, <5>3, <5>4
      <4>2. QED
        BY <3>2, <3>4, <4>1
    <3>5. QED
      BY <3>2, <3>3, <3>4
  <2>8. Called(stack, stack', "object_notify", b)
    BY <2>5, <2>6, <2>7
  <2> HIDE DEF t, u, dst_val, path
  <2>9. cache' \in [Chan -> [Path -> Val \cup {Unset}]]
    BY <2>1, <2>3, <2>4, <2>7, StoreKinds DEF Types, Keeps
  <2>10. Types'
    BY <1>1, <2>1, <2>7, <2>8, <2>9 DEF Types, bindVars, Called
  <2>11. BlocksMatch'
    <3>1. ASSUME NEW d \in Binding
          PROVE  /\ object_block'[d] = Calls(stack', "channel_notify", d)
                 /\ channel_block'[d] = Calls(stack', "object_notify", d)
                 /\ object_block'[d] = 0 \/ channel_block'[d] = 0
      <4>1. /\ Calls(stack', "channel_notify", d) = Calls(stack, "channel_notify", d) + 0
            /\ Calls(stack', "object_notify", d)
                 = Calls(stack, "object_notify", d) + IF d = b THEN 1 ELSE 0
        BY <2>8 DEF Called, HandlerName
      <4>2. /\ object_block[d] = Calls(stack, "channel_notify", d) /\ object_block[d] \in Nat
            /\ channel_block[d] = Calls(stack, "object_notify", d) /\ channel_block[d] \in Nat
            /\ object_block[d] = 0 \/ channel_block[d] = 0
        BY <2>1 DEF BlocksMatch, Types
      <4>3. /\ object_block'[d] = object_block[d]
            /\ channel_block'[d] = channel_block[d] + IF d = b THEN 1 ELSE 0
        BY <1>1, <2>1, <2>7 DEF Types
      <4>4. QED
        BY <1>3, <4>1, <4>2, <4>3
    <3>2. InitIsOutermost(stack')
      BY <2>1, <2>8 DEF Called, BlocksMatch
    <3>3. QED
      BY <3>1, <3>2 DEF BlocksMatch
  <2>12. PartsMatch'
    <3>1. \A d \in Binding : BeingMade(stack', d) <=> BeingMade(stack, d)
      BY <2>8 DEF Called
    <3>2. \A d \in Binding : channel_block[d] > 0 => channel_block'[d] > 0
      BY <2>1, <2>7 DEF Types
    <3>3. QED
      BY <1>1, <3>1, <3>2, PartsStay DEF Live
  <2>13. QED
    BY <2>10, <2>11, <2>12 DEF BindInv
<1>4. QED
  BY <1>2, <1>3

LEMMA ChannelNotifyBind ==
    ASSUME BindInv, NEW b \in Binding, ChannelNotify(b)
    PROVE  BindInv'
<1> DEFINE o == bindings[b].object
           dst_val == NewObjectValue(o, Head(stack).v)
           u == <<[Head(stack) EXCEPT !.todo = @ \ {b}]>> \o Tail(stack)
           t == <<Handler("channel_notify", b)>> \o u
           e == Notify(o)
<1>1. /\ stack # <<>> /\ Head(stack).fn = "property-changed"
      /\ UNCHANGED chanVars /\ UNCHANGED bindVars /\ channel_block' = channel_block
  BY DEF ChannelNotify, In
<1>2. CASE b \notin channel_handler \/ channel_block[b] > 0 \/ dst_val = Fail
  <2>1. SkipHandler(b) /\ UNCHANGED <<object, object_block>>
    BY <1>2 DEF ChannelNotify
  <2>2. QED
    BY <1>1, <2>1, SkipBind DEF chanVars, blocks
<1>3. CASE b \in channel_handler /\ ~(channel_block[b] > 0) /\ dst_val # Fail
  <2>1. Parts(b) /\ Types /\ BlocksMatch /\ b \in listed
    BY <1>3 DEF BindInv, PartsMatch
  <2>2. bindings[b] \in BindingData /\ b \in object_handler
    BY <1>3, <2>1 DEF Parts, Types
  <2>3. o \in Obj /\ Head(stack) \in Frame
    BY <1>1, <2>1, <2>2, DataKinds, StackPop DEF Types
  <2>4. dst_val \in ObjVal[o] /\ dst_val # Gone
    <3>1. Head(stack).v \in Val \cup {Unset}
      BY <1>1, <2>3, FrameKinds
    <3>2. dst_val \in ObjVal[o]
      BY <1>3, <2>3, <3>1, NewValueKinds
    <3>3. QED
      BY <2>3, <3>2, BindingAssumption
  <2>5. /\ u \in Seq(Frame) /\ u # <<>> /\ t \in Seq(Frame)
        /\ \A m \in Emissions \cup Notifies : Called(stack, <<m>> \o t, "channel_notify", b)
    BY <1>1, <2>1, HandlerIsCalled DEF Types
  <2>6. e \in Notifies /\ e \in Frame /\ Handler("channel_notify", b) \in Frame
    <3>1. e \in Notifies
      BY <2>1, <2>3, EmissionKinds
    <3>2. QED
      BY <3>1, <2>1, EmissionKinds, HandlersDiffer DEF HandlerName
  <2> HIDE DEF e, dst_val
  <2>7. /\ object_block' = [object_block EXCEPT ![b] = @ + 1]
        /\ object' = [object EXCEPT ![o] = dst_val]
        /\ stack' = <<e>> \o t
    <3>1. [Head(stack) EXCEPT !.todo = @ \ {b}] \in Frame /\ Tail(stack) \in Seq(Frame)
      BY <1>1, <2>1, EmissionGoesOn, StackPop DEF Types
    <3>2. /\ object_block' = [object_block EXCEPT ![b] = @ + 1]
          /\ object' = [object EXCEPT ![o] = dst_val]
          /\ CallHandler(b, <<e, Handler("channel_notify", b)>>)
      BY <1>3 DEF ChannelNotify, e, dst_val
    <3>3. stack' = <<e>> \o t
      <4>1. PICK g \in Frame : g = [Head(stack) EXCEPT !.todo = @ \ {b}]
        BY <3>1
      <4>2. (<<e, Handler("channel_notify", b)>> \o <<g>>) \o Tail(stack)
              = <<e>> \o (<<Handler("channel_notify", b)>> \o (<<g>> \o Tail(stack)))
        BY <2>6, <3>1, TwoInFront
      <4>3. stack' = (<<e, Handler("channel_notify", b)>> \o <<g>>) \o Tail(stack)
        BY <3>2, <4>1 DEF CallHandler
      <4>4. t = <<Handler("channel_notify", b)>> \o (<<g>> \o Tail(stack))
        BY <4>1
      <4>5. QED
        BY <4>2, <4>3, <4>4
    <3>4. QED
      BY <3>2, <3>3
  <2>8. Called(stack, stack', "channel_notify", b)
    BY <2>5, <2>6, <2>7
  <2> HIDE DEF t, u
  <2>9. /\ object' \in [Obj -> UNION {ObjVal[x] \cup {Gone} : x \in Obj}]
        /\ \A x \in Obj : object'[x] \in ObjVal[x] \cup {Gone}
        /\ \A x \in Obj : object[x] # Gone => object'[x] # Gone
    BY <2>1, <2>3, <2>4, <2>7 DEF Types
  <2>10. Types'
    BY <1>1, <2>1, <2>7, <2>8, <2>9 DEF Types, bindVars, chanVars, Called
  <2>11. BlocksMatch'
    <3>1. ASSUME NEW d \in Binding
          PROVE  /\ object_block'[d] = Calls(stack', "channel_notify", d)
                 /\ channel_block'[d] = Calls(stack', "object_notify", d)
                 /\ object_block'[d] = 0 \/ channel_block'[d] = 0
      <4>1. /\ Calls(stack', "object_notify", d) = Calls(stack, "object_notify", d) + 0
            /\ Calls(stack', "channel_notify", d)
                 = Calls(stack, "channel_notify", d) + IF d = b THEN 1 ELSE 0
        BY <2>8 DEF Called, HandlerName
      <4>2. /\ object_block[d] = Calls(stack, "channel_notify", d) /\ object_block[d] \in Nat
            /\ channel_block[d] = Calls(stack, "object_notify", d) /\ channel_block[d] \in Nat
            /\ object_block[d] = 0 \/ channel_block[d] = 0
        BY <2>1 DEF BlocksMatch, Types
      <4>3. /\ channel_block'[d] = channel_block[d]
            /\ object_block'[d] = object_block[d] + IF d = b THEN 1 ELSE 0
        BY <1>1, <2>1, <2>7 DEF Types
      <4>4. QED
        BY <1>3, <4>1, <4>2, <4>3
    <3>2. InitIsOutermost(stack')
      BY <2>1, <2>8 DEF Called, BlocksMatch
    <3>3. QED
      BY <3>1, <3>2 DEF BlocksMatch
  <2>12. PartsMatch'
    <3>1. \A d \in Binding : BeingMade(stack', d) <=> BeingMade(stack, d)
      BY <2>8 DEF Called
    <3>2. \A d \in Binding : object_block'[d] > 0 => object_block[d] > 0 \/ d \in object_handler
      BY <2>1, <2>2, <2>7 DEF Types
    <3>3. chan' = chan /\ blconf_refcnt' = blconf_refcnt
      BY <1>1 DEF chanVars
    <3>4. QED
      BY <1>1, <2>9, <3>1, <3>2, <3>3, PartsStay DEF Live
  <2>13. QED
    BY <2>10, <2>11, <2>12 DEF BindInv
<1>4. QED
  BY <1>2, <1>3

\* A call that returns was in progress, and is not any more.
LEMMA ReturnKinds ==
    ASSUME BindInv, stack # <<>>, stack' = Tail(stack)
    PROVE  /\ stack \in Seq(Frame) /\ stack' \in Seq(Frame) /\ Head(stack) \in Frame
           /\ \A fn \in HandlerName, b \in Binding :
                 /\ Calls(stack, fn, b) = Calls(stack', fn, b)
                                            + IF Head(stack) = Handler(fn, b) THEN 1 ELSE 0
                 /\ Calls(stack, fn, b) \in Nat /\ Calls(stack', fn, b) \in Nat
           /\ InitIsOutermost(stack')
           /\ Head(stack).fn = "init" => stack' = <<>>
           /\ Head(stack).fn # "init" =>
                 \A b \in Binding : BeingMade(stack', b) <=> BeingMade(stack, b)
<1>1. stack \in Seq(Frame) /\ InitIsOutermost(stack)
  BY DEF BindInv, Types, BlocksMatch
<1>2. ASSUME Head(stack).fn # "init", NEW b \in Binding
      PROVE  BeingMade(stack', b) <=> BeingMade(stack, b)
  <2>1. Handler("init", b).fn = "init"
    BY DEF Handler
  <2>2. Tail(stack) = <<>> => Last(stack) = Head(stack)
    BY <1>1, StackPop
  <2>3. Tail(stack) # <<>> => Last(Tail(stack)) = Last(stack)
    BY <1>1, StackPop
  <2>4. QED
    BY <1>2, <2>1, <2>2, <2>3 DEF BeingMade
<1>3. QED
  BY <1>1, <1>2, StackPop

LEMMA EmittedBind ==
    ASSUME BindInv, Emitted
    PROVE  BindInv'
<1>1. /\ stack # <<>> /\ Head(stack).fn \in {"notify", "property-changed"}
      /\ stack' = Tail(stack)
      /\ UNCHANGED chanVars /\ object' = object /\ UNCHANGED bindVars
      /\ object_block' = object_block /\ channel_block' = channel_block
  BY DEF Emitted, blocks
<1>2. Types /\ BlocksMatch
  BY DEF BindInv
<1>3. \A fn \in HandlerName, b \in Binding : Calls(stack', fn, b) = Calls(stack, fn, b)
  <2>1. ASSUME NEW fn \in HandlerName, NEW b \in Binding
        PROVE  Calls(stack', fn, b) = Calls(stack, fn, b)
    <3>1. Head(stack) # Handler(fn, b)
      <4>1. Handler(fn, b).fn = fn /\ fn \notin {"notify", "property-changed"}
        BY DEF Handler, HandlerName
      <4>2. QED
        BY <1>1, <4>1
    <3>2. QED
      BY <1>1, <3>1, ReturnKinds
  <2>2. QED
    BY <2>1
<1>4. Types'
  BY <1>1, <1>2, ReturnKinds DEF Types, chanVars, bindVars
<1>5. BlocksMatch'
  <2>1. InitIsOutermost(stack')
    BY <1>1, ReturnKinds
  <2>2. QED
    BY <1>1, <1>2, <1>3, <2>1 DEF BlocksMatch, HandlerName
<1>6. PartsMatch'
  <2>1. \A b \in Binding : BeingMade(stack', b) <=> BeingMade(stack, b)
    BY <1>1, ReturnKinds
  <2>2. chan' = chan /\ blconf_refcnt' = blconf_refcnt
    BY <1>1 DEF chanVars
  <2>3. QED
    BY <1>1, <2>1, <2>2, PartsStay DEF Live
<1>7. QED
  BY <1>4, <1>5, <1>6 DEF BindInv

LEMMA ChannelNotifyReturnsBind ==
    ASSUME BindInv, ChannelNotifyReturns
    PROVE  BindInv'
<1> DEFINE b == Head(stack).b
<1>1. /\ stack # <<>> /\ Head(stack).fn = "channel_notify" /\ stack' = Tail(stack)
      /\ object_block' = [object_block EXCEPT ![b] = @ - 1]
      /\ UNCHANGED chanVars /\ object' = object /\ UNCHANGED bindVars
      /\ channel_block' = channel_block
  BY DEF ChannelNotifyReturns, In
<1>2. Types /\ BlocksMatch
  BY DEF BindInv
<1>3. b \in Binding /\ Head(stack) = Handler("channel_notify", b)
  BY <1>1, ReturnKinds, FrameKinds DEF HandlerName
<1> HIDE DEF b
<1>4. ASSUME NEW d \in Binding
      PROVE  /\ Calls(stack, "object_notify", d) = Calls(stack', "object_notify", d)
             /\ Calls(stack, "channel_notify", d)
                  = Calls(stack', "channel_notify", d) + IF d = b THEN 1 ELSE 0
             /\ Calls(stack', "channel_notify", d) \in Nat
             /\ Calls(stack', "object_notify", d) \in Nat
  <2>1. /\ Head(stack) = Handler("channel_notify", d) <=> d = b
        /\ Head(stack) # Handler("object_notify", d)
    BY <1>3 DEF Handler
  <2>2. \A fn \in HandlerName :
           /\ Calls(stack, fn, d) = Calls(stack', fn, d)
                                      + IF Head(stack) = Handler(fn, d) THEN 1 ELSE 0
           /\ Calls(stack', fn, d) \in Nat
    BY <1>1, ReturnKinds
  <2>3. /\ Calls(stack, "object_notify", d) = Calls(stack', "object_notify", d)
                       + IF Head(stack) = Handler("object_notify", d) THEN 1 ELSE 0
        /\ Calls(stack, "channel_notify", d) = Calls(stack', "channel_notify", d)
                       + IF Head(stack) = Handler("channel_notify", d) THEN 1 ELSE 0
        /\ Calls(stack', "channel_notify", d) \in Nat
        /\ Calls(stack', "object_notify", d) \in Nat
    BY <2>2 DEF HandlerName
  <2>4. QED
    BY <2>1, <2>3
<1>5. ASSUME NEW d \in Binding
      PROVE  /\ object_block'[d] = Calls(stack', "channel_notify", d)
             /\ channel_block'[d] = Calls(stack', "object_notify", d)
             /\ object_block'[d] = 0 \/ channel_block'[d] = 0
             /\ object_block'[d] \in Nat
             /\ object_block'[d] > 0 => object_block[d] > 0
  <2>1. /\ object_block[d] = Calls(stack, "channel_notify", d) /\ object_block[d] \in Nat
        /\ channel_block[d] = Calls(stack, "object_notify", d) /\ channel_block[d] \in Nat
        /\ object_block[d] = 0 \/ channel_block[d] = 0
    BY <1>2 DEF BlocksMatch, Types
  <2>2. /\ channel_block'[d] = channel_block[d]
        /\ object_block'[d] = object_block[d] - IF d = b THEN 1 ELSE 0
    BY <1>1, <1>2, <2>1 DEF Types
  <2>3. QED
    BY <1>4, <2>1, <2>2
<1>6. Types'
  <2>1. object_block' \in [Binding -> Nat]
    BY <1>1, <1>2, <1>5 DEF Types
  <2>2. stack' \in Seq(Frame)
    BY <1>1, ReturnKinds
  <2>3. QED
    BY <1>1, <1>2, <2>1, <2>2 DEF Types, chanVars, bindVars
<1>7. BlocksMatch'
  <2>1. InitIsOutermost(stack')
    BY <1>1, ReturnKinds
  <2>2. QED
    BY <1>5, <2>1 DEF BlocksMatch
<1>8. PartsMatch'
  <2>1. \A d \in Binding : BeingMade(stack', d) <=> BeingMade(stack, d)
    BY <1>1, ReturnKinds
  <2>2. chan' = chan /\ blconf_refcnt' = blconf_refcnt
    BY <1>1 DEF chanVars
  <2>3. QED
    BY <1>1, <1>5, <2>1, <2>2, PartsStay DEF Live
<1>9. QED
  BY <1>6, <1>7, <1>8 DEF BindInv

LEMMA ObjectNotifyReturnsBind ==
    ASSUME BindInv, ObjectNotifyReturns
    PROVE  BindInv'
<1> DEFINE b == Head(stack).b
<1>1. /\ stack # <<>> /\ Head(stack).fn = "object_notify" /\ stack' = Tail(stack)
      /\ channel_block' = [channel_block EXCEPT ![b] = @ - 1]
      /\ UNCHANGED chanVars /\ object' = object /\ object_block' = object_block
      /\ chan' = chan /\ blconf_refcnt' = blconf_refcnt
  BY DEF ObjectNotifyReturns, In, chanVars
<1>2. Types /\ BlocksMatch
  BY DEF BindInv
<1>3. b \in Binding /\ Head(stack) = Handler("object_notify", b)
  BY <1>1, ReturnKinds, FrameKinds DEF HandlerName
<1>4. IF b \in object_handler \cup Running("object_notify")'
      THEN UNCHANGED bindVars ELSE ObjectDisconnect({b})
  BY DEF ObjectNotifyReturns
<1> HIDE DEF b
<1>5. ASSUME NEW d \in Binding
      PROVE  /\ Calls(stack, "channel_notify", d) = Calls(stack', "channel_notify", d)
             /\ Calls(stack, "object_notify", d)
                  = Calls(stack', "object_notify", d) + IF d = b THEN 1 ELSE 0
             /\ Calls(stack', "channel_notify", d) \in Nat
             /\ Calls(stack', "object_notify", d) \in Nat
  <2>1. /\ Head(stack) = Handler("object_notify", d) <=> d = b
        /\ Head(stack) # Handler("channel_notify", d)
    BY <1>3 DEF Handler
  <2>2. \A fn \in HandlerName :
           /\ Calls(stack, fn, d) = Calls(stack', fn, d)
                                      + IF Head(stack) = Handler(fn, d) THEN 1 ELSE 0
           /\ Calls(stack', fn, d) \in Nat
    BY <1>1, ReturnKinds
  <2>3. /\ Calls(stack, "object_notify", d) = Calls(stack', "object_notify", d)
                       + IF Head(stack) = Handler("object_notify", d) THEN 1 ELSE 0
        /\ Calls(stack, "channel_notify", d) = Calls(stack', "channel_notify", d)
                       + IF Head(stack) = Handler("channel_notify", d) THEN 1 ELSE 0
        /\ Calls(stack', "channel_notify", d) \in Nat
        /\ Calls(stack', "object_notify", d) \in Nat
    BY <2>2 DEF HandlerName
  <2>4. QED
    BY <2>1, <2>3
<1>6. ASSUME NEW d \in Binding
      PROVE  /\ object_block'[d] = Calls(stack', "channel_notify", d)
             /\ channel_block'[d] = Calls(stack', "object_notify", d)
             /\ object_block'[d] = 0 \/ channel_block'[d] = 0
             /\ channel_block'[d] \in Nat
             /\ d # b => channel_block'[d] = channel_block[d]
             /\ d = b => object_block[d] = 0
  <2>1. /\ object_block[d] = Calls(stack, "channel_notify", d) /\ object_block[d] \in Nat
        /\ channel_block[d] = Calls(stack, "object_notify", d) /\ channel_block[d] \in Nat
        /\ object_block[d] = 0 \/ channel_block[d] = 0
    BY <1>2 DEF BlocksMatch, Types
  <2>2. /\ object_block'[d] = object_block[d]
        /\ channel_block'[d] = channel_block[d] - IF d = b THEN 1 ELSE 0
    BY <1>1, <1>2, <2>1 DEF Types
  <2>3. QED
    BY <1>5, <2>1, <2>2
<1>7. BlocksMatch' /\ stack' \in Seq(Frame) /\ channel_block' \in [Binding -> Nat]
  <2>1. InitIsOutermost(stack') /\ stack' \in Seq(Frame)
    BY <1>1, ReturnKinds
  <2>2. channel_block' \in [Binding -> Nat]
    BY <1>1, <1>2, <1>6 DEF Types
  <2>3. QED
    BY <1>6, <2>1, <2>2 DEF BlocksMatch
<1>8. \A d \in Binding : BeingMade(stack', d) <=> BeingMade(stack, d)
  BY <1>1, ReturnKinds
<1>9. CASE b \in object_handler \cup Running("object_notify")'
  <2>1. UNCHANGED bindVars
    BY <1>4, <1>9
  <2>2. b \in Running("object_notify")' => channel_block'[b] > 0
    <3>1. b \in Running("object_notify")' <=> Calls(stack', "object_notify", b) > 0
      BY <1>3, <1>7, RunningIsCalled DEF Running, HandlerName
    <3>2. QED
      BY <1>3, <1>6, <3>1
  <2>3. \A d \in Binding : channel_block[d] > 0 /\ d \notin object_handler /\ bindings[d] # Gone
                             => channel_block'[d] > 0
    BY <1>6, <1>9, <2>2
  <2>4. PartsMatch'
    BY <1>1, <1>8, <2>1, <2>3, PartsStay DEF Live
  <2>5. Types'
    BY <1>1, <1>2, <1>7, <2>1 DEF Types, chanVars, bindVars
  <2>6. QED
    BY <1>7, <2>4, <2>5 DEF BindInv
<1>10. CASE b \notin object_handler \cup Running("object_notify")'
  <2>1. ObjectDisconnect({b})
    BY <1>4, <1>10
  <2>2. Parts(b)
    BY <1>3 DEF BindInv, PartsMatch
  <2>3. object_block'[b] = 0 /\ ~BeingMade(stack', b)
    <3>1. ~BeingMade(stack, b)
      BY <1>10, <2>2 DEF Parts
    <3>2. object_block[b] = 0
      BY <1>3, <1>6
    <3>3. QED
      BY <1>1, <1>3, <1>8, <3>1, <3>2
  <2>4. \A d \in Binding \ {b} : /\ object_block'[d] = object_block[d]
                                 /\ channel_block'[d] = channel_block[d]
                                 /\ BeingMade(stack', d) <=> BeingMade(stack, d)
                                 /\ bindings[d] # Gone =>
                                       /\ chan'[bindings[d].channel] = "live"
                                       /\ object'[bindings[d].object] # Gone
                                       /\ blconf_refcnt' > 0
    <3>1. ASSUME NEW d \in Binding \ {b}, bindings[d] # Gone
          PROVE  /\ chan'[bindings[d].channel] = "live" /\ object'[bindings[d].object] # Gone
                 /\ blconf_refcnt' > 0
      <4>1. Parts(d)
        BY DEF BindInv, PartsMatch
      <4>2. QED
        BY <1>1, <3>1, <4>1 DEF Parts, Live
    <3>2. QED
      BY <1>1, <1>6, <1>8, <3>1
  <2>5. {b} \in SUBSET Binding
    BY <1>3
  <2>6. /\ PartsMatch'
        /\ bindings' \in [Binding -> BindingData \cup {Gone}]
        /\ \A d \in Binding : bindings'[d] \in Bindable[d] \cup {Gone}
        /\ listed' \in SUBSET Binding /\ object_handler' \in SUBSET Binding
        /\ channel_handler' \in SUBSET Binding
    BY <2>1, <2>3, <2>4, <2>5, PartsGo
  <2>7. Types'
    BY <1>1, <1>2, <1>7, <2>6 DEF Types, chanVars
  <2>8. QED
    BY <1>7, <2>6, <2>7 DEF BindInv
<1>11. QED
  BY <1>9, <1>10

LEMMA BindReturnsBind ==
    ASSUME BindInv, BindReturns
    PROVE  BindInv'
<1> DEFINE b == Head(stack).b
<1>1. /\ stack # <<>> /\ Head(stack).fn = "init" /\ stack' = Tail(stack)
      /\ channel_handler' = channel_handler \cup {b} /\ listed' = listed \cup {b}
      /\ chan' = chan /\ blconf_refcnt' = blconf_refcnt /\ cache' = cache
      /\ object' = object /\ bindings' = bindings /\ object_handler' = object_handler
      /\ object_block' = object_block /\ channel_block' = channel_block
  BY DEF BindReturns, In, chanVars, blocks
<1>2. Types /\ BlocksMatch
  BY DEF BindInv
<1>3. b \in Binding /\ Head(stack) = Handler("init", b) /\ stack' = <<>>
  BY <1>1, ReturnKinds, FrameKinds DEF HandlerName
<1> HIDE DEF b
<1>4. stack' \in Seq(Frame) /\ InitIsOutermost(stack')
  BY <1>1, ReturnKinds
<1>5. BlocksMatch'
  <2>1. ASSUME NEW d \in Binding
        PROVE  /\ Calls(stack, "channel_notify", d) = Calls(stack', "channel_notify", d)
               /\ Calls(stack, "object_notify", d) = Calls(stack', "object_notify", d)
    <3>1. /\ Head(stack) # Handler("channel_notify", d)
          /\ Head(stack) # Handler("object_notify", d)
      BY <1>3 DEF Handler
    <3>2. \A fn \in HandlerName :
             /\ Calls(stack, fn, d) = Calls(stack', fn, d)
                                        + IF Head(stack) = Handler(fn, d) THEN 1 ELSE 0
             /\ Calls(stack', fn, d) \in Nat
      BY <1>1, ReturnKinds
    <3>3. /\ Calls(stack, "channel_notify", d) = Calls(stack', "channel_notify", d) + 0
          /\ Calls(stack', "channel_notify", d) \in Nat
          /\ Calls(stack, "object_notify", d) = Calls(stack', "object_notify", d) + 0
          /\ Calls(stack', "object_notify", d) \in Nat
      BY <3>1, <3>2 DEF HandlerName
    <3>4. QED
      BY <3>3
  <2>2. QED
    BY <1>1, <1>2, <1>4, <2>1 DEF BlocksMatch
<1>6. \A d \in Binding : ~BeingMade(stack', d)
  BY <1>3 DEF BeingMade
<1>7. ASSUME NEW d \in Binding PROVE BeingMade(stack, d) <=> d = b
  <2>1. Last(stack) = Head(stack)
    BY <1>1, <1>2, <1>3, StackPop DEF Types
  <2>2. QED
    BY <1>1, <1>3, <2>1 DEF BeingMade, Handler
<1>8. PartsMatch'
  <2>1. ASSUME NEW d \in Binding PROVE Parts(d)'
    <3>1. Parts(d)
      BY DEF BindInv, PartsMatch
    <3>2. d \in listed' <=> d \in listed \/ d = b
      BY <1>1
    <3>3. d \in listed <=> bindings[d] # Gone /\ d # b
      BY <1>7, <3>1 DEF Parts
    <3>4. d = b => bindings[d] # Gone
      BY <1>7, <3>1 DEF Parts
    <3>5. QED
      BY <1>1, <1>6, <3>1, <3>2, <3>3, <3>4 DEF Parts, Live
  <2>2. listed' = channel_handler'
    BY <1>1 DEF BindInv, PartsMatch
  <2>3. QED
    BY <2>1, <2>2 DEF PartsMatch
<1>9. Types'
  BY <1>1, <1>2, <1>3, <1>4 DEF Types
<1>10. QED
  BY <1>5, <1>8, <1>9 DEF BindInv

-----------------------------------------------------------------------------
(* The program's own steps.                                                *)

LEMMA UnbindBind ==
    ASSUME BindInv, NEW b \in Binding, Unbind(b)
    PROVE  BindInv'
<1>1. /\ b \in listed \cap object_handler /\ b \notin Running("channel_notify")
      /\ UNCHANGED <<blconf_refcnt, chan, cache, object, blocks, stack>>
      /\ object_block' = object_block /\ channel_block' = channel_block
  BY DEF Unbind, chanVars, blocks
<1>2. Types /\ BlocksMatch /\ Parts(b)
  BY DEF BindInv, PartsMatch
<1>3. object_block[b] = 0
  <2>1. Calls(stack, "channel_notify", b) = 0
    <3>1. /\ Calls(stack, "channel_notify", b) \in Nat
          /\ ~(Calls(stack, "channel_notify", b) > 0)
      BY <1>1, <1>2, RunningIsCalled DEF Running, HandlerName, Types
    <3>2. QED
      BY <3>1
  <2>2. QED
    BY <1>2, <2>1 DEF BlocksMatch
<1>4. BlocksMatch'
  BY <1>1, <1>2, BlocksStay
<1>5. CASE b \in Running("object_notify")
  <2>1. /\ object_handler' = object_handler \ {b}
        /\ UNCHANGED <<bindings, listed, channel_handler>>
    BY <1>5 DEF Unbind
  <2>2. channel_block[b] > 0
    <3>1. Calls(stack, "object_notify", b) > 0
      BY <1>2, <1>5, RunningIsCalled DEF Running, HandlerName, Types
    <3>2. QED
      BY <1>2, <3>1 DEF BlocksMatch
  <2>3. ASSUME NEW d \in Binding PROVE Parts(d)'
    <3>1. Parts(d)
      BY DEF BindInv, PartsMatch
    <3>2. BeingMade(stack', d) <=> BeingMade(stack, d)
      BY <1>1
    <3>3. CASE d = b
      <4>1. ~BeingMade(stack, b)
        BY <1>1, <1>2 DEF Parts
      <4>2. QED
        BY <1>1, <1>2, <1>3, <2>1, <2>2, <3>2, <3>3, <4>1 DEF Parts, Live
    <3>4. CASE d # b
      BY <1>1, <2>1, <3>1, <3>2, <3>4 DEF Parts, Live
    <3>5. QED
      BY <3>3, <3>4
  <2>4. PartsMatch'
    BY <2>1, <2>3 DEF BindInv, PartsMatch
  <2>5. Types'
    BY <1>1, <1>2, <2>1 DEF Types
  <2>6. QED
    BY <1>4, <2>4, <2>5 DEF BindInv
<1>6. CASE b \notin Running("object_notify")
  <2>1. ObjectDisconnect({b})
    BY <1>6 DEF Unbind
  <2>2. object_block'[b] = 0 /\ ~BeingMade(stack', b)
    BY <1>1, <1>2, <1>3 DEF Parts
  <2>3. ASSUME NEW d \in Binding, bindings[d] # Gone
        PROVE  /\ chan'[bindings[d].channel] = "live" /\ object'[bindings[d].object] # Gone
               /\ blconf_refcnt' > 0
    <3>1. Parts(d)
      BY DEF BindInv, PartsMatch
    <3>2. QED
      BY <1>1, <2>3, <3>1 DEF Parts, Live
  <2>4. {b} \in SUBSET Binding
    OBVIOUS
  <2>5. /\ PartsMatch'
        /\ bindings' \in [Binding -> BindingData \cup {Gone}]
        /\ \A d \in Binding : bindings'[d] \in Bindable[d] \cup {Gone}
        /\ listed' \in SUBSET Binding /\ object_handler' \in SUBSET Binding
        /\ channel_handler' \in SUBSET Binding
    BY <1>1, <2>1, <2>2, <2>3, <2>4, PartsGo
  <2>6. Types'
    BY <1>1, <1>2, <2>5 DEF Types
  <2>7. QED
    BY <1>4, <2>5, <2>6 DEF BindInv
<1>7. QED
  BY <1>5, <1>6

\* Bindings that end while no call is in progress, with what else ends: what
\* is left belongs to channels and objects that live.
LEMMA QuietEnd ==
    ASSUME BindInv, MainLoop, NEW S \in SUBSET Binding, ObjectDisconnect(S),
           UNCHANGED <<object_block, channel_block, stack>>,
           blconf_refcnt' \in 0..MaxInit,
           chan' \in [Chan -> {"none", "live", "gone"}],
           cache' \in [Chan -> [Path -> Val \cup {Unset}]],
           object' \in [Obj -> UNION {ObjVal[o] \cup {Gone} : o \in Obj}],
           \A o \in Obj : object'[o] \in ObjVal[o] \cup {Gone},
           \A b \in listed \ S : /\ chan'[bindings[b].channel] = "live"
                                 /\ object'[bindings[b].object] # Gone
                                 /\ blconf_refcnt' > 0
    PROVE  BindInv'
<1>1. Types /\ BlocksMatch
  BY DEF BindInv
<1>2. BlocksMatch'
  BY <1>1, BlocksStay DEF blocks
<1>3. \A b \in Binding : /\ object_block[b] = 0
                         /\ bindings[b] # Gone <=> b \in listed
                         /\ ~BeingMade(stack, b)
  BY QuietIsWhole
<1>4. \A b \in S : object_block'[b] = 0 /\ ~BeingMade(stack', b)
  BY <1>3
<1>5. \A b \in Binding \ S : /\ object_block'[b] = object_block[b]
                             /\ channel_block'[b] = channel_block[b]
                             /\ BeingMade(stack', b) <=> BeingMade(stack, b)
                             /\ bindings[b] # Gone =>
                                   /\ chan'[bindings[b].channel] = "live"
                                   /\ object'[bindings[b].object] # Gone
                                   /\ blconf_refcnt' > 0
  <2>1. ASSUME NEW b \in Binding \ S, bindings[b] # Gone
        PROVE  /\ chan'[bindings[b].channel] = "live" /\ object'[bindings[b].object] # Gone
               /\ blconf_refcnt' > 0
    <3>1. b \in listed \ S
      BY <1>3, <2>1
    <3>2. QED
      BY <3>1
  <2>2. QED
    BY <2>1
<1>6. /\ PartsMatch'
      /\ bindings' \in [Binding -> BindingData \cup {Gone}]
      /\ \A d \in Binding : bindings'[d] \in Bindable[d] \cup {Gone}
      /\ listed' \in SUBSET Binding /\ object_handler' \in SUBSET Binding
      /\ channel_handler' \in SUBSET Binding
  BY <1>4, <1>5, PartsGo
<1>7. Types'
  BY <1>1, <1>6 DEF Types
<1>8. QED
  BY <1>2, <1>6, <1>7 DEF BindInv

\* Without a call in progress, what is listed has a channel and an object.
LEMMA QuietIsLive ==
    ASSUME BindInv, MainLoop, NEW b \in listed
    PROVE  /\ b \in Binding /\ bindings[b].channel \in Chan /\ bindings[b].object \in Obj
           /\ Live(bindings[b].channel) /\ object[bindings[b].object] # Gone
           /\ blconf_refcnt > 0 /\ b \in object_handler /\ b \in channel_handler
<1>1. b \in Binding /\ bindings \in [Binding -> BindingData \cup {Gone}]
  BY DEF BindInv, Types
<1>2. bindings[b] # Gone /\ b \in object_handler /\ b \in channel_handler
  BY <1>1, QuietIsWhole
<1>3. Parts(b)
  BY <1>1 DEF BindInv, PartsMatch
<1>4. QED
  BY <1>1, <1>2, <1>3, DataKinds DEF Parts

LEMMA UnbindAllBind ==
    ASSUME BindInv, UnbindAll
    PROVE  BindInv'
<1>1. MainLoop /\ Types /\ UNCHANGED <<chanVars, object, blocks, stack>>
  BY DEF UnbindAll, BindInv
<1>2. \A b \in listed : Live(bindings[b].channel) /\ object[bindings[b].object] # Gone
                          /\ blconf_refcnt > 0
  BY <1>1, QuietIsLive
<1>3. PICK S \in SUBSET Binding : ObjectDisconnect(S)
  <2>1. CASE \E c \in Chan : OfChannel({c}) # {} /\ ChannelDisconnect(OfChannel({c}))
    <3>1. PICK c \in Chan : ChannelDisconnect(OfChannel({c}))
      BY <2>1
    <3>2. OfChannel({c}) \in SUBSET Binding
      BY <1>1 DEF OfChannel, Types
    <3>3. QED
      BY <3>1, <3>2 DEF ChannelDisconnect
  <2>2. CASE \E o \in Obj : OfObject(o) # {} /\ ObjectDisconnect(OfObject(o))
    <3>1. PICK o \in Obj : ObjectDisconnect(OfObject(o))
      BY <2>2
    <3>2. OfObject(o) \in SUBSET Binding
      BY <1>1 DEF OfObject, Types
    <3>3. QED
      BY <3>1, <3>2
  <2>3. QED
    BY <2>1, <2>2 DEF UnbindAll
<1>4. QED
  BY <1>1, <1>2, <1>3, QuietEnd DEF Types, chanVars, blocks, Live

\* What is left of channels that are disposed of.
LEMMA DisposeKinds ==
    ASSUME Types, NEW S, Dispose(S)
    PROVE  /\ chan' \in [Chan -> {"none", "live", "gone"}]
           /\ cache' \in [Chan -> [Path -> Val \cup {Unset}]]
           /\ \A c \in Chan \ S : chan'[c] = chan[c]
BY DEF Types, Dispose

LEMMA FinalizeChannelBind ==
    ASSUME BindInv, NEW c \in Chan, FinalizeChannel(c)
    PROVE  BindInv'
<1> DEFINE S == OfChannel({c})
<1>1. /\ MainLoop /\ Types /\ UNCHANGED <<object, blocks, stack, blconf_refcnt>>
      /\ Dispose({c}) /\ ObjectDisconnect(S) /\ S \in SUBSET Binding
  BY DEF FinalizeChannel, BindInv, Unref, ChannelDisconnect, OfChannel, Types
<1>2. ASSUME NEW b \in listed \ S
      PROVE  /\ chan'[bindings[b].channel] = "live"
             /\ object'[bindings[b].object] # Gone
             /\ blconf_refcnt' > 0
  <2>1. /\ bindings[b].channel \in Chan /\ Live(bindings[b].channel)
        /\ object[bindings[b].object] # Gone /\ blconf_refcnt > 0 /\ b \in channel_handler
    BY <1>1, QuietIsLive
  <2>2. bindings[b].channel # c
    BY <2>1 DEF OfChannel
  <2>3. chan'[bindings[b].channel] = chan[bindings[b].channel]
    BY <1>1, <2>1, <2>2, DisposeKinds
  <2>4. QED
    BY <1>1, <2>1, <2>3 DEF Live
<1> HIDE DEF S
<1>3. QED
  BY <1>1, <1>2, DisposeKinds, QuietEnd DEF Types, blocks

LEMMA FinalizeObjectBind ==
    ASSUME BindInv, NEW o \in Obj, FinalizeObject(o)
    PROVE  BindInv'
<1> DEFINE S == OfObject(o)
<1>1. /\ MainLoop /\ Types /\ UNCHANGED <<chanVars, blocks, stack>>
      /\ object' = [object EXCEPT ![o] = Gone]
      /\ ObjectDisconnect(S) /\ S \in SUBSET Binding
  BY DEF FinalizeObject, BindInv, OfObject, Types
<1>2. /\ object' \in [Obj -> UNION {ObjVal[x] \cup {Gone} : x \in Obj}]
      /\ \A x \in Obj : object'[x] \in ObjVal[x] \cup {Gone}
      /\ \A x \in Obj \ {o} : object'[x] = object[x]
  BY <1>1 DEF Types
<1>3. ASSUME NEW b \in listed \ S
      PROVE  /\ chan'[bindings[b].channel] = "live"
             /\ object'[bindings[b].object] # Gone
             /\ blconf_refcnt' > 0
  <2>1. /\ bindings[b].object \in Obj /\ Live(bindings[b].channel)
        /\ object[bindings[b].object] # Gone /\ blconf_refcnt > 0 /\ b \in object_handler
    BY <1>1, QuietIsLive
  <2>2. bindings[b].object # o
    BY <2>1 DEF OfObject
  <2>3. object'[bindings[b].object] = object[bindings[b].object]
    BY <1>2, <2>1, <2>2
  <2>4. QED
    BY <1>1, <2>1, <2>3 DEF Live, chanVars
<1> HIDE DEF S
<1>4. QED
  BY <1>1, <1>2, <1>3, QuietEnd DEF Types, blocks, chanVars

LEMMA ShutdownBind ==
    ASSUME BindInv, Shutdown
    PROVE  BindInv'
<1>1. /\ MainLoop /\ Types /\ BlocksMatch /\ UNCHANGED <<object, blocks, stack>>
      /\ blconf_refcnt > 0 /\ blconf_refcnt' = blconf_refcnt - 1
      /\ blconf_refcnt' \in 0..MaxInit
  <2>1. blconf_refcnt \in 0..MaxInit /\ MaxInit \in Nat
    BY ChannelAssumption DEF BindInv, Types
  <2>2. QED
    BY <2>1 DEF Shutdown, BlconfShutdown, BindInv
<1>2. CASE blconf_refcnt > 1
  <2>1. UNCHANGED <<chan, cache>> /\ UNCHANGED bindVars
    BY <1>2 DEF Shutdown, BlconfShutdown
  <2>2. blconf_refcnt' > 0
    BY <1>1, <1>2 DEF Types
  <2>3. PartsMatch'
    BY <1>1, <2>1, <2>2, PartsStay DEF Live, blocks
  <2>4. BlocksMatch'
    BY <1>1, BlocksStay
  <2>5. Types'
    BY <1>1, <2>1 DEF Types, bindVars, blocks
  <2>6. QED
    BY <2>3, <2>4, <2>5 DEF BindInv
<1>3. CASE ~(blconf_refcnt > 1)
  <2> DEFINE S == OfChannel(Singletons) \cup listed
  <2>1. Dispose(Singletons) /\ ObjectDisconnect(S) /\ S \in SUBSET Binding
    BY <1>1, <1>3 DEF Shutdown, BlconfShutdown, OfChannel, Types
  <2>2. listed \ S = {}
    OBVIOUS
  <2> HIDE DEF S
  <2>3. QED
    BY <1>1, <2>1, <2>2, DisposeKinds, QuietEnd DEF Types, blocks
<1>4. QED
  BY <1>2, <1>3

LEMMA InitLibraryBind ==
    ASSUME BindInv, InitLibrary
    PROVE  BindInv'
<1>1. /\ Types /\ BlocksMatch /\ UNCHANGED <<chan, cache, object, blocks, stack>>
      /\ UNCHANGED bindVars
      /\ blconf_refcnt' = blconf_refcnt + 1 /\ blconf_refcnt < MaxInit
  BY DEF InitLibrary, BlconfInit, BindInv
<1>2. blconf_refcnt' \in 0..MaxInit /\ blconf_refcnt' > 0
  <2>1. blconf_refcnt \in 0..MaxInit /\ MaxInit \in Nat
    BY <1>1, ChannelAssumption DEF Types
  <2>2. QED
    BY <1>1, <2>1
<1>3. PartsMatch'
  BY <1>1, <1>2, PartsStay DEF Live, blocks
<1>4. BlocksMatch'
  BY <1>1, BlocksStay
<1>5. Types'
  BY <1>1, <1>2 DEF Types, bindVars, blocks
<1>6. QED
  BY <1>3, <1>4, <1>5 DEF BindInv

LEMMA NewChannelBind ==
    ASSUME BindInv, NEW c \in Chan, NewChannel(c)
    PROVE  BindInv'
<1>1. /\ Types /\ BlocksMatch /\ UNCHANGED <<blconf_refcnt, object, blocks, stack>>
      /\ UNCHANGED bindVars
      /\ chan[c] = "none" /\ chan' = [chan EXCEPT ![c] = "live"]
  BY DEF NewChannel, Constructor, BindInv
<1>2. PICK stored \in [{p \in Path : IsPrefix(PropertyBase[c], p)} -> Val \cup {Unset}] :
         cache' = [cache EXCEPT ![c] =
                      [p \in Path |-> IF p \in DOMAIN stored THEN stored[p] ELSE cache[c][p]]]
  BY DEF NewChannel, Constructor
<1>3. cache' \in [Chan -> [Path -> Val \cup {Unset}]]
  <2>1. cache[c] \in [Path -> Val \cup {Unset}]
    BY <1>1 DEF Types
  <2>2. [p \in Path |-> IF p \in DOMAIN stored THEN stored[p] ELSE cache[c][p]]
          \in [Path -> Val \cup {Unset}]
    BY <2>1
  <2>3. QED
    BY <1>1, <1>2, <2>2 DEF Types
<1>4. \A d \in Chan : Live(d) => Live(d)'
  BY <1>1 DEF Live, Types
<1>5. PartsMatch'
  BY <1>1, <1>4, PartsStay DEF blocks
<1>6. BlocksMatch'
  BY <1>1, BlocksStay
<1>7. Types'
  BY <1>1, <1>3 DEF Types, bindVars, blocks
<1>8. QED
  BY <1>5, <1>6, <1>7 DEF BindInv

\* The first call of a change: nothing was in progress before.
LEMMA FirstCall ==
    ASSUME BindInv, MainLoop, NEW f \in Emissions \cup Notifies, stack' = <<f>>
    PROVE  /\ stack' \in Seq(Frame) /\ Len(stack') = 1 /\ stack'[1] = f
           /\ \A fn \in HandlerName, b \in Binding : Calls(stack', fn, b) = 0
           /\ InitIsOutermost(stack')
           /\ \A b \in Binding : ~BeingMade(stack', b) /\ ~BeingMade(stack, b)
           /\ \A b \in Binding : object_block[b] = 0 /\ channel_block[b] = 0
<1>1. f \in Frame /\ \A fn \in HandlerName, b \in Binding : f # Handler(fn, b)
  BY HandlersDiffer DEF Frame
<1>2. /\ stack' = <<f>> \o <<>> /\ <<>> \in Seq(Frame) /\ Len(stack') = 1 /\ stack'[1] = f
      /\ stack' \in Seq(Frame) /\ stack' # <<>>
  BY <1>1
<1>3. ASSUME NEW fn \in HandlerName, NEW b \in Binding PROVE Calls(stack', fn, b) = 0
  <2>1. Calls(<<>>, fn, b) = 0
    BY <1>2, RunningIsCalled
  <2>2. Calls(stack', fn, b) = Calls(<<>>, fn, b) + IF f = Handler(fn, b) THEN 1 ELSE 0
    <3>1. PICK s \in Seq(Frame) : s = <<>>
      BY <1>2
    <3>2. Calls(<<f>> \o s, fn, b) = Calls(s, fn, b) + IF f = Handler(fn, b) THEN 1 ELSE 0
      BY <1>1, StackPush
    <3>3. stack' = <<f>> \o s
      BY <1>2, <3>1
    <3>4. QED
      BY <3>1, <3>2, <3>3
  <2>3. QED
    BY <1>1, <1>2, <2>1, <2>2
<1>4. InitIsOutermost(stack')
  BY <1>2 DEF InitIsOutermost
<1>5. ASSUME NEW b \in Binding PROVE ~BeingMade(stack', b)
  <2>1. Last(stack') = f
    BY <1>2 DEF Last
  <2>2. QED
    BY <1>1, <2>1 DEF BeingMade, HandlerName
<1>6. \A b \in Binding : ~BeingMade(stack, b) /\ object_block[b] = 0 /\ channel_block[b] = 0
  BY QuietIsWhole
<1>7. QED
  BY <1>2, <1>3, <1>4, <1>5, <1>6

LEMMA ObjectSetBind ==
    ASSUME BindInv, NEW o \in Obj, NEW x \in ObjVal[o], ObjectSet(o, x)
    PROVE  BindInv'
<1>1. /\ MainLoop /\ Types /\ BlocksMatch /\ UNCHANGED chanVars /\ UNCHANGED bindVars
      /\ object_block' = object_block /\ channel_block' = channel_block
      /\ object' = [object EXCEPT ![o] = x] /\ stack' = <<Notify(o)>>
  BY DEF ObjectSet, BindInv, blocks
<1>2. Notify(o) \in Notifies
  BY <1>1, EmissionKinds
<1>3. /\ stack' \in Seq(Frame) /\ InitIsOutermost(stack')
      /\ \A fn \in HandlerName, b \in Binding : Calls(stack', fn, b) = 0
      /\ \A b \in Binding : /\ ~BeingMade(stack', b) /\ ~BeingMade(stack, b)
                            /\ object_block[b] = 0 /\ channel_block[b] = 0
  BY <1>1, <1>2, FirstCall
<1>4. /\ object' \in [Obj -> UNION {ObjVal[y] \cup {Gone} : y \in Obj}]
      /\ \A y \in Obj : object'[y] \in ObjVal[y] \cup {Gone}
      /\ \A y \in Obj : object[y] # Gone => object'[y] # Gone
  <2>1. x # Gone
    BY BindingAssumption
  <2>2. QED
    BY <1>1, <2>1 DEF Types
<1>5. Types'
  BY <1>1, <1>3, <1>4 DEF Types, chanVars, bindVars
<1>6. BlocksMatch'
  BY <1>1, <1>3 DEF BlocksMatch, HandlerName
<1>7. PartsMatch'
  BY <1>1, <1>3, <1>4, PartsStay DEF Live, chanVars
<1>8. QED
  BY <1>5, <1>6, <1>7 DEF BindInv

LEMMA CacheChangesBind ==
    ASSUME BindInv, NEW c \in Chan, NEW path \in Path, NEW v \in Val \cup {Unset},
           CacheChanges(c, path, v)
    PROVE  BindInv'
<1>1. /\ MainLoop /\ Types /\ BlocksMatch /\ UNCHANGED <<blconf_refcnt, chan, object>>
      /\ UNCHANGED bindVars
      /\ object_block' = object_block /\ channel_block' = channel_block
      /\ Store(c, path, v) /\ stack' = <<Emit(c, path, v)>>
  BY DEF CacheChanges, BindInv, blocks
<1>2. Emit(c, path, v) \in Emissions
  BY <1>1, EmissionKinds
<1>3. /\ stack' \in Seq(Frame) /\ InitIsOutermost(stack')
      /\ \A fn \in HandlerName, b \in Binding : Calls(stack', fn, b) = 0
      /\ \A b \in Binding : /\ ~BeingMade(stack', b) /\ ~BeingMade(stack, b)
                            /\ object_block[b] = 0 /\ channel_block[b] = 0
  BY <1>1, <1>2, FirstCall
<1>4. cache' \in [Chan -> [Path -> Val \cup {Unset}]]
  BY <1>1, StoreKinds DEF Types
<1>5. Types'
  BY <1>1, <1>3, <1>4 DEF Types, bindVars
<1>6. BlocksMatch'
  BY <1>1, <1>3 DEF BlocksMatch, HandlerName
<1>7. PartsMatch'
  BY <1>1, <1>3, PartsStay DEF Live
<1>8. QED
  BY <1>5, <1>6, <1>7 DEF BindInv

\* A silent change touches the cache alone.
LEMMA CacheIsSilentKinds ==
    ASSUME NEW c \in Chan, CacheIsSilent(c), cache \in [Chan -> [Path -> Val \cup {Unset}]]
    PROVE  /\ MainLoop /\ UNCHANGED <<blconf_refcnt, chan, object, bindVars, blocks, stack>>
           /\ cache' \in [Chan -> [Path -> Val \cup {Unset}]]
           /\ \A d \in Chan, p \in Path :
                 <<d, p>> \notin silent' => cache'[d][p] = cache[d][p]
           /\ silent \subseteq silent' /\ silent' \subseteq silent \cup (Chan \X Path)
<1>1. MainLoop /\ UNCHANGED <<blconf_refcnt, chan, object, bindVars, blocks, stack>>
  BY DEF CacheIsSilent
<1>2. cache[c] \in [Path -> Val \cup {Unset}]
  OBVIOUS
<1>3. CASE \E p \in Path, v \in Val : Lookup(c, p, v)
  <2>1. PICK p \in Path, v \in Val : Lookup(c, p, v)
    BY <1>3
  <2>2. /\ Keeps(cache, cache')
        /\ \A d \in Chan, q \in Path : d # c \/ q # p => cache'[d][q] = cache[d][q]
        /\ \/ cache' = cache /\ silent' = silent
           \/ cache[c][p] = Unset /\ silent' = silent \cup {<<c, p>>}
    BY <2>1, LookupKinds
  <2>3. QED
    BY <1>1, <2>2 DEF Keeps
<1>4. CASE \E p \in Path, v \in Val \cup {Unset} : SetFails(c, p, v)
  <2>1. PICK p \in Path, v \in Val \cup {Unset} : StoreSilently(c, p, v)
    BY <1>4 DEF SetFails
  <2>2. cache' = [cache EXCEPT ![c] = [cache[c] EXCEPT ![p] = v]]
    BY <2>1 DEF StoreSilently
  <2>3. [cache[c] EXCEPT ![p] = v] \in [Path -> Val \cup {Unset}]
    BY <1>2
  <2>4. cache' \in [Chan -> [Path -> Val \cup {Unset}]]
    BY <2>2, <2>3
  <2>5. \A d \in Chan, q \in Path : d # c \/ q # p => cache'[d][q] = cache[d][q]
    BY <1>2, <2>2, <2>3
  <2>6. silent' = silent \cup {<<c, p>>}
    BY <2>1 DEF StoreSilently
  <2>7. QED
    BY <1>1, <2>4, <2>5, <2>6
<1>5. CASE \E S \in SUBSET Path : Evict(c, S)
  <2>1. PICK S \in SUBSET Path : Evict(c, S)
    BY <1>5
  <2>2. cache' = [cache EXCEPT ![c] = [p \in Path |-> IF p \in S THEN Unset ELSE cache[c][p]]]
    BY <2>1 DEF Evict
  <2>3. [p \in Path |-> IF p \in S THEN Unset ELSE cache[c][p]] \in [Path -> Val \cup {Unset}]
    BY <1>2
  <2>4. cache' \in [Chan -> [Path -> Val \cup {Unset}]]
    BY <2>2, <2>3
  <2>5. \A d \in Chan, q \in Path : d # c \/ q \notin S => cache'[d][q] = cache[d][q]
    BY <1>2, <2>2, <2>3
  <2>6. silent' = silent \cup {<<c, p>> : p \in {q \in S : cache[c][q] # Unset}}
    BY <2>1 DEF Evict
  <2>7. \A q \in Path : q \in S /\ <<c, q>> \notin silent' => cache'[c][q] = cache[c][q]
    BY <1>2, <2>2, <2>3, <2>6
  <2>8. QED
    BY <1>1, <2>4, <2>5, <2>6, <2>7
<1>6. QED
  BY <1>3, <1>4, <1>5 DEF CacheIsSilent

LEMMA CacheIsSilentBind ==
    ASSUME BindInv, NEW c \in Chan, CacheIsSilent(c)
    PROVE  BindInv'
<1>1. /\ Types /\ BlocksMatch /\ UNCHANGED <<blconf_refcnt, chan, object, blocks, stack>>
      /\ UNCHANGED bindVars /\ cache' \in [Chan -> [Path -> Val \cup {Unset}]]
  BY CacheIsSilentKinds DEF BindInv, Types
<1>2. PartsMatch'
  BY <1>1, PartsStay DEF Live, blocks
<1>3. BlocksMatch'
  BY <1>1, BlocksStay
<1>4. Types'
  BY <1>1 DEF Types, bindVars, blocks
<1>5. QED
  BY <1>2, <1>3, <1>4 DEF BindInv

\* A new binding, up to the transfer of the channel's value.
LEMMA BindBind ==
    ASSUME BindInv, NEW b \in Binding, NEW bd \in Bindable[b], Bind(b, bd)
    PROVE  BindInv'
<1> DEFINE c == bd.channel
           o == bd.object
           init == Handler("init", b)
           note == Handler("channel_notify", b)
<1>1. /\ MainLoop /\ Types /\ BlocksMatch /\ stack = <<>>
      /\ bindings[b] = Gone /\ Live(c) /\ object[o] # Gone /\ blconf_refcnt > 0
      /\ bindings' = [bindings EXCEPT ![b] = bd]
      /\ object_handler' = object_handler \cup {b}
      /\ blconf_refcnt' = blconf_refcnt /\ chan' = chan
      /\ listed' = listed /\ channel_handler' = channel_handler
      /\ channel_block' = channel_block
  BY DEF Bind, BindInv, MainLoop, Unbound
<1>3. bd \in BindingData /\ bd # Gone /\ c \in Chan /\ o \in Obj
      /\ RealProp(c, bd.blconf_property) \in Path
  <2>1. bd \in BindingData
    BY DEF BindingData
  <2>2. QED
    BY <2>1, DataKinds
<1>20. PICK v \in Val \cup {Unset} :
         /\ Lookup(c, RealProp(c, bd.blconf_property), v)
         /\ Transfer(b, o, v)
  BY DEF Bind
<1>2. cache' \in [Chan -> [Path -> Val \cup {Unset}]]
  BY <1>1, <1>3, <1>20, LookupKinds DEF Types, Keeps
<1> DEFINE x == NewObjectValue(o, v)
<1>4. /\ init \in Frame /\ note \in Frame /\ init # note /\ init.fn = "init" /\ note.fn # "init"
      /\ \A fn \in HandlerName, d \in Binding :
            /\ init = Handler(fn, d) <=> fn = "init" /\ d = b
            /\ note = Handler(fn, d) <=> fn = "channel_notify" /\ d = b
  <2>1. "init" \in HandlerName /\ "channel_notify" \in HandlerName
    BY DEF HandlerName
  <2>2. init \in Frame /\ note \in Frame
    BY <2>1, HandlersDiffer
  <2>3. \A fn \in HandlerName, d \in Binding :
            /\ init = Handler(fn, d) <=> fn = "init" /\ d = b
            /\ note = Handler(fn, d) <=> fn = "channel_notify" /\ d = b
    BY DEF Handler
  <2>4. QED
    BY <2>1, <2>2, <2>3 DEF Handler
<1>5. \A d \in Binding : /\ object_block[d] = 0 /\ channel_block[d] = 0
                         /\ bindings[d] # Gone <=> d \in listed
                         /\ d \in listed <=> d \in object_handler
                         /\ ~BeingMade(stack, d)
  BY <1>1, QuietIsWhole
<1> HIDE DEF init, note, x, c, o
<1>6. PICK e \in Seq(Frame) :
         /\ e = <<>> /\ InitIsOutermost(e)
         /\ \A fn \in HandlerName, d \in Binding : Calls(e, fn, d) = 0
  <2>1. <<>> \in Seq(Frame)
    OBVIOUS
  <2>2. InitIsOutermost(<<>>)
    BY DEF InitIsOutermost
  <2>3. QED
    BY <2>1, <2>2, RunningIsCalled
<1>7. PICK r \in Seq(Frame) :
         /\ r = <<init>> /\ r # <<>> /\ InitIsOutermost(r) /\ Last(r) = init
         /\ \A fn \in HandlerName, d \in Binding :
               Calls(r, fn, d) = IF fn = "init" /\ d = b THEN 1 ELSE 0
  <2> DEFINE r == <<init>> \o e
  <2>1. r = <<init>>
    BY <1>4, <1>6
  <2>2. /\ r \in Seq(Frame) /\ r # <<>> /\ InitIsOutermost(r) /\ Last(r) = init
        /\ \A fn \in HandlerName, d \in Binding :
              Calls(r, fn, d) = Calls(e, fn, d) + IF init = Handler(fn, d) THEN 1 ELSE 0
    BY <1>4, <1>6, StackPush
  <2> HIDE DEF r
  <2>3. \A fn \in HandlerName, d \in Binding :
           Calls(r, fn, d) = IF fn = "init" /\ d = b THEN 1 ELSE 0
    BY <1>4, <1>6, <2>2
  <2>4. QED
    BY <2>1, <2>2, <2>3
<1>8. \/ /\ object' = object /\ object_block' = object_block
         /\ stack' = r
      \/ /\ x \in ObjVal[o] /\ x # Gone /\ object' = [object EXCEPT ![o] = x]
         /\ object_block' = [object_block EXCEPT ![b] = @ + 1]
         /\ stack' = <<Notify(o), note, init>>
  <2>1. x \in ObjVal[o] \cup {Fail}
    BY <1>3, <1>20, NewValueKinds DEF x
  <2>2. Gone \notin ObjVal[o]
    BY <1>3, BindingAssumption
  <2>3. QED
    BY <1>20, <1>7, <2>1, <2>2 DEF Transfer, x, init, note
<1>9. /\ stack' \in Seq(Frame) /\ stack' # <<>> /\ InitIsOutermost(stack') /\ Last(stack') = init
      /\ \A d \in Binding :
            /\ Calls(stack', "object_notify", d) = 0
            /\ object_block'[d] = Calls(stack', "channel_notify", d)
            /\ object_block'[d] \in Nat
            /\ object_block'[d] > 0 => d = b
      /\ object_block' \in [Binding -> Nat]
      /\ object' \in [Obj -> UNION {ObjVal[y] \cup {Gone} : y \in Obj}]
      /\ \A y \in Obj : object'[y] \in ObjVal[y] \cup {Gone}
      /\ \A y \in Obj : object[y] # Gone => object'[y] # Gone
  <2>1. CASE object' = object /\ object_block' = object_block /\ stack' = r
    BY <1>1, <1>5, <1>7, <2>1 DEF Types, HandlerName
  <2>2. CASE /\ x \in ObjVal[o] /\ x # Gone /\ object' = [object EXCEPT ![o] = x]
             /\ object_block' = [object_block EXCEPT ![b] = @ + 1]
             /\ stack' = <<Notify(o), note, init>>
    <3>1. Notify(o) \in Notifies /\ Notify(o) \in Frame /\ Notify(o).fn = "notify"
      BY <1>1, <1>3, EmissionKinds
    <3>2. PICK n \in Notifies : n = Notify(o) /\ n \in Frame /\ n.fn = "notify"
      BY <3>1
    <3>3. PICK t \in Seq(Frame) :
             /\ t = <<note>> \o r /\ t # <<>> /\ InitIsOutermost(t) /\ Last(t) = init
             /\ \A fn \in HandlerName, d \in Binding :
                   Calls(t, fn, d) = Calls(r, fn, d) + IF note = Handler(fn, d) THEN 1 ELSE 0
      <4> DEFINE t == <<note>> \o r
      <4>1. /\ t \in Seq(Frame) /\ t # <<>> /\ InitIsOutermost(t) /\ Last(t) = init
            /\ \A fn \in HandlerName, d \in Binding :
                  Calls(t, fn, d) = Calls(r, fn, d) + IF note = Handler(fn, d) THEN 1 ELSE 0
        BY <1>4, <1>7, StackPush
      <4> HIDE DEF t
      <4>2. QED
        BY <4>1 DEF t
    <3>4. /\ <<n>> \o t \in Seq(Frame) /\ <<n>> \o t # <<>> /\ InitIsOutermost(<<n>> \o t)
          /\ Last(<<n>> \o t) = init
          /\ \A fn \in HandlerName, d \in Binding :
                Calls(<<n>> \o t, fn, d) = Calls(t, fn, d) + IF n = Handler(fn, d) THEN 1 ELSE 0
      BY <3>2, <3>3, StackPush
    <3>5. stack' = <<n>> \o t
      BY <1>4, <1>7, <2>2, <3>2, <3>3, InFront
    <3>6. ASSUME NEW d \in Binding
          PROVE  /\ Calls(stack', "object_notify", d) = 0
                 /\ Calls(stack', "channel_notify", d) = IF d = b THEN 1 ELSE 0
      <4>1. \A fn \in HandlerName : n # Handler(fn, d)
        BY <3>2, HandlersDiffer
      <4>2. \A fn \in HandlerName :
               Calls(stack', fn, d) = (IF fn = "init" /\ d = b THEN 1 ELSE 0)
                                        + (IF fn = "channel_notify" /\ d = b THEN 1 ELSE 0)
        <5>1. ASSUME NEW fn \in HandlerName
              PROVE  Calls(stack', fn, d) = (IF fn = "init" /\ d = b THEN 1 ELSE 0)
                                               + (IF fn = "channel_notify" /\ d = b THEN 1 ELSE 0)
          <6>1. Calls(r, fn, d) = IF fn = "init" /\ d = b THEN 1 ELSE 0
            BY <1>7
          <6>2. Calls(t, fn, d) = Calls(r, fn, d) + IF note = Handler(fn, d) THEN 1 ELSE 0
            BY <3>3
          <6>3. note = Handler(fn, d) <=> fn = "channel_notify" /\ d = b
            BY <1>4
          <6>4. Calls(stack', fn, d) = Calls(t, fn, d) + IF n = Handler(fn, d) THEN 1 ELSE 0
            BY <3>4, <3>5
          <6>5. n # Handler(fn, d)
            BY <4>1
          <6>6. QED
            BY <6>1, <6>2, <6>3, <6>4, <6>5
        <5>2. QED
          BY <5>1
      <4>3. QED
        BY <4>2 DEF HandlerName
    <3>7. \A d \in Binding : object_block'[d] = IF d = b THEN 1 ELSE 0
      BY <1>1, <1>5, <2>2 DEF Types
    <3>8. object_block' \in [Binding -> Nat]
      BY <1>1, <2>2 DEF Types
    <3>9. /\ object' \in [Obj -> UNION {ObjVal[y] \cup {Gone} : y \in Obj}]
          /\ \A y \in Obj : object'[y] \in ObjVal[y] \cup {Gone}
          /\ \A y \in Obj : object[y] # Gone => object'[y] # Gone
      BY <1>1, <1>3, <2>2 DEF Types
    <3>10. QED
      BY <3>4, <3>5, <3>6, <3>7, <3>8, <3>9
  <2>3. QED
    BY <1>8, <2>1, <2>2
<1>10. Types'
  <2>1. bindings' \in [Binding -> BindingData \cup {Gone}]
    BY <1>1, <1>3 DEF Types
  <2>3. \A d \in Binding : bindings'[d] \in Bindable[d] \cup {Gone}
    BY <1>1 DEF Types
  <2>2. QED
    BY <1>1, <1>2, <1>9, <2>1, <2>3 DEF Types
<1>11. BlocksMatch'
  BY <1>1, <1>5, <1>9 DEF BlocksMatch
<1>12. PartsMatch'
  <2>1. ASSUME NEW d \in Binding PROVE Parts(d)'
    <3>1. BeingMade(stack', d) <=> d = b
      <4>1. init = Handler("init", d) <=> d = b
        BY <1>4 DEF HandlerName
      <4>2. QED
        BY <1>9, <4>1 DEF BeingMade
    <3>2. CASE d = b
      <4>1. bindings'[b] = bd /\ bindings'[b].channel = c /\ bindings'[b].object = o
        BY <1>1, <1>3 DEF Types, c, o
      <4>2. b \notin listed
        BY <1>1, <1>5
      <4>3. object'[o] # Gone
        BY <1>1, <1>3, <1>9
      <4>4. QED
        BY <1>1, <1>3, <3>1, <3>2, <4>1, <4>2, <4>3 DEF Parts, Live
    <3>3. CASE d # b
      <4>1. bindings'[d] = bindings[d] /\ Parts(d)
        BY <1>1, <3>3 DEF Types, BindInv, PartsMatch
      <4>2. bindings[d] # Gone => bindings[d].object \in Obj
        BY <1>1, DataKinds DEF Types
      <4>3. bindings[d] # Gone => object'[bindings[d].object] # Gone
        BY <1>9, <4>1, <4>2 DEF Parts
      <4>4. QED
        BY <1>1, <1>5, <1>9, <3>1, <3>3, <4>1, <4>3 DEF Parts, Live
    <3>4. QED
      BY <3>2, <3>3
  <2>2. QED
    BY <1>1, <2>1 DEF BindInv, PartsMatch
<1>13. QED
  BY <1>10, <1>11, <1>12 DEF BindInv

LEMMA InitBind == Init => BindInv
<1> SUFFICES ASSUME Init PROVE BindInv
  OBVIOUS
<1>1. /\ blconf_refcnt = 0 /\ chan = [c \in Chan |-> "none"]
      /\ cache = [c \in Chan |-> [p \in Path |-> Unset]]
      /\ object = Default
      /\ bindings = [b \in Binding |-> Gone] /\ listed = {}
      /\ object_handler = {} /\ channel_handler = {}
      /\ object_block = [b \in Binding |-> 0] /\ channel_block = [b \in Binding |-> 0]
      /\ stack = <<>> /\ stack \in Seq(Frame)
  BY DEF Init
<1>2. Types
  <2>1. blconf_refcnt \in 0..MaxInit
    BY <1>1, ChannelAssumption
  <2>2. /\ object \in [Obj -> UNION {ObjVal[o] \cup {Gone} : o \in Obj}]
        /\ \A o \in Obj : object[o] \in ObjVal[o] \cup {Gone}
    BY <1>1, BindingAssumption
  <2>3. QED
    BY <1>1, <2>1, <2>2 DEF Types
<1>3. BlocksMatch
  <2>1. \A fn \in HandlerName, b \in Binding : Calls(stack, fn, b) = 0
    BY <1>1, RunningIsCalled
  <2>2. InitIsOutermost(stack)
    BY <1>1 DEF InitIsOutermost
  <2>3. QED
    BY <1>1, <2>1, <2>2 DEF BlocksMatch, HandlerName
<1>4. PartsMatch
  BY <1>1 DEF PartsMatch, Parts, BeingMade
<1>5. QED
  BY <1>2, <1>3, <1>4 DEF BindInv

LEMMA NextBind == BindInv /\ [Next]_vars => BindInv'
<1> SUFFICES ASSUME BindInv, [Next]_vars PROVE BindInv'
  OBVIOUS
<1>1. CASE Call
  BY <1>1, ObjectNotifyBind, ChannelNotifyBind DEF Call
<1>2. CASE Return
  BY <1>2, EmittedBind, ObjectNotifyReturnsBind, ChannelNotifyReturnsBind, BindReturnsBind
     DEF Return
<1>3. CASE Program
  BY <1>3, InitLibraryBind, ShutdownBind, UnbindAllBind, NewChannelBind, FinalizeChannelBind,
     FinalizeObjectBind, ObjectSetBind, UnbindBind, BindBind DEF Program
<1>4. CASE Cache
  BY <1>4, CacheChangesBind, CacheIsSilentBind DEF Cache
<1>5. CASE UNCHANGED vars
  <2>1. /\ UNCHANGED <<blconf_refcnt, chan, cache, object, listed, object_handler>>
        /\ UNCHANGED <<channel_handler, object_block, channel_block, stack, bindings>>
    BY <1>5 DEF vars, chanVars, bindVars, blocks
  <2>2. Types' /\ BlocksMatch'
    BY <2>1, BlocksStay DEF BindInv, Types, blocks
  <2>3. PartsMatch'
    BY <2>1, PartsStay DEF bindVars, Live
  <2>4. QED
    BY <2>2, <2>3 DEF BindInv
<1>6. QED
  BY <1>1, <1>2, <1>3, <1>4, <1>5 DEF Next

\* Whenever the main loop runs, the two handlers of a binding, its place in the
\* list and its data are all there, on a live channel and object and with
\* nothing blocked, or all gone: whatever unbinds it, and whichever of its own
\* calls was in progress then (the disconnect functions of blconf-binding.c).
THEOREM BindingsComeAndGoWhole == Spec => []BindingsAreWhole
<1>1. BindInv => BindingsAreWhole
  <2> SUFFICES ASSUME BindInv, MainLoop
               PROVE  /\ listed = object_handler /\ listed = channel_handler
                      /\ \A b \in Binding : (bindings[b] # Gone) = (b \in listed)
                      /\ \A b \in listed : Live(bindings[b].channel)
                                             /\ object[bindings[b].object] # Gone
                      /\ \A b \in Binding : object_block[b] = 0 /\ channel_block[b] = 0
                      /\ blconf_refcnt = 0 => listed = {}
    BY DEF BindingsAreWhole
  <2>1. \A b \in listed : /\ Live(bindings[b].channel) /\ object[bindings[b].object] # Gone
                          /\ blconf_refcnt > 0
    BY QuietIsLive
  <2>2. QED
    BY <2>1, QuietIsWhole
<1>2. QED
  BY <1>1, InitBind, NextBind, PTL DEF Spec

-----------------------------------------------------------------------------
(* The inductive invariant of NoEcho.                                      *)

\* An object that loses some of the channel's values has one binding at most.
Alone ==
    \A o \in Obj : Exact(o) \/ \A b, d \in Binding :
        /\ bindings[b] # Gone /\ bindings[b].object = o
        /\ bindings[d] # Gone /\ bindings[d].object = o
        => b = d

\* An object is notified of by a binding that sets it, unless the program did,
\* and the handlers still to be called are bindings of that object.
Nest(s, bs) ==
    \A i \in DOMAIN s : s[i].fn = "notify" =>
        /\ \A b \in s[i].todo : bs[b] = Gone \/ bs[b].object = s[i].o
        /\ \/ i = Len(s)
           \/ \E b \in Binding : /\ s[i + 1] = Handler("channel_notify", b)
                                 /\ bs[b] # Gone /\ bs[b].object = s[i].o

\* Every emission passes the same value on, in the object's form or the channel's.
Carries(f, v, obj) ==
    /\ f.fn = "property-changed" => f.v = v
    /\ f.fn = "notify" => ToObject[f.o][v] # Fail /\ obj[f.o] = ToObject[f.o][v]

AllCarry(s, v, obj) == \A i \in DOMAIN s : Carries(s[i], v, obj)

PassedOn ==
    stack # <<>> /\ Last(stack).fn = "property-changed" /\ Last(stack).v # Unset =>
        LET e == Last(stack)
        IN  /\ \A p \in Path : Relayed(e.c, p) = e.name => cache[e.c][p] = e.v
            /\ AllCarry(stack, e.v, object)

EchoInv == Alone /\ Nest(stack, bindings) /\ PassedOn

\* The calls behind the one in front.
LEMMA ConsAt ==
    ASSUME NEW s \in Seq(Frame), NEW m \in Frame
    PROVE  LET a == <<m>> \o s
           IN  /\ Len(s) \in Nat /\ DOMAIN s = 1..Len(s) /\ Len(a) = Len(s) + 1
               /\ DOMAIN a = 1..Len(a) /\ a[1] = m
               /\ \A i \in DOMAIN a : i # 1 => i - 1 \in DOMAIN s /\ a[i] = s[i - 1]
               /\ s # <<>> => 1 \in DOMAIN s /\ a[2] = Head(s)
<1> DEFINE a == <<m>> \o s
<1>1. /\ a \in Seq(Frame) /\ a # <<>> /\ Head(a) = m /\ Len(a) = Len(s) + 1
      /\ \A i \in 1..Len(s) : a[i + 1] = s[i]
  BY CountCons
<1>2. /\ Len(s) \in Nat /\ DOMAIN s = 1..Len(s) /\ DOMAIN a = 1..(Len(s) + 1) /\ a[1] = m
  BY <1>1, LenProperties, TailOf
<1> HIDE DEF a
<1>3. ASSUME NEW i \in DOMAIN a, i # 1 PROVE i - 1 \in DOMAIN s /\ a[i] = s[i - 1]
  <2>1. i - 1 \in 1..Len(s) /\ (i - 1) + 1 = i
    BY <1>2, <1>3
  <2>2. QED
    BY <1>1, <1>2, <2>1
<1>4. ASSUME s # <<>> PROVE 1 \in DOMAIN s /\ a[2] = Head(s)
  <2>1. 1 \in 1..Len(s) /\ Head(s) = s[1]
    BY <1>4, TailOf
  <2>2. a[1 + 1] = s[1]
    BY <1>1, <2>1
  <2>3. QED
    BY <1>2, <2>1, <2>2
<1>5. QED
  BY <1>1, <1>2, <1>3, <1>4 DEF a

\* A call in front of calls that nest well.
LEMMA NestPush ==
    ASSUME NEW s \in Seq(Frame), NEW m \in Frame, NEW bs, Nest(s, bs),
           m.fn = "notify" =>
               /\ \A b \in m.todo : bs[b] = Gone \/ bs[b].object = m.o
               /\ \/ s = <<>>
                  \/ \E b \in Binding : /\ Head(s) = Handler("channel_notify", b)
                                        /\ bs[b] # Gone /\ bs[b].object = m.o
    PROVE  Nest(<<m>> \o s, bs)
<1> DEFINE a == <<m>> \o s
<1>1. /\ Len(s) \in Nat /\ DOMAIN s = 1..Len(s) /\ Len(a) = Len(s) + 1
      /\ DOMAIN a = 1..Len(a) /\ a[1] = m
      /\ \A i \in DOMAIN a : i # 1 => i - 1 \in DOMAIN s /\ a[i] = s[i - 1]
      /\ s # <<>> => 1 \in DOMAIN s /\ a[2] = Head(s)
  BY ConsAt
<1> HIDE DEF a
<1>2. ASSUME NEW i \in DOMAIN a, a[i].fn = "notify"
      PROVE  /\ \A b \in a[i].todo : bs[b] = Gone \/ bs[b].object = a[i].o
             /\ \/ i = Len(a)
                \/ \E b \in Binding : /\ a[i + 1] = Handler("channel_notify", b)
                                      /\ bs[b] # Gone /\ bs[b].object = a[i].o
  <2>1. CASE i = 1
    <3>1. a[i] = m /\ (s = <<>> => i = Len(a))
      <4>1. s = <<>> => Len(s) = 0
        BY EmptySeq
      <4>2. QED
        BY <1>1, <2>1, <4>1
    <3>2. s # <<>> => a[i + 1] = Head(s)
      BY <1>1, <2>1
    <3>3. QED
      BY <1>2, <3>1, <3>2
  <2>2. CASE i # 1
    <3>1. i - 1 \in DOMAIN s /\ a[i] = s[i - 1] /\ i \in Int
      BY <1>1, <2>2
    <3>2. /\ \A b \in s[i - 1].todo : bs[b] = Gone \/ bs[b].object = s[i - 1].o
          /\ \/ i - 1 = Len(s)
             \/ \E b \in Binding : /\ s[(i - 1) + 1] = Handler("channel_notify", b)
                                   /\ bs[b] # Gone /\ bs[b].object = s[i - 1].o
      BY <1>2, <3>1 DEF Nest
    <3>3. (i - 1) + 1 = i /\ (i - 1 = Len(s) => i = Len(a))
      BY <1>1, <3>1
    <3>4. i = Len(a) \/ (i + 1 \in DOMAIN a /\ i + 1 # 1 /\ (i + 1) - 1 = i)
      BY <1>1, <3>1
    <3>5. i = Len(a) \/ a[i + 1] = s[i]
      BY <1>1, <3>4
    <3>6. QED
      BY <3>1, <3>2, <3>3, <3>5
  <2>3. QED
    BY <2>1, <2>2
<1>3. QED
  BY <1>2 DEF Nest, a

\* Without the one in front they still do.
LEMMA NestPop ==
    ASSUME NEW s \in Seq(Frame), s # <<>>, NEW bs, Nest(s, bs)
    PROVE  /\ Nest(Tail(s), bs)
           /\ Head(s).fn = "notify" =>
               /\ \A b \in Head(s).todo : bs[b] = Gone \/ bs[b].object = Head(s).o
               /\ \/ Tail(s) = <<>>
                  \/ \E b \in Binding : /\ Head(Tail(s)) = Handler("channel_notify", b)
                                        /\ 2 \in DOMAIN s /\ s[2] = Handler("channel_notify", b)
                                        /\ bs[b] # Gone /\ bs[b].object = Head(s).o
<1> DEFINE t == Tail(s)
<1>1. /\ Len(s) \in Nat \ {0} /\ DOMAIN s = 1..Len(s) /\ Head(s) = s[1] /\ Head(s) \in Frame
      /\ t \in Seq(Frame) /\ Len(t) = Len(s) - 1 /\ DOMAIN t = 1..(Len(s) - 1)
      /\ \A i \in 1..(Len(s) - 1) : t[i] = s[i + 1]
  BY TailOf
<1>2. t = <<>> <=> Len(t) = 0
  BY <1>1, EmptySeq
<1>3. t # <<>> => Head(t) = t[1]
  BY <1>1, TailOf
<1> HIDE DEF t
<1>4. ASSUME NEW i \in DOMAIN t, t[i].fn = "notify"
      PROVE  /\ \A b \in t[i].todo : bs[b] = Gone \/ bs[b].object = t[i].o
             /\ \/ i = Len(t)
                \/ \E b \in Binding : /\ t[i + 1] = Handler("channel_notify", b)
                                      /\ bs[b] # Gone /\ bs[b].object = t[i].o
  <2>1. i + 1 \in DOMAIN s /\ t[i] = s[i + 1] /\ i \in Int
    BY <1>1, <1>4
  <2>2. /\ \A b \in s[i + 1].todo : bs[b] = Gone \/ bs[b].object = s[i + 1].o
        /\ \/ i + 1 = Len(s)
           \/ \E b \in Binding : /\ s[(i + 1) + 1] = Handler("channel_notify", b)
                                 /\ bs[b] # Gone /\ bs[b].object = s[i + 1].o
    BY <1>4, <2>1 DEF Nest
  <2>3. i = Len(t) \/ (i + 1 \in 1..(Len(s) - 1) /\ i + 1 # Len(s))
    BY <1>1, <1>4, <2>1
  <2>4. i = Len(t) \/ (t[i + 1] = s[(i + 1) + 1] /\ i + 1 # Len(s))
    BY <1>1, <2>3
  <2>5. QED
    BY <2>1, <2>2, <2>4
<1>5. ASSUME Head(s).fn = "notify"
      PROVE  /\ \A b \in Head(s).todo : bs[b] = Gone \/ bs[b].object = Head(s).o
             /\ \/ t = <<>>
                \/ \E b \in Binding : /\ Head(t) = Handler("channel_notify", b)
                                      /\ 2 \in DOMAIN s /\ s[2] = Handler("channel_notify", b)
                                      /\ bs[b] # Gone /\ bs[b].object = Head(s).o
  <2>1. 1 \in DOMAIN s
    BY <1>1
  <2>2. /\ \A b \in s[1].todo : bs[b] = Gone \/ bs[b].object = s[1].o
        /\ \/ 1 = Len(s)
           \/ \E b \in Binding : /\ s[1 + 1] = Handler("channel_notify", b)
                                 /\ bs[b] # Gone /\ bs[b].object = s[1].o
    BY <1>1, <1>5, <2>1 DEF Nest
  <2>3. ASSUME t # <<>> PROVE 1 # Len(s) /\ 2 \in DOMAIN s /\ 1 \in 1..(Len(s) - 1)
    <3>1. Len(t) # 0
      BY <1>2, <2>3
    <3>2. QED
      BY <1>1, <3>1
  <2>4. t # <<>> => Head(t) = s[1 + 1] /\ s[1 + 1] = s[2]
    BY <1>1, <1>3, <2>3
  <2>5. QED
    BY <1>1, <2>2, <2>3, <2>4
<1>6. QED
  BY <1>4, <1>5 DEF Nest, t

\* The calls in front of an emission that goes on.
LEMMA NestTop ==
    ASSUME NEW s \in Seq(Frame), s # <<>>, NEW bs, Nest(s, bs),
           Head(s).fn \in {"notify", "property-changed"},
           NEW b, NEW g \in Frame, g = [Head(s) EXCEPT !.todo = @ \ {b}]
    PROVE  Nest(<<g>> \o Tail(s), bs)
<1>2. Tail(s) \in Seq(Frame) /\ Head(s) \in Frame
  BY StackPop
<1>3. Head(s) \in Emissions \cup Notifies
  BY <1>2, FrameKinds
<1>4. /\ g.fn = Head(s).fn
      /\ g.fn = "notify" => g.o = Head(s).o /\ g.todo \subseteq Head(s).todo
  BY <1>3 DEF Emissions, Notifies
<1>5. Nest(Tail(s), bs)
  BY NestPop
<1>6. g.fn = "notify" =>
         /\ \A d \in g.todo : bs[d] = Gone \/ bs[d].object = g.o
         /\ \/ Tail(s) = <<>>
            \/ \E d \in Binding : /\ Head(Tail(s)) = Handler("channel_notify", d)
                                  /\ bs[d] # Gone /\ bs[d].object = g.o
  BY <1>4, NestPop
<1>7. QED
  BY <1>2, <1>5, <1>6, NestPush

\* What the calls carry, as they come and go.
LEMMA CarryPush ==
    ASSUME NEW s \in Seq(Frame), NEW m \in Frame, NEW v, NEW obj,
           AllCarry(s, v, obj), Carries(m, v, obj)
    PROVE  AllCarry(<<m>> \o s, v, obj)
<1> DEFINE a == <<m>> \o s
<1>1. /\ DOMAIN a = 1..Len(a) /\ a[1] = m
      /\ \A i \in DOMAIN a : i # 1 => i - 1 \in DOMAIN s /\ a[i] = s[i - 1]
  BY ConsAt
<1> HIDE DEF a
<1>2. ASSUME NEW i \in DOMAIN a PROVE Carries(a[i], v, obj)
  <2>1. CASE i = 1
    BY <1>1, <2>1
  <2>2. CASE i # 1
    <3>1. i - 1 \in DOMAIN s /\ a[i] = s[i - 1]
      BY <1>1, <2>2
    <3>2. QED
      BY <3>1 DEF AllCarry
  <2>3. QED
    BY <2>1, <2>2
<1>3. QED
  BY <1>2 DEF AllCarry, a

LEMMA CarryPop ==
    ASSUME NEW s \in Seq(Frame), s # <<>>, NEW v, NEW obj, AllCarry(s, v, obj)
    PROVE  AllCarry(Tail(s), v, obj) /\ Carries(Head(s), v, obj)
<1>1. /\ Len(s) \in Nat \ {0} /\ DOMAIN s = 1..Len(s) /\ Head(s) = s[1]
      /\ DOMAIN Tail(s) = 1..(Len(s) - 1)
      /\ \A i \in 1..(Len(s) - 1) : Tail(s)[i] = s[i + 1]
  BY TailOf
<1>2. ASSUME NEW i \in DOMAIN Tail(s) PROVE Carries(Tail(s)[i], v, obj)
  <2>1. i + 1 \in DOMAIN s /\ Tail(s)[i] = s[i + 1]
    BY <1>1, <1>2
  <2>2. QED
    BY <2>1 DEF AllCarry
<1>3. Carries(Head(s), v, obj)
  <2>1. 1 \in DOMAIN s
    BY <1>1
  <2>2. QED
    BY <1>1, <2>1 DEF AllCarry
<1>4. QED
  BY <1>2, <1>3 DEF AllCarry

LEMMA CarryTop ==
    ASSUME NEW s \in Seq(Frame), s # <<>>, NEW v, NEW obj, AllCarry(s, v, obj),
           Head(s).fn \in {"notify", "property-changed"},
           NEW b, NEW g \in Frame, g = [Head(s) EXCEPT !.todo = @ \ {b}]
    PROVE  AllCarry(<<g>> \o Tail(s), v, obj)
<1>2. Tail(s) \in Seq(Frame) /\ Head(s) \in Frame
  BY StackPop
<1>3. Head(s) \in Emissions \cup Notifies
  BY <1>2, FrameKinds
<1>4. /\ g.fn = Head(s).fn
      /\ g.fn = "notify" => g.o = Head(s).o
      /\ g.fn = "property-changed" => g.v = Head(s).v
  BY <1>3 DEF Emissions, Notifies
<1>5. AllCarry(Tail(s), v, obj) /\ Carries(g, v, obj)
  BY <1>4, CarryPop DEF Carries
<1>6. QED
  BY <1>2, <1>5, CarryPush

\* The outermost call is the same but for the handlers it has called.
SameLast(s, t) ==
    /\ Last(t).fn = Last(s).fn
    /\ Last(s).fn = "property-changed" =>
          Last(t).c = Last(s).c /\ Last(t).name = Last(s).name /\ Last(t).v = Last(s).v

LEMMA LastKinds ==
    ASSUME NEW s \in Seq(Frame), s # <<>>
    PROVE  /\ Last(s) \in Frame /\ Len(s) \in DOMAIN s
           /\ Last(s).fn = "property-changed" => Last(s).c \in Chan /\ Last(s).v \in Val \cup {Unset}
<1>1. Len(s) \in Nat \ {0} /\ DOMAIN s = 1..Len(s)
  BY TailOf
<1>2. Len(s) \in DOMAIN s
  BY <1>1
<1>3. Last(s) \in Frame
  BY <1>1, <1>2, ElementOfSeq DEF Last
<1>4. QED
  BY <1>2, <1>3, FrameKinds

LEMMA LastTop ==
    ASSUME NEW s \in Seq(Frame), s # <<>>, Head(s).fn \in {"notify", "property-changed"},
           NEW b, NEW g \in Frame, g = [Head(s) EXCEPT !.todo = @ \ {b}]
    PROVE  SameLast(s, <<g>> \o Tail(s))
<1>2. Tail(s) \in Seq(Frame) /\ Head(s) \in Frame
  BY StackPop
<1>3. Head(s) \in Emissions \cup Notifies
  BY <1>2, FrameKinds
<1>4. /\ g.fn = Head(s).fn
      /\ g.fn = "property-changed" => g.v = Head(s).v /\ g.c = Head(s).c /\ g.name = Head(s).name
  BY <1>3 DEF Emissions, Notifies
<1>5. SameLast(s, <<g>> \o Tail(s))
  <2>1. CASE Tail(s) = <<>>
    <3>1. Last(s) = Head(s)
      BY <2>1, StackPop
    <3>2. Last(<<g>> \o Tail(s)) = g
      BY <1>2, <2>1, StackPush
    <3>3. QED
      BY <1>4, <3>1, <3>2 DEF SameLast
  <2>2. CASE Tail(s) # <<>>
    <3>1. Last(Tail(s)) = Last(s)
      BY <2>2, StackPop
    <3>2. Last(<<g>> \o Tail(s)) = Last(Tail(s))
      BY <1>2, <2>2, StackPush
    <3>3. QED
      BY <3>1, <3>2 DEF SameLast
  <2>3. QED
    BY <2>1, <2>2
<1>6. QED
  BY <1>5

\* A step under which the value that is passed on stays.
LEMMA PassedOnStays ==
    ASSUME PassedOn, stack # <<>>, stack' # <<>> => SameLast(stack, stack'),
           Last(stack).fn = "property-changed" /\ Last(stack).v # Unset =>
               /\ \A p \in Path : Relayed(Last(stack).c, p) = Last(stack).name =>
                     cache'[Last(stack).c][p] = cache[Last(stack).c][p]
               /\ AllCarry(stack', Last(stack).v, object')
    PROVE  PassedOn'
<1>1. PICK e : e = Last(stack)
  OBVIOUS
<1>2. PICK f : f = Last(stack)'
  OBVIOUS
<1>3. ASSUME stack' # <<>>, f.fn = "property-changed", f.v # Unset
      PROVE  /\ \A p \in Path : Relayed(f.c, p) = f.name => cache'[f.c][p] = f.v
             /\ AllCarry(stack', f.v, object')
  <2>1. e.fn = "property-changed" /\ f.c = e.c /\ f.name = e.name /\ f.v = e.v
    BY <1>1, <1>2, <1>3 DEF SameLast
  <2>2. \A p \in Path : Relayed(e.c, p) = e.name => cache[e.c][p] = e.v
    BY <1>1, <1>3, <2>1 DEF PassedOn
  <2>3. /\ \A p \in Path : Relayed(e.c, p) = e.name => cache'[e.c][p] = cache[e.c][p]
        /\ AllCarry(stack', e.v, object')
    BY <1>1, <1>3, <2>1
  <2>4. QED
    BY <2>1, <2>2, <2>3
<1>4. QED
  BY <1>2, <1>3 DEF PassedOn

\* Bindings that end leave the others alone.
LEMMA AloneStays ==
    ASSUME Alone, \A b \in Binding : bindings'[b] = bindings[b] \/ bindings'[b] = Gone
    PROVE  Alone'
BY DEF Alone

\* Nor does it matter to the calls, if they are not setting an object.
LEMMA NestStays ==
    ASSUME NEW s \in Seq(Frame), NEW bs, NEW cs, Nest(s, bs),
           \A b \in Binding : \/ cs[b] = bs[b]
                              \/ cs[b] = Gone /\ Calls(s, "channel_notify", b) = 0
    PROVE  Nest(s, cs)
<1>1. Len(s) \in Nat /\ DOMAIN s = 1..Len(s)
  BY LenProperties
<1>2. ASSUME NEW i \in DOMAIN s, s[i].fn = "notify"
      PROVE  /\ \A b \in s[i].todo : cs[b] = Gone \/ cs[b].object = s[i].o
             /\ \/ i = Len(s)
                \/ \E b \in Binding : /\ s[i + 1] = Handler("channel_notify", b)
                                      /\ cs[b] # Gone /\ cs[b].object = s[i].o
  <2>1. s[i] \in Frame /\ s[i].todo \in SUBSET Binding
    BY <1>1, <1>2, ElementOfSeq, FrameKinds
  <2>2. \A b \in s[i].todo : bs[b] = Gone \/ bs[b].object = s[i].o
    BY <1>2 DEF Nest
  <2>3. \A b \in s[i].todo : cs[b] = Gone \/ cs[b].object = s[i].o
    BY <2>1, <2>2
  <2>4. ASSUME i # Len(s)
        PROVE  \E b \in Binding : /\ s[i + 1] = Handler("channel_notify", b)
                                  /\ cs[b] # Gone /\ cs[b].object = s[i].o
    <3>1. PICK b \in Binding : /\ s[i + 1] = Handler("channel_notify", b)
                               /\ bs[b] # Gone /\ bs[b].object = s[i].o
      BY <1>2, <2>4 DEF Nest
    <3>2. i + 1 \in DOMAIN s
      BY <1>1, <2>4
    <3>3. Calls(s, "channel_notify", b) > 0
      BY <3>1, <3>2, RunningIsCalled DEF HandlerName
    <3>4. cs[b] = bs[b]
      BY <3>3
    <3>5. QED
      BY <3>1, <3>4
  <2>5. QED
    BY <2>3, <2>4
<1>3. QED
  BY <1>2 DEF Nest

\* No step while a value is passed on changes it.
KeepsIt ==
    stack # <<>> /\ Last(stack).fn = "property-changed" /\ Last(stack).v # Unset =>
        \A p \in Path : Relayed(Last(stack).c, p) = Last(stack).name =>
            cache'[Last(stack).c][p] = cache[Last(stack).c][p]

LEMMA SkipEcho ==
    ASSUME BindInv, EchoInv, stack # <<>>, Head(stack).fn \in {"notify", "property-changed"},
           NEW b, SkipHandler(b), UNCHANGED <<cache, object, bindings>>
    PROVE  EchoInv' /\ KeepsIt
<1>1. stack \in Seq(Frame) /\ Alone /\ Nest(stack, bindings) /\ PassedOn
  BY DEF BindInv, Types, EchoInv
<1>8. PICK g \in Frame : g = [Head(stack) EXCEPT !.todo = @ \ {b}]
  BY <1>1, EmissionGoesOn
<1>9. stack' = <<g>> \o Tail(stack)
  BY <1>8 DEF SkipHandler
<1>2. SameLast(stack, stack')
  BY <1>1, <1>8, <1>9, LastTop
<1>3. Nest(stack', bindings)
  BY <1>1, <1>8, <1>9, NestTop
<1>4. Last(stack).fn = "property-changed" /\ Last(stack).v # Unset =>
         AllCarry(stack', Last(stack).v, object)
  <2>1. ASSUME NEW v, v = Last(stack).v, Last(stack).fn = "property-changed", v # Unset
        PROVE  AllCarry(stack', v, object)
    <3>1. AllCarry(stack, v, object)
      BY <1>1, <2>1 DEF PassedOn
    <3>2. QED
      BY <1>1, <1>8, <1>9, <3>1, CarryTop
  <2>2. QED
    BY <2>1
<1>5. PassedOn'
  BY <1>1, <1>2, <1>4, PassedOnStays
<1>6. Alone'
  BY <1>1, AloneStays
<1>7. QED
  BY <1>3, <1>5, <1>6 DEF EchoInv, KeepsIt

\* A handler that is called, with or without the emission it makes in its turn.
LEMMA HandlerEcho ==
    ASSUME NEW s \in Seq(Frame), s # <<>>, Head(s).fn \in {"notify", "property-changed"},
           NEW b, NEW g \in Frame, g = [Head(s) EXCEPT !.todo = @ \ {b}],
           NEW h \in Frame, h.fn \notin {"notify", "property-changed"}
    PROVE  LET t == <<h>> \o (<<g>> \o Tail(s))
           IN  /\ t \in Seq(Frame) /\ t # <<>> /\ Head(t) = h /\ SameLast(s, t)
               /\ \A m \in Frame : <<m>> \o t \in Seq(Frame) /\ SameLast(s, <<m>> \o t)
               /\ \A bs : Nest(s, bs) => Nest(t, bs)
               /\ \A v, obj : AllCarry(s, v, obj) => AllCarry(t, v, obj)
<1> DEFINE u == <<g>> \o Tail(s)
           t == <<h>> \o u
<1>1. u \in Seq(Frame) /\ u # <<>>
  BY StackPop, StackPush
<1>2. SameLast(s, u)
  BY LastTop
<1>3. \A bs : Nest(s, bs) => Nest(u, bs)
  BY NestTop
<1>4. \A v, obj : AllCarry(s, v, obj) => AllCarry(u, v, obj)
  BY CarryTop
<1> HIDE DEF u
<1>5. t \in Seq(Frame) /\ t # <<>> /\ Head(t) = h /\ Last(t) = Last(u)
  BY <1>1, StackPush
<1>6. ASSUME NEW bs, Nest(s, bs) PROVE Nest(t, bs)
  <2>1. Nest(u, bs)
    BY <1>3, <1>6
  <2>2. h.fn # "notify"
    OBVIOUS
  <2>3. QED
    BY <1>1, <2>1, <2>2, NestPush
<1>7. ASSUME NEW v, NEW obj, AllCarry(s, v, obj) PROVE AllCarry(t, v, obj)
  <2>1. AllCarry(u, v, obj)
    BY <1>4, <1>7
  <2>2. Carries(h, v, obj)
    BY DEF Carries
  <2>3. QED
    BY <1>1, <2>1, <2>2, CarryPush
<1> HIDE DEF t
<1>8. ASSUME NEW m \in Frame PROVE <<m>> \o t \in Seq(Frame) /\ Last(<<m>> \o t) = Last(t)
  BY <1>5, StackPush
<1>9. SameLast(s, t) /\ \A m \in Frame : SameLast(s, <<m>> \o t)
  BY <1>2, <1>5, <1>8 DEF SameLast
<1>10. QED
  BY <1>5, <1>6, <1>7, <1>8, <1>9 DEF t, u

\* What a binding answers is the value that is passed on: the object was set
\* by a binding that is blocked, so this is another one of the same object, and
\* the object keeps the channel's values.
LEMMA AnswerIsTheSame ==
    ASSUME BindInv, EchoInv, NEW b \in Binding, stack # <<>>, Head(stack).fn = "notify",
           b \in Head(stack).todo, b \in object_handler, ~(object_block[b] > 0),
           Last(stack).fn = "property-changed", Last(stack).v # Unset
    PROVE  Equal(ToChannel[bindings[b].object][object[bindings[b].object]], Last(stack).v)
<1> DEFINE o == Head(stack).o
           v == Last(stack).v
<1>1. /\ Types /\ BlocksMatch /\ Parts(b) /\ stack \in Seq(Frame)
      /\ Alone /\ Nest(stack, bindings) /\ PassedOn
  BY DEF BindInv, EchoInv, PartsMatch, Types
<1>2. o \in Obj /\ v \in Val
  <2>1. Head(stack) \in Frame /\ Last(stack).v \in Val \cup {Unset}
    BY <1>1, StackPop, LastKinds
  <2>2. QED
    BY <2>1, FrameKinds
<1>3. bindings[b] # Gone /\ bindings[b].object = o
  <2>1. bindings[b] # Gone
    BY <1>1 DEF Parts
  <2>2. \A d \in Head(stack).todo : bindings[d] = Gone \/ bindings[d].object = Head(stack).o
    BY <1>1, NestPop
  <2>3. QED
    BY <2>1, <2>2
<1>4. Tail(stack) # <<>>
  <2>1. Tail(stack) = <<>> => Last(stack) = Head(stack)
    BY <1>1, StackPop
  <2>2. QED
    BY <2>1
<1>5. PICK d \in Binding : /\ 2 \in DOMAIN stack /\ stack[2] = Handler("channel_notify", d)
                           /\ bindings[d] # Gone /\ bindings[d].object = o
  BY <1>1, <1>4, NestPop
<1>6. d # b
  <2>1. Calls(stack, "channel_notify", d) > 0
    BY <1>1, <1>5, RunningIsCalled DEF HandlerName
  <2>2. object_block[d] > 0
    BY <1>1, <2>1 DEF BlocksMatch
  <2>3. QED
    BY <2>2
<1>7. Exact(o)
  BY <1>1, <1>2, <1>3, <1>5, <1>6 DEF Alone
<1>8. ToObject[o][v] # Fail /\ object[o] = ToObject[o][v]
  <2>1. AllCarry(stack, v, object)
    BY <1>1 DEF PassedOn
  <2>2. Carries(Head(stack), v, object)
    BY <1>1, <2>1, CarryPop
  <2>3. QED
    BY <2>2 DEF Carries
<1>9. QED
  BY <1>2, <1>3, <1>7, <1>8 DEF Exact

LEMMA ObjectNotifyEcho ==
    ASSUME BindInv, EchoInv, NEW b \in Binding, ObjectNotify(b)
    PROVE  EchoInv' /\ KeepsIt
<1> DEFINE bd == bindings[b]
           path == RealProp(bd.channel, bd.blconf_property)
           dst_val == ToChannel[bd.object][object[bd.object]]
           h == Handler("object_notify", b)
           e == Emit(bd.channel, path, dst_val)
<1>1. /\ stack # <<>> /\ Head(stack).fn = "notify" /\ b \in Head(stack).todo
      /\ object' = object /\ bindings' = bindings
  BY DEF ObjectNotify, In, bindVars
<1>2. CASE b \notin object_handler \/ object_block[b] > 0
  <2>1. SkipHandler(b) /\ cache' = cache
    BY <1>2 DEF ObjectNotify
  <2>2. QED
    BY <1>1, <2>1, SkipEcho
<1>3. CASE b \in object_handler /\ ~(object_block[b] > 0)
  <2>1. /\ Types /\ Parts(b) /\ stack \in Seq(Frame)
        /\ Alone /\ Nest(stack, bindings) /\ PassedOn
    BY DEF BindInv, EchoInv, PartsMatch, Types
  <2>2. bd \in BindingData /\ object[bd.object] # Gone
    BY <1>3, <2>1 DEF Parts, Types
  <2>3. bd.channel \in Chan /\ bd.object \in Obj /\ path \in Path
    BY <2>2, DataKinds
  <2>4. dst_val \in Val
    <3>1. object[bd.object] \in ObjVal[bd.object]
      BY <2>1, <2>2, <2>3 DEF Types
    <3>2. ToChannel[bd.object] \in [ObjVal[bd.object] -> Val]
      BY <2>3, BindingAssumption
    <3>3. QED
      BY <3>1, <3>2
  <2>5. e \in Frame /\ e.fn = "property-changed" /\ e.v = dst_val
    <3>1. e \in Emissions
      BY <2>1, <2>3, <2>4, EmissionKinds
    <3>2. QED
      BY <3>1, <2>1, EmissionKinds DEF Emit, Emission
  <2>6. h \in Frame /\ h.fn \notin {"notify", "property-changed"}
    <3>1. "object_notify" \in HandlerName
      BY DEF HandlerName
    <3>2. QED
      BY <3>1, HandlersDiffer
  <2>7. PICK g \in Frame : g = [Head(stack) EXCEPT !.todo = @ \ {b}]
    BY <1>1, <2>1, EmissionGoesOn
  <2>8. Tail(stack) \in Seq(Frame)
    BY <1>1, <2>1, StackPop
  <2> DEFINE t == <<h>> \o (<<g>> \o Tail(stack))
  <2> HIDE DEF e
  <2>9. \/ stack' = t /\ Keeps(cache, cache')
        \/ stack' = <<e>> \o t /\ Store(bd.channel, path, dst_val)
    <3>1. \/ CallHandler(b, <<h>>) /\ Keeps(cache, cache')
          \/ CallHandler(b, <<e, h>>) /\ Store(bd.channel, path, dst_val)
      BY <1>3, <2>1, <2>3, <2>4, <2>5, <2>6, ObjectNotifySets DEF Types, e
    <3>2. CASE CallHandler(b, <<h>>) /\ Keeps(cache, cache')
      <4>1. stack' = (<<h>> \o <<g>>) \o Tail(stack)
        BY <2>7, <3>2 DEF CallHandler
      <4>2. (<<h>> \o <<g>>) \o Tail(stack) = t
        BY <2>6, <2>7, <2>8, InFront
      <4>3. QED
        BY <3>2, <4>1, <4>2
    <3>3. CASE CallHandler(b, <<e, h>>) /\ Store(bd.channel, path, dst_val)
      <4>1. stack' = (<<e, h>> \o <<g>>) \o Tail(stack)
        BY <2>7, <3>3 DEF CallHandler
      <4>2. (<<e, h>> \o <<g>>) \o Tail(stack) = <<e>> \o t
        BY <2>5, <2>6, <2>7, <2>8, TwoInFront
      <4>3. QED
        BY <3>3, <4>1, <4>2
    <3>4. QED
      BY <3>1, <3>2, <3>3
  <2> HIDE DEF h
  <2>10. /\ t \in Seq(Frame) /\ t # <<>> /\ SameLast(stack, t)
         /\ \A m \in Frame : SameLast(stack, <<m>> \o t)
         /\ \A bs : Nest(stack, bs) => Nest(t, bs)
         /\ \A v, obj : AllCarry(stack, v, obj) => AllCarry(t, v, obj)
    BY <1>1, <2>1, <2>6, <2>7, HandlerEcho
  <2> HIDE DEF t
  <2>11. SameLast(stack, stack')
    BY <2>5, <2>9, <2>10
  <2>12. Nest(stack', bindings)
    <3>1. Nest(t, bindings)
      BY <2>1, <2>10
    <3>2. Nest(<<e>> \o t, bindings)
      BY <2>5, <2>10, <3>1, NestPush
    <3>3. QED
      BY <2>9, <3>1, <3>2
  <2> HIDE DEF dst_val, path
  <2>13. ASSUME Last(stack).fn = "property-changed", Last(stack).v # Unset
         PROVE  /\ \A p \in Path : Relayed(Last(stack).c, p) = Last(stack).name =>
                      cache'[Last(stack).c][p] = cache[Last(stack).c][p]
                /\ AllCarry(stack', Last(stack).v, object)
    <3>1. PICK l : l = Last(stack)
      OBVIOUS
    <3>2. dst_val = l.v
      BY <1>1, <1>3, <2>13, <3>1, AnswerIsTheSame DEF dst_val, Equal
    <3>3. /\ \A p \in Path : Relayed(l.c, p) = l.name => cache[l.c][p] = l.v
          /\ AllCarry(stack, l.v, object)
      BY <1>1, <2>1, <2>13, <3>1 DEF PassedOn
    <3>4. l.c \in Chan
      BY <1>1, <2>1, <2>13, <3>1, LastKinds
    <3>5. \A p \in Path : Relayed(l.c, p) = l.name => cache'[l.c][p] = cache[l.c][p]
      <4>1. CASE Keeps(cache, cache')
        <5>1. l.v # Unset
          BY <2>13, <3>1
        <5>2. QED
          BY <3>3, <3>4, <4>1, <5>1 DEF Keeps
      <4>2. CASE Store(bd.channel, path, dst_val)
        <5>1. \A d \in Chan, p \in Path :
                 cache'[d][p] = IF d = bd.channel /\ p = path THEN dst_val ELSE cache[d][p]
          BY <2>1, <2>3, <2>4, <4>2, StoreKinds DEF Types
        <5>2. QED
          BY <3>2, <3>3, <3>4, <5>1
      <4>3. QED
        BY <2>9, <4>1, <4>2
    <3>6. AllCarry(stack', l.v, object)
      <4>1. AllCarry(t, l.v, object)
        BY <2>10, <3>3
      <4>2. Carries(e, l.v, object)
        BY <2>5, <3>2 DEF Carries
      <4>3. AllCarry(<<e>> \o t, l.v, object)
        BY <2>5, <2>10, <4>1, <4>2, CarryPush
      <4>4. QED
        BY <2>9, <4>1, <4>3
    <3>7. QED
      BY <3>1, <3>5, <3>6
  <2>14. PassedOn'
    BY <1>1, <2>1, <2>11, <2>13, PassedOnStays
  <2>15. Alone'
    BY <1>1, <2>1, AloneStays
  <2>16. QED
    BY <1>1, <2>12, <2>13, <2>14, <2>15 DEF EchoInv, KeepsIt
<1>4. QED
  BY <1>2, <1>3

\* Setting one object to the value that is passed on.
LEMMA CarrySet ==
    ASSUME NEW s \in Seq(Frame), NEW v, NEW obj, NEW X, obj \in [Obj -> X], AllCarry(s, v, obj),
           NEW o \in Obj, ToObject[o][v] # Fail
    PROVE  AllCarry(s, v, [obj EXCEPT ![o] = ToObject[o][v]])
<1> DEFINE new == [obj EXCEPT ![o] = ToObject[o][v]]
<1>1. \A x \in Obj : new[x] = IF x = o THEN ToObject[o][v] ELSE obj[x]
  OBVIOUS
<1> HIDE DEF new
<1>2. ASSUME NEW i \in DOMAIN s PROVE Carries(s[i], v, new)
  <2>1. Carries(s[i], v, obj)
    BY DEF AllCarry
  <2>2. s[i] \in Frame
    BY ElementOfSeq, LenProperties
  <2>3. s[i].fn = "notify" => s[i].o \in Obj
    BY <2>2, FrameKinds
  <2>4. QED
    BY <1>1, <2>1, <2>3 DEF Carries
<1>3. QED
  BY <1>2 DEF AllCarry, new

LEMMA ChannelNotifyEcho ==
    ASSUME BindInv, EchoInv, NEW b \in Binding, ChannelNotify(b)
    PROVE  EchoInv' /\ KeepsIt
<1> DEFINE o == bindings[b].object
           dst_val == NewObjectValue(o, Head(stack).v)
           h == Handler("channel_notify", b)
           e == Notify(o)
<1>1. /\ stack # <<>> /\ Head(stack).fn = "property-changed" /\ b \in Head(stack).todo
      /\ cache' = cache /\ bindings' = bindings
  BY DEF ChannelNotify, In, bindVars, chanVars
<1>2. CASE b \notin channel_handler \/ channel_block[b] > 0 \/ dst_val = Fail
  <2>1. SkipHandler(b) /\ object' = object
    BY <1>2 DEF ChannelNotify
  <2>2. QED
    BY <1>1, <2>1, SkipEcho
<1>3. CASE b \in channel_handler /\ ~(channel_block[b] > 0) /\ dst_val # Fail
  <2>1. /\ Types /\ Parts(b) /\ b \in listed /\ stack \in Seq(Frame)
        /\ Alone /\ Nest(stack, bindings) /\ PassedOn
    BY <1>3 DEF BindInv, EchoInv, PartsMatch, Types
  <2>2. bindings[b] \in BindingData /\ bindings[b] # Gone
    BY <2>1 DEF Parts, Types
  <2>3. o \in Obj
    BY <2>2, DataKinds
  <2>4. e \in Frame /\ e.fn = "notify" /\ e.o = o /\ \A d \in e.todo : bindings[d].object = o
    <3>1. e \in Notifies
      BY <2>1, <2>3, EmissionKinds
    <3>2. QED
      BY <3>1, <2>1, EmissionKinds DEF Notify
  <2>5. h \in Frame /\ h.fn \notin {"notify", "property-changed"}
    <3>1. "channel_notify" \in HandlerName
      BY DEF HandlerName
    <3>2. QED
      BY <3>1, HandlersDiffer
  <2>6. PICK g \in Frame : g = [Head(stack) EXCEPT !.todo = @ \ {b}]
    BY <1>1, <2>1, EmissionGoesOn
  <2>7. Tail(stack) \in Seq(Frame)
    BY <1>1, <2>1, StackPop
  <2> DEFINE t == <<h>> \o (<<g>> \o Tail(stack))
  <2> HIDE DEF e, dst_val
  <2>8. object' = [object EXCEPT ![o] = dst_val] /\ stack' = <<e>> \o t
    <3>1. object' = [object EXCEPT ![o] = dst_val] /\ CallHandler(b, <<e, h>>)
      BY <1>3 DEF ChannelNotify, e, dst_val
    <3>2. stack' = (<<e, h>> \o <<g>>) \o Tail(stack)
      BY <2>6, <3>1 DEF CallHandler
    <3>3. (<<e, h>> \o <<g>>) \o Tail(stack) = <<e>> \o t
      BY <2>4, <2>5, <2>6, <2>7, TwoInFront
    <3>4. QED
      BY <3>1, <3>2, <3>3
  <2>9. /\ t \in Seq(Frame) /\ t # <<>> /\ Head(t) = h
        /\ \A m \in Frame : SameLast(stack, <<m>> \o t)
        /\ \A bs : Nest(stack, bs) => Nest(t, bs)
        /\ \A v, obj : AllCarry(stack, v, obj) => AllCarry(t, v, obj)
    <3> HIDE DEF h
    <3>1. QED
      BY <1>1, <2>1, <2>5, <2>6, HandlerEcho
  <2> HIDE DEF t
  <2>10. SameLast(stack, stack')
    BY <2>4, <2>8, <2>9
  <2>11. Nest(stack', bindings)
    <3>1. Nest(t, bindings)
      BY <2>1, <2>9
    <3>2. Nest(<<e>> \o t, bindings)
      BY <2>2, <2>4, <2>9, <3>1, NestPush
    <3>3. QED
      BY <2>8, <3>2
  <2>12. ASSUME Last(stack).fn = "property-changed", Last(stack).v # Unset
         PROVE  AllCarry(stack', Last(stack).v, object')
    <3>1. PICK v : v = Last(stack).v
      OBVIOUS
    <3>2. AllCarry(stack, v, object)
      BY <1>1, <2>1, <2>12, <3>1 DEF PassedOn
    <3>3. Head(stack).v = v
      <4>1. Carries(Head(stack), v, object)
        BY <1>1, <2>1, <3>2, CarryPop
      <4>2. QED
        BY <1>1, <4>1 DEF Carries
    <3>4. dst_val = ToObject[o][v] /\ ToObject[o][v] # Fail
      BY <1>3, <2>12, <3>1, <3>3 DEF dst_val, NewObjectValue
    <3>5. AllCarry(t, v, object)
      BY <2>9, <3>2
    <3>6. AllCarry(t, v, object') /\ object'[o] = dst_val
      <4>1. object \in [Obj -> UNION {ObjVal[x] \cup {Gone} : x \in Obj}]
        BY <2>1 DEF Types
      <4>2. object' = [object EXCEPT ![o] = ToObject[o][v]]
        BY <2>8, <3>4
      <4>3. AllCarry(t, v, [object EXCEPT ![o] = ToObject[o][v]])
        BY <2>3, <2>9, <3>4, <3>5, <4>1, CarrySet
      <4>4. QED
        BY <2>3, <2>8, <4>1, <4>2, <4>3
    <3>7. Carries(e, v, object')
      BY <2>4, <3>4, <3>6 DEF Carries
    <3>8. AllCarry(<<e>> \o t, v, object')
      BY <2>4, <2>9, <3>6, <3>7, CarryPush
    <3>9. QED
      BY <2>8, <3>1, <3>8
  <2>13. PassedOn'
    BY <1>1, <2>1, <2>10, <2>12, PassedOnStays
  <2>14. Alone'
    BY <1>1, <2>1, AloneStays
  <2>15. QED
    BY <1>1, <2>11, <2>13, <2>14 DEF EchoInv, KeepsIt
<1>4. QED
  BY <1>2, <1>3

\* A call that returns, and the bindings that end with it.
LEMMA ReturnEcho ==
    ASSUME EchoInv, stack \in Seq(Frame), stack # <<>>, stack' = Tail(stack),
           UNCHANGED <<cache, object>>,
           \A b \in Binding : \/ bindings'[b] = bindings[b]
                              \/ bindings'[b] = Gone /\ Calls(Tail(stack), "channel_notify", b) = 0
    PROVE  EchoInv' /\ KeepsIt
<1>1. Alone /\ Nest(stack, bindings) /\ PassedOn
  BY DEF EchoInv
<1>2. stack' # <<>> => SameLast(stack, stack')
  BY StackPop DEF SameLast
<1>3. Nest(stack', bindings')
  <2>1. Nest(Tail(stack), bindings) /\ Tail(stack) \in Seq(Frame)
    BY <1>1, NestPop, StackPop
  <2>2. Nest(Tail(stack), bindings')
    BY <2>1, NestStays
  <2>3. QED
    BY <2>2
<1>4. ASSUME Last(stack).fn = "property-changed", Last(stack).v # Unset
      PROVE  AllCarry(stack', Last(stack).v, object')
  <2>1. AllCarry(stack, Last(stack).v, object)
    BY <1>1, <1>4 DEF PassedOn
  <2>2. QED
    BY <2>1, CarryPop
<1>5. PassedOn'
  BY <1>1, <1>2, <1>4, PassedOnStays
<1>6. Alone'
  BY <1>1, AloneStays
<1>7. QED
  BY <1>3, <1>5, <1>6 DEF EchoInv, KeepsIt

LEMMA CallsEndEcho ==
    ASSUME BindInv, EchoInv, Return
    PROVE  EchoInv' /\ KeepsIt
<1>1. Types /\ BlocksMatch /\ stack \in Seq(Frame)
  BY DEF BindInv, Types
<1>2. CASE Emitted
  <2>1. stack # <<>> /\ stack' = Tail(stack) /\ UNCHANGED <<cache, object, bindings>>
    BY <1>2 DEF Emitted, chanVars, bindVars
  <2>2. QED
    BY <1>1, <2>1, ReturnEcho
<1>3. CASE ChannelNotifyReturns
  <2>1. stack # <<>> /\ stack' = Tail(stack) /\ UNCHANGED <<cache, object, bindings>>
    BY <1>3 DEF ChannelNotifyReturns, In, chanVars, bindVars
  <2>2. QED
    BY <1>1, <2>1, ReturnEcho
<1>4. CASE BindReturns
  <2>1. stack # <<>> /\ stack' = Tail(stack) /\ UNCHANGED <<cache, object, bindings>>
    BY <1>4 DEF BindReturns, In, chanVars
  <2>2. QED
    BY <1>1, <2>1, ReturnEcho
<1>5. CASE ObjectNotifyReturns
  <2>1. /\ stack # <<>> /\ Head(stack).fn = "object_notify" /\ stack' = Tail(stack)
        /\ UNCHANGED <<cache, object>>
        /\ UNCHANGED bindVars \/ ObjectDisconnect({Head(stack).b})
    BY <1>5 DEF ObjectNotifyReturns, In, chanVars
  <2>2. PICK b \in Binding : Head(stack) = Handler("object_notify", b) /\ Head(stack).b = b
    <3>1. Head(stack) \in Frame /\ "object_notify" \in HandlerName
      BY <1>1, <2>1, StackPop DEF HandlerName
    <3>2. QED
      BY <2>1, <3>1, FrameKinds
  <2>3. Calls(Tail(stack), "channel_notify", b) = 0
    <3>1. Calls(stack, "object_notify", b) > 0
      BY <1>1, <2>1, <2>2, StackPop, RunningIsCalled DEF HandlerName
    <3>2. Calls(stack, "channel_notify", b) = 0
      <4>1. /\ object_block[b] = Calls(stack, "channel_notify", b)
            /\ channel_block[b] = Calls(stack, "object_notify", b)
            /\ object_block[b] = 0 \/ channel_block[b] = 0
        BY <1>1 DEF BlocksMatch
      <4>2. QED
        BY <3>1, <4>1
    <3>3. /\ Calls(stack, "channel_notify", b) = Calls(Tail(stack), "channel_notify", b)
                + IF Head(stack) = Handler("channel_notify", b) THEN 1 ELSE 0
          /\ Calls(Tail(stack), "channel_notify", b) \in Nat
      BY <1>1, <2>1, StackPop DEF HandlerName
    <3>4. QED
      BY <3>2, <3>3
  <2>4. \A d \in Binding : \/ bindings'[d] = bindings[d]
                           \/ bindings'[d] = Gone /\ Calls(Tail(stack), "channel_notify", d) = 0
    BY <2>1, <2>2, <2>3 DEF ObjectDisconnect, bindVars
  <2>5. QED
    BY <1>1, <2>1, <2>4, ReturnEcho
<1>6. QED
  BY <1>2, <1>3, <1>4, <1>5 DEF Return

\* The program's handler that ends a binding.
LEMMA UnbindEcho ==
    ASSUME BindInv, EchoInv, NEW b \in Binding, Unbind(b)
    PROVE  EchoInv' /\ KeepsIt
<1>1. /\ stack \in Seq(Frame) /\ Alone /\ Nest(stack, bindings) /\ PassedOn
      /\ UNCHANGED <<cache, object, stack>> /\ b \notin Running("channel_notify")
      /\ bindings' = bindings \/ ObjectDisconnect({b})
  BY DEF BindInv, Types, EchoInv, Unbind, chanVars
<1>2. Calls(stack, "channel_notify", b) = 0
  <2>1. /\ Calls(stack, "channel_notify", b) \in Nat
        /\ b \in {stack[i].b : i \in {j \in DOMAIN stack : stack[j].fn = "channel_notify"}}
             <=> Calls(stack, "channel_notify", b) > 0
    BY <1>1, RunningIsCalled DEF HandlerName
  <2>2. QED
    BY <1>1, <2>1 DEF Running
<1>3. \A d \in Binding : \/ bindings'[d] = bindings[d]
                         \/ bindings'[d] = Gone /\ Calls(stack, "channel_notify", d) = 0
  BY <1>1, <1>2 DEF ObjectDisconnect
<1>4. Nest(stack, bindings')
  BY <1>1, <1>3, NestStays
<1>5. QED
  BY <1>1, <1>3, <1>4, AloneStays DEF EchoInv, PassedOn, KeepsIt

\* A step of the main loop that leaves no call in progress.
LEMMA QuietEcho ==
    ASSUME EchoInv, stack = <<>>, stack' = <<>>,
           \A b \in Binding : bindings'[b] = bindings[b] \/ bindings'[b] = Gone
    PROVE  EchoInv' /\ KeepsIt
<1>1. Alone'
  BY AloneStays DEF EchoInv
<1>2. Nest(<<>>, bindings')
  BY DEF Nest
<1>3. PassedOn' /\ KeepsIt
  BY DEF PassedOn, KeepsIt
<1>4. QED
  BY <1>1, <1>2, <1>3 DEF EchoInv

LEMMA MainLoopEcho ==
    ASSUME BindInv, EchoInv,
           \/ InitLibrary \/ Shutdown \/ UnbindAll
           \/ \E c \in Chan : NewChannel(c) \/ FinalizeChannel(c)
           \/ \E o \in Obj : FinalizeObject(o)
    PROVE  EchoInv' /\ KeepsIt
<1>1. stack = <<>> /\ stack' = <<>>
  BY DEF InitLibrary, Shutdown, UnbindAll, NewChannel, FinalizeChannel, FinalizeObject, MainLoop
<1>2. bindings' = bindings \/ \E S : ObjectDisconnect(S)
  BY DEF InitLibrary, Shutdown, UnbindAll, NewChannel, FinalizeChannel, FinalizeObject,
         ChannelDisconnect, bindVars
<1>3. \A b \in Binding : bindings'[b] = bindings[b] \/ bindings'[b] = Gone
  BY <1>2 DEF ObjectDisconnect
<1>4. QED
  BY <1>1, <1>3, QuietEcho

\* A channel relays changes of different properties under different names: no
\* property's name ends in "/", the name of the base itself.
LEMMA RelayedIsOne ==
    ASSUME NEW c \in Chan, NEW path \in Path, NEW p \in Path,
           IsPrefix(PropertyBase[c], path), Relayed(c, p) = Relayed(c, path)
    PROVE  p = path
<1> DEFINE base == PropertyBase[c]
           n == Len(base)
<1>1. /\ base \in Seq(Piece) /\ n \in Nat /\ DOMAIN base = 1..n
      /\ \A q \in Path : /\ q \in Seq(Piece) /\ Len(q) \in Nat /\ DOMAIN q = 1..Len(q)
                         /\ Len(q) > 0 /\ q[Len(q)] # "/"
  <2>1. base \in Seq(Piece) /\ \A q \in Path : q \in Seq(Piece) /\ q # <<>> /\ Last(q) # "/"
    BY ChannelAssumption
  <2>2. ASSUME NEW q \in Path PROVE Len(q) \in Nat /\ DOMAIN q = 1..Len(q) /\ Len(q) > 0
    BY <2>1, TailOf
  <2>3. n \in Nat /\ DOMAIN base = 1..n
    BY <2>1, LenProperties
  <2>4. QED
    BY <2>1, <2>2, <2>3 DEF Last
<1> HIDE DEF base, n
<1>2. ASSUME NEW q \in Path, IsPrefix(base, q)
      PROVE  /\ n <= Len(q) /\ \A i \in 1..n : q[i] = base[i]
             /\ q # base => n < Len(q)
  <2>1. n <= Len(q) /\ SubSeq(base, 1, n) = SubSeq(q, 1, n)
    BY <1>2 DEF IsPrefix, n
  <2>2. \A i \in 1..n : base[i] \in Piece /\ q[i] \in Piece
    BY <1>1, <2>1, ElementOfSeq
  <2>3. /\ \A i \in 1..(n - 1 + 1) : SubSeq(base, 1, n)[i] = base[1 + i - 1]
        /\ \A i \in 1..(n - 1 + 1) : SubSeq(q, 1, n)[i] = q[1 + i - 1]
    BY <1>1, <2>2, SubSeqProperties
  <2>4. ASSUME NEW i \in 1..n PROVE q[i] = base[i]
    <3>1. i \in 1..(n - 1 + 1) /\ 1 + i - 1 = i
      BY <1>1
    <3>2. QED
      BY <2>1, <2>3, <3>1
  <2>5. ASSUME q # base, ~(n < Len(q)) PROVE FALSE
    <3>1. Len(q) = Len(base)
      BY <1>1, <2>1, <2>5 DEF n
    <3>2. \A i \in 1..Len(q) : q[i] = base[i]
      BY <2>4, <3>1 DEF n
    <3>3. q = base
      BY <1>1, <3>1, <3>2, SeqEqual
    <3>4. QED
      BY <2>5, <3>3
  <2>6. QED
    BY <2>1, <2>4, <2>5
<1>3. ASSUME NEW q \in Path, IsPrefix(base, q), q # base
      PROVE  LET r == SubSeq(q, n + 1, Len(q))
             IN  /\ Relayed(c, q) = r /\ r \in Seq(Piece) /\ Len(r) = Len(q) - n /\ Len(r) > 0
                 /\ \A i \in 1..(Len(q) - n) : r[i] = q[n + i]
                 /\ r # <<>> /\ r # <<"/">>
  <2> DEFINE r == SubSeq(q, n + 1, Len(q))
  <2>1. n < Len(q) /\ n \in Nat /\ Len(q) \in Nat
    BY <1>1, <1>2, <1>3
  <2>2. \A i \in (n + 1)..Len(q) : q[i] \in Piece
    BY <1>1, <2>1, ElementOfSeq
  <2>3. /\ r \in Seq(Piece)
        /\ Len(r) = IF n + 1 <= Len(q) THEN Len(q) - (n + 1) + 1 ELSE 0
        /\ \A i \in 1..(Len(q) - (n + 1) + 1) : r[i] = q[n + 1 + i - 1]
    BY <2>1, <2>2, SubSeqProperties
  <2> HIDE DEF r
  <2>4. Len(r) = Len(q) - n /\ Len(r) > 0
    BY <2>1, <2>3
  <2>5. ASSUME NEW i \in 1..(Len(q) - n) PROVE r[i] = q[n + i]
    <3>1. i \in 1..(Len(q) - (n + 1) + 1) /\ n + 1 + i - 1 = n + i
      BY <2>1
    <3>2. QED
      BY <2>3, <3>1
  <2>6. r # <<>>
    BY <2>4
  <2>7. r[Len(r)] # "/"
    <3>1. Len(r) \in 1..(Len(q) - n) /\ n + Len(r) = Len(q)
      BY <2>1, <2>4
    <3>2. r[Len(r)] = q[Len(q)]
      BY <2>5, <3>1
    <3>3. QED
      BY <1>1, <3>2
  <2>8. r # <<"/">>
    <3>1. ASSUME r = <<"/">> PROVE FALSE
      <4>1. Len(r) = 1 /\ r[1] = "/"
        BY <3>1
      <4>2. QED
        BY <2>7, <4>1
    <3>2. QED
      BY <3>1
  <2>9. Relayed(c, q) = r
    BY <1>3 DEF Relayed, base, n, r
  <2>10. QED
    BY <2>3, <2>4, <2>5, <2>6, <2>8, <2>9 DEF r
<1>4. \A q \in Path : /\ ~IsPrefix(base, q) => Relayed(c, q) = <<>>
                      /\ IsPrefix(base, q) /\ q = base => Relayed(c, q) = <<"/">>
  BY DEF Relayed, base
<1>5. IsPrefix(base, path) /\ IsPrefix(base, p)
  <2>1. IsPrefix(base, path)
    BY DEF base
  <2>2. Relayed(c, path) # <<>>
    BY <1>3, <1>4, <2>1
  <2>3. QED
    BY <1>4, <2>1, <2>2
<1>6. CASE path = base \/ p = base
  BY <1>3, <1>4, <1>5, <1>6
<1>7. CASE path # base /\ p # base
  <2> DEFINE r == Relayed(c, path)
  <2>1. /\ Len(r) = Len(path) - n /\ Len(r) = Len(p) - n
        /\ \A i \in 1..(Len(path) - n) : r[i] = path[n + i]
        /\ \A i \in 1..(Len(p) - n) : r[i] = p[n + i]
    <3>1. Relayed(c, p) = r
      OBVIOUS
    <3>2. Len(r) = Len(path) - n /\ \A i \in 1..(Len(path) - n) : r[i] = path[n + i]
      BY <1>3, <1>5, <1>7
    <3>3. Len(r) = Len(p) - n /\ \A i \in 1..(Len(p) - n) : r[i] = p[n + i]
      <4>1. /\ Len(Relayed(c, p)) = Len(p) - n
            /\ \A i \in 1..(Len(p) - n) : Relayed(c, p)[i] = p[n + i]
        BY <1>3, <1>5, <1>7
      <4>2. QED
        BY <3>1, <4>1
    <3>4. QED
      BY <3>2, <3>3
  <2> HIDE DEF r
  <2>2. Len(p) = Len(path) /\ n <= Len(path)
    BY <1>1, <1>2, <1>5, <2>1
  <2>3. ASSUME NEW i \in 1..Len(path) PROVE p[i] = path[i]
    <3>1. CASE i <= n
      <4>1. i \in 1..n
        BY <1>1, <3>1
      <4>2. QED
        BY <1>2, <1>5, <4>1
    <3>2. CASE ~(i <= n)
      <4>1. i - n \in 1..(Len(path) - n) /\ n + (i - n) = i
        BY <1>1, <3>2
      <4>2. r[i - n] = path[n + (i - n)] /\ r[i - n] = p[n + (i - n)]
        BY <2>1, <2>2, <4>1
      <4>3. QED
        BY <4>1, <4>2
    <3>3. QED
      BY <3>1, <3>2
  <2>4. QED
    BY <1>1, <2>2, <2>3, SeqEqual
<1>8. QED
  BY <1>6, <1>7

\* One call in progress, or a step that starts the first one.
LEMMA FirstEcho ==
    ASSUME Alone', stack = <<>>, NEW f \in Emissions \cup Notifies, NEW s, s = <<f>>, stack' = s,
           f.fn = "notify" => \A b \in f.todo : bindings'[b] = Gone \/ bindings'[b].object = f.o,
           f.fn = "property-changed" /\ f.v # Unset =>
               \A p \in Path : Relayed(f.c, p) = f.name => cache'[f.c][p] = f.v
    PROVE  EchoInv' /\ KeepsIt
<1>1. /\ DOMAIN s = {1} /\ Len(s) = 1 /\ s[1] = f /\ Last(s) = f /\ s # <<>>
  BY DEF Last
<1>2. Nest(s, bindings')
  BY <1>1 DEF Nest
<1>3. f.fn = "property-changed" => AllCarry(s, f.v, object')
  BY <1>1 DEF AllCarry, Carries
<1>4. PassedOn'
  <2>1. Last(stack') = f
    BY <1>1
  <2>2. QED
    BY <1>3, <2>1 DEF PassedOn
<1>5. KeepsIt
  BY DEF KeepsIt
<1>6. QED
  BY <1>2, <1>4, <1>5 DEF EchoInv

LEMMA ObjectSetEcho ==
    ASSUME BindInv, EchoInv, NEW o \in Obj, NEW x \in ObjVal[o], ObjectSet(o, x)
    PROVE  EchoInv' /\ KeepsIt
<1>1. stack = <<>> /\ stack' = <<Notify(o)>> /\ bindings' = bindings /\ Types /\ Alone
  BY DEF ObjectSet, MainLoop, bindVars, BindInv, EchoInv
<1>2. /\ Notify(o) \in Notifies /\ Notify(o).fn = "notify" /\ Notify(o).o = o
      /\ \A b \in Notify(o).todo : bindings[b].object = o
  BY <1>1, EmissionKinds DEF Notify
<1>3. PICK f \in Notifies : f = Notify(o)
  BY <1>2
<1>4. Alone'
  BY <1>1, AloneStays
<1>5. QED
  BY <1>1, <1>2, <1>3, <1>4, FirstEcho

LEMMA CacheChangesEcho ==
    ASSUME BindInv, EchoInv, NEW c \in Chan, NEW path \in Path, NEW v \in Val \cup {Unset},
           CacheChanges(c, path, v)
    PROVE  EchoInv' /\ KeepsIt
<1>1. /\ stack = <<>> /\ stack' = <<Emit(c, path, v)>> /\ bindings' = bindings
      /\ Store(c, path, v) /\ IsPrefix(PropertyBase[c], path) /\ Types /\ Alone
  BY DEF CacheChanges, MainLoop, bindVars, BindInv, EchoInv
<1>2. PICK f \in Emissions : f = Emit(c, path, v)
  BY <1>1, EmissionKinds
<1>3. f.fn = "property-changed" /\ f.c = c /\ f.name = Relayed(c, path) /\ f.v = v
  BY <1>2 DEF Emit, Emission
<1>4. \A p \in Path : Relayed(c, p) = Relayed(c, path) => cache'[c][p] = v
  <2>1. \A p \in Path : cache'[c][p] = IF p = path THEN v ELSE cache[c][p]
    BY <1>1, StoreKinds DEF Types
  <2>2. QED
    BY <1>1, <2>1, RelayedIsOne
<1>5. Alone'
  BY <1>1, AloneStays
<1>6. QED
  BY <1>1, <1>2, <1>3, <1>4, <1>5, FirstEcho

LEMMA CacheIsSilentEcho ==
    ASSUME BindInv, EchoInv, NEW c \in Chan, CacheIsSilent(c)
    PROVE  EchoInv' /\ KeepsIt
<1>1. stack = <<>> /\ stack' = <<>> /\ bindings' = bindings
  BY CacheIsSilentKinds DEF BindInv, Types, MainLoop, bindVars
<1>2. QED
  BY <1>1, QuietEcho

\* Three calls that start together.
LEMMA ThreeCalls ==
    ASSUME NEW f \in Frame, NEW h \in Frame, NEW g \in Frame,
           NEW t \in Seq(Frame), Len(t) = 2, t[1] = h, t[2] = g
    PROVE  <<f, h, g>> = <<f>> \o t
<1> DEFINE a == <<f>> \o t
<1>3. a \in Seq(Frame) /\ Len(a) = 3 /\ a[1] = f /\ a[2] = h /\ a[3] = g
  <2>1. /\ a \in Seq(Frame) /\ a # <<>> /\ Head(a) = f /\ Len(a) = Len(t) + 1
        /\ \A i \in 1..Len(t) : a[i + 1] = t[i]
    BY CountCons
  <2> HIDE DEF a
  <2>2. Head(a) = a[1]
    BY <2>1, TailOf
  <2>3. a[1 + 1] = t[1] /\ a[2 + 1] = t[2]
    <3>1. 1 \in 1..Len(t) /\ 2 \in 1..Len(t)
      OBVIOUS
    <3>2. QED
      BY <2>1, <3>1
  <2>4. QED
    BY <2>1, <2>2, <2>3
<1> HIDE DEF a
<1>4. PICK s \in Seq(Frame) : s = <<f, h, g>> /\ Len(s) = 3 /\ s[1] = f /\ s[2] = h /\ s[3] = g
  <2>1. /\ <<f, h, g>> \in Seq(Frame) /\ Len(<<f, h, g>>) = 3
        /\ <<f, h, g>>[1] = f /\ <<f, h, g>>[2] = h /\ <<f, h, g>>[3] = g
    OBVIOUS
  <2>2. QED
    BY <2>1
<1>5. s = a
  BY <1>3, <1>4, SeqEqual
<1>6. QED
  BY <1>4, <1>5 DEF a

\* A new binding: its object has no other, unless it keeps the channel's values.
LEMMA BindEcho ==
    ASSUME InexactBoundOnce, BindInv, EchoInv, NEW b \in Binding, NEW bd \in Bindable[b], Bind(b, bd)
    PROVE  EchoInv' /\ KeepsIt
<1> DEFINE init == Handler("init", b)
           note == Handler("channel_notify", b)
           o == bd.object
<1>1. /\ MainLoop /\ stack = <<>> /\ Types /\ Alone
      /\ bindings[b] = Gone
      /\ bindings' = [bindings EXCEPT ![b] = bd]
      /\ \/ stack' = <<init>>
         \/ stack' = <<Notify(o), note, init>>
  BY DEF Bind, Transfer, BindInv, EchoInv, MainLoop, Unbound
<1>2. o \in Obj /\ bd # Gone
  <2>1. bd \in BindingData
    BY DEF BindingData
  <2>2. QED
    BY <2>1, DataKinds
<1>3. init \in Frame /\ note \in Frame /\ init.fn = "init" /\ note.fn = "channel_notify"
  <2>1. "init" \in HandlerName /\ "channel_notify" \in HandlerName
    BY DEF HandlerName
  <2>2. QED
    BY <2>1, HandlersDiffer DEF Handler
<1> HIDE DEF init, note
<1>4. \A e \in Binding : bindings'[e] = IF e = b THEN bd ELSE bindings[e]
  BY <1>1 DEF Types
<1>5. Alone'
  <2>1. Types'
    BY BindBind DEF BindInv
  <2>2. ASSUME NEW y \in Obj, NEW e \in Binding, NEW f \in Binding, e # f,
               bindings'[e] # Gone, bindings'[e].object = y,
               bindings'[f] # Gone, bindings'[f].object = y
        PROVE  Exact(y)
    <3>1. bindings'[e] \in Bindable[e] /\ bindings'[f] \in Bindable[f]
      BY <2>1, <2>2 DEF Types
    <3>2. \A x \in Bindable[e], z \in Bindable[f] : x.object = z.object => Exact(x.object)
      BY <2>2 DEF InexactBoundOnce
    <3>3. QED
      BY <2>2, <3>1, <3>2
  <2>3. QED
    BY <2>2 DEF Alone, Exact
<1>6. PICK s0 \in Seq(Frame) : s0 = <<>> /\ Nest(s0, bindings')
  <2>1. <<>> \in Seq(Frame) /\ Nest(<<>>, bindings')
    BY DEF Nest
  <2>2. QED
    BY <2>1
<1>7. PICK r \in Seq(Frame) : r = <<init>> /\ r # <<>> /\ Last(r) = init /\ Nest(r, bindings')
  <2> DEFINE r == <<init>> \o s0
  <2>1. r = <<init>>
    BY <1>3, <1>6
  <2>2. r \in Seq(Frame) /\ r # <<>> /\ Last(r) = init
    BY <1>3, <1>6, StackPush
  <2>3. Nest(r, bindings')
    BY <1>3, <1>6, NestPush
  <2> HIDE DEF r
  <2>4. QED
    BY <2>1, <2>2, <2>3
<1>8. stack' # <<>> /\ Last(stack') = init /\ Nest(stack', bindings')
  <2>1. CASE stack' = <<init>>
    BY <1>7, <2>1
  <2>2. CASE stack' = <<Notify(o), note, init>>
    <3>1. PICK n \in Frame : n = Notify(o) /\ n.o = o
                             /\ n.todo = {e \in object_handler : bindings[e].object = o}
      <4>1. Notify(o) \in Frame
        BY <1>1, <1>2, EmissionKinds
      <4>2. QED
        BY <4>1 DEF Notify
    <3>2. PICK t \in Seq(Frame) : /\ t = <<note>> \o r /\ t # <<>> /\ Head(t) = note
                                  /\ Last(t) = init /\ Nest(t, bindings')
      <4> DEFINE t == <<note>> \o r
      <4>1. t \in Seq(Frame) /\ t # <<>> /\ Head(t) = note /\ Last(t) = init
        BY <1>3, <1>7, StackPush
      <4>2. Nest(t, bindings')
        BY <1>3, <1>7, NestPush
      <4> HIDE DEF t
      <4>3. QED
        BY <4>1, <4>2 DEF t
    <3>3. /\ \A e \in n.todo : bindings'[e] = Gone \/ bindings'[e].object = n.o
          /\ bindings'[b] # Gone /\ bindings'[b].object = n.o
      <4>1. \A e \in n.todo : e \in Binding /\ bindings[e].object = o
        BY <1>1, <3>1 DEF Types
      <4>2. QED
        BY <1>2, <1>4, <3>1, <4>1
    <3>4. Nest(<<n>> \o t, bindings')
      <4>1. Head(t) = Handler("channel_notify", b)
        BY <3>2 DEF note
      <4>2. QED
        BY <3>2, <3>3, <4>1, NestPush
    <3>5. <<n>> \o t # <<>> /\ Last(<<n>> \o t) = init
      BY <3>2, StackPush
    <3>6. stack' = <<n>> \o t
      <4>1. n = Notify(o)
        BY <3>1
      <4>2. r = <<init>> /\ t = <<note>> \o r
        BY <1>7, <3>2
      <4>3. <<n, note, init>> = <<n>> \o t
        <5>1. Len(r) = 1 /\ r[1] = init
          BY <4>2
        <5>2. t[1] = note /\ Len(t) = 2 /\ t[2] = r[1]
          <6>1. /\ Head(t) = t[1] /\ Len(t) = Len(r) + 1
                /\ \A i \in 1..Len(r) : t[i + 1] = r[i]
            BY <1>3, <3>2, TailOf, CountCons
          <6>2. t[1 + 1] = r[1]
            BY <5>1, <6>1
          <6>3. QED
            BY <3>2, <5>1, <6>1, <6>2
        <5>3. QED
          <6>1. n \in Frame /\ note \in Frame /\ init \in Frame /\ t \in Seq(Frame)
            BY <1>3
          <6>2. t[1] = note /\ t[2] = init /\ Len(t) = 2
            BY <5>1, <5>2
          <6>3. QED
            BY <6>1, <6>2, ThreeCalls
      <4>4. stack' = <<n, note, init>>
        BY <2>2, <4>1
      <4>5. QED
        BY <4>3, <4>4
    <3>7. QED
      BY <3>4, <3>5, <3>6
  <2>3. QED
    BY <1>1, <2>1, <2>2
<1>9. PassedOn' /\ KeepsIt
  <2>1. Last(stack').fn # "property-changed"
    BY <1>3, <1>8
  <2>2. QED
    BY <1>1, <2>1 DEF PassedOn, KeepsIt
<1>10. QED
  BY <1>5, <1>8, <1>9 DEF EchoInv

LEMMA InitEcho == Init => EchoInv
<1> SUFFICES ASSUME Init PROVE EchoInv
  OBVIOUS
<1>1. stack = <<>> /\ \A b \in Binding : bindings[b] = Gone
  BY DEF Init
<1>2. Alone /\ PassedOn
  BY <1>1 DEF Alone, PassedOn
<1>3. Nest(stack, bindings)
  BY <1>1 DEF Nest
<1>4. QED
  BY <1>2, <1>3 DEF EchoInv

LEMMA NextEcho ==
    ASSUME InexactBoundOnce, BindInv, EchoInv, [Next]_vars
    PROVE  EchoInv' /\ KeepsIt
<1>1. CASE Call
  BY <1>1, ObjectNotifyEcho, ChannelNotifyEcho DEF Call
<1>2. CASE Return
  BY <1>2, CallsEndEcho
<1>3. CASE Program
  <2>1. CASE \/ InitLibrary \/ Shutdown \/ UnbindAll
             \/ \E c \in Chan : NewChannel(c) \/ FinalizeChannel(c)
             \/ \E o \in Obj : FinalizeObject(o)
    BY <2>1, MainLoopEcho
  <2>2. CASE \E o \in Obj : \E x \in ObjVal[o] : ObjectSet(o, x)
    BY <2>2, ObjectSetEcho
  <2>3. CASE \E b \in Binding : Unbind(b)
    BY <2>3, UnbindEcho
  <2>4. CASE \E b \in Binding : \E bd \in Bindable[b] : Bind(b, bd)
    BY <2>4, BindEcho
  <2>5. QED
    BY <1>3, <2>1, <2>2, <2>3, <2>4 DEF Program
<1>4. CASE Cache
  BY <1>4, CacheChangesEcho, CacheIsSilentEcho DEF Cache
<1>5. CASE UNCHANGED vars
  BY <1>5 DEF vars, chanVars, bindVars, EchoInv, Alone, PassedOn, KeepsIt
<1>6. QED
  BY <1>1, <1>2, <1>3, <1>4, <1>5 DEF Next

\* No binding answers a new value of the channel by setting another one: while
\* the outermost call is the relay of a value, every property that is relayed
\* under that name keeps it, whatever objects and channels are bound together
\* (blconf_g_property_channel_notify blocks the handler of the binding that sets
\* an object), if an object that loses values or takes arrays is bound once.
THEOREM BindingsDoNotEcho ==
    ASSUME InexactBoundOnce
    PROVE  Spec => NoEcho
<1>1. BindInv /\ EchoInv /\ [Next]_vars
        => [stack # <<>> /\ Last(stack).fn = "property-changed" =>
              LET e == Last(stack) IN
              Live(e.c) /\ e.v # Unset =>
                  \A p \in Path : Relayed(e.c, p) = e.name => cache'[e.c][p] = cache[e.c][p]]_vars
  BY NextEcho DEF KeepsIt
<1>2. BindInv /\ EchoInv /\ [Next]_vars => (BindInv /\ EchoInv)'
  BY NextBind, NextEcho
<1>3. Init => BindInv /\ EchoInv
  BY InitBind, InitEcho
<1>4. QED
  BY <1>1, <1>2, <1>3, PTL DEF Spec, NoEcho

-----------------------------------------------------------------------------
(* The inductive invariant of NestingEnds.                                 *)

Valued(f) == f.fn = "property-changed" /\ f.v # Unset

\* A call f passes v on, or would do so next.
Takes(f, v, obj) ==
    /\ f.fn = "property-changed" => f.v \in {Unset, v}
    /\ f.fn = "notify" /\ Exact(f.o) => ToChannel[f.o][obj[f.o]] = v

\* The channel property that an emission tells of has the value it tells.
Told(f, ca) == \A p \in Path : Relayed(f.c, p) = f.name => ca[f.c][p] = f.v

\* Only the outermost emission may tell of a removal; all others carry one
\* value, which the properties they tell of have.
OneValue(s, ca, obj) ==
    \A i \in DOMAIN s :
        /\ s[i].fn = "property-changed" /\ s[i].v = Unset => i = Len(s)
        /\ Valued(s[i]) => /\ Told(s[i], ca)
                           /\ \A j \in DOMAIN s : Takes(s[j], s[i].v, obj)

\* No two of them tell of the same property.
Distinct(s) ==
    \A i, j \in DOMAIN s :
        Valued(s[i]) /\ Valued(s[j]) /\ s[i].c = s[j].c /\ s[i].name = s[j].name => i = j

\* Between two notifications of objects there is one of them.
Between(s) ==
    \A i, j \in DOMAIN s :
        i < j /\ s[i].fn = "notify" /\ s[j].fn = "notify" =>
            \E k \in DOMAIN s : i < k /\ k < j /\ Valued(s[k])

\* What the emissions pass on converts to every object set meanwhile.
Converts(s) ==
    \A i, j \in DOMAIN s :
        i < j /\ s[i].fn = "notify" /\ Valued(s[j]) => ToObject[s[i].o][s[j].v] # Fail

Name(bd) == Relayed(bd.channel, RealProp(bd.channel, bd.blconf_property))

\* An emission calls bindings of its property.  A binding's channel_notify was
\* called by one, and its object_notify has called one, unless the call is the
\* outermost, or the innermost.
Linked(s, bs) ==
    \A i \in DOMAIN s :
        /\ s[i].fn = "property-changed" =>
              \A b \in s[i].todo : \/ bs[b] = Gone
                                   \/ bs[b].channel = s[i].c /\ bs[b].blconf_property = s[i].name
        /\ s[i].fn = "channel_notify" /\ i + 1 # Len(s) =>
              /\ i + 1 \in DOMAIN s /\ Valued(s[i + 1])
              /\ s[i + 1].c = bs[s[i].b].channel /\ s[i + 1].name = bs[s[i].b].blconf_property
        /\ s[i].fn = "object_notify" /\ i # 1 =>
              /\ Valued(s[i - 1])
              /\ s[i - 1].c = bs[s[i].b].channel /\ s[i - 1].name = Name(bs[s[i].b])

Level(s, bs, ca, obj) ==
    OneValue(s, ca, obj) /\ Distinct(s) /\ Between(s) /\ Converts(s) /\ Linked(s, bs)

LevelInv == Level(stack, bindings, cache, object)

\* What a call must be like to be put in front of others.
Fits(m, s, bs, ca, obj) ==
    /\ m.fn = "property-changed" =>
          /\ m.v = Unset => s = <<>>
          /\ \A b \in m.todo : bs[b] = Gone \/ (bs[b].channel = m.c /\ bs[b].blconf_property = m.name)
    /\ Valued(m) =>
          /\ Told(m, ca)
          /\ \A j \in DOMAIN s : /\ Takes(s[j], m.v, obj)
                                 /\ ~(Valued(s[j]) /\ s[j].c = m.c /\ s[j].name = m.name)
    /\ \A j \in DOMAIN s : Valued(s[j]) => Takes(m, s[j].v, obj)
    /\ m.fn = "notify" =>
          \A j \in DOMAIN s :
              /\ s[j].fn = "notify" => \E k \in DOMAIN s : k < j /\ Valued(s[k])
              /\ Valued(s[j]) => ToObject[m.o][s[j].v] # Fail
    /\ m.fn = "channel_notify" /\ Len(s) # 1 =>
          /\ s # <<>> /\ Valued(Head(s))
          /\ Head(s).c = bs[m.b].channel /\ Head(s).name = bs[m.b].blconf_property
    /\ s # <<>> /\ Head(s).fn = "object_notify" =>
          Valued(m) /\ m.c = bs[Head(s).b].channel /\ m.name = Name(bs[Head(s).b])

LEMMA LevelPush ==
    ASSUME NEW s \in Seq(Frame), NEW m \in Frame, NEW bs, NEW ca, NEW obj,
           Level(s, bs, ca, obj), Fits(m, s, bs, ca, obj)
    PROVE  Level(<<m>> \o s, bs, ca, obj)
<1> DEFINE a == <<m>> \o s
<1>1. /\ Len(s) \in Nat /\ DOMAIN s = 1..Len(s) /\ Len(a) = Len(s) + 1
      /\ DOMAIN a = 1..Len(a) /\ a[1] = m
      /\ \A i \in DOMAIN a : i # 1 => i - 1 \in DOMAIN s /\ a[i] = s[i - 1]
      /\ s # <<>> => 1 \in DOMAIN s /\ a[2] = Head(s)
  BY ConsAt
<1>2. s = <<>> <=> Len(s) = 0
  BY EmptySeq
<1>3. s # <<>> => Head(s) = s[1]
  BY TailOf
<1> HIDE DEF a
<1>4. OneValue(a, ca, obj)
  <2>1. ASSUME NEW i \in DOMAIN a, a[i].fn = "property-changed", a[i].v = Unset PROVE i = Len(a)
    <3>1. CASE i = 1
      BY <1>1, <1>2, <2>1, <3>1 DEF Fits
    <3>2. CASE i # 1
      <4>1. i - 1 \in DOMAIN s /\ a[i] = s[i - 1]
        BY <1>1, <3>2
      <4>2. i - 1 = Len(s)
        BY <2>1, <4>1 DEF Level, OneValue
      <4>3. QED
        BY <1>1, <4>1, <4>2
    <3>3. QED
      BY <3>1, <3>2
  <2>2. ASSUME NEW i \in DOMAIN a, Valued(a[i])
        PROVE  Told(a[i], ca) /\ \A j \in DOMAIN a : Takes(a[j], a[i].v, obj)
    <3>1. CASE i = 1
      <4>1. Told(m, ca) /\ Takes(m, m.v, obj) /\ \A j \in DOMAIN s : Takes(s[j], m.v, obj)
        BY <1>1, <2>2, <3>1 DEF Fits, Takes, Valued
      <4>2. ASSUME NEW j \in DOMAIN a PROVE Takes(a[j], m.v, obj)
        <5>1. j = 1 \/ (j - 1 \in DOMAIN s /\ a[j] = s[j - 1])
          BY <1>1
        <5>2. QED
          BY <1>1, <4>1, <5>1
      <4>3. QED
        BY <1>1, <3>1, <4>1, <4>2
    <3>2. CASE i # 1
      <4>1. i - 1 \in DOMAIN s /\ a[i] = s[i - 1]
        BY <1>1, <3>2
      <4>2. Valued(s[i - 1])
        BY <2>2, <4>1
      <4>3. /\ Told(s[i - 1], ca) /\ Takes(m, s[i - 1].v, obj)
            /\ \A j \in DOMAIN s : Takes(s[j], s[i - 1].v, obj)
        BY <4>1, <4>2 DEF Level, OneValue, Fits
      <4>4. ASSUME NEW j \in DOMAIN a PROVE Takes(a[j], s[i - 1].v, obj)
        <5>1. j = 1 \/ (j - 1 \in DOMAIN s /\ a[j] = s[j - 1])
          BY <1>1
        <5>2. QED
          BY <1>1, <4>3, <5>1
      <4>5. QED
        BY <4>1, <4>3, <4>4
    <3>3. QED
      BY <3>1, <3>2
  <2>3. QED
    BY <2>1, <2>2 DEF OneValue
<1>5. Distinct(a)
  <2>1. ASSUME NEW i \in DOMAIN a, NEW j \in DOMAIN a, Valued(a[i]), Valued(a[j]),
               a[i].c = a[j].c, a[i].name = a[j].name
        PROVE  i = j
    <3>1. \A k \in DOMAIN a : k # 1 => k - 1 \in DOMAIN s /\ a[k] = s[k - 1] /\ k \in Int
      BY <1>1
    <3>2. \A k \in DOMAIN s : Valued(m) => ~(Valued(s[k]) /\ s[k].c = m.c /\ s[k].name = m.name)
      BY DEF Fits
    <3>3. CASE i = 1 /\ j # 1
      BY <1>1, <2>1, <3>1, <3>2, <3>3
    <3>4. CASE i # 1 /\ j = 1
      BY <1>1, <2>1, <3>1, <3>2, <3>4
    <3>5. CASE i # 1 /\ j # 1
      <4>1. /\ i - 1 \in DOMAIN s /\ a[i] = s[i - 1] /\ j - 1 \in DOMAIN s /\ a[j] = s[j - 1]
            /\ i \in Int /\ j \in Int
        BY <3>1, <3>5
      <4>2. i - 1 = j - 1
        BY <2>1, <4>1 DEF Level, Distinct
      <4>3. QED
        BY <4>1, <4>2
    <3>6. QED
      BY <3>3, <3>4, <3>5
  <2>2. QED
    BY <2>1 DEF Distinct
<1>6. Between(a)
  <2>1. ASSUME NEW i \in DOMAIN a, NEW j \in DOMAIN a, i < j, a[i].fn = "notify", a[j].fn = "notify"
        PROVE  \E k \in DOMAIN a : i < k /\ k < j /\ Valued(a[k])
    <3>1. j - 1 \in DOMAIN s /\ a[j] = s[j - 1] /\ j \in Int /\ i \in Int
      BY <1>1, <2>1
    <3>2. \E k \in DOMAIN s : i - 1 < k /\ k < j - 1 /\ Valued(s[k])
      <4>1. CASE i = 1
        <5>1. PICK k \in DOMAIN s : k < j - 1 /\ Valued(s[k])
          BY <1>1, <2>1, <3>1, <4>1 DEF Fits
        <5>2. i - 1 < k
          BY <1>1, <4>1
        <5>3. QED
          BY <5>1, <5>2
      <4>2. CASE i # 1
        <5>1. i - 1 \in DOMAIN s /\ a[i] = s[i - 1] /\ i - 1 < j - 1
          BY <1>1, <2>1, <3>1, <4>2
        <5>2. QED
          BY <2>1, <3>1, <5>1 DEF Level, Between
      <4>3. QED
        BY <4>1, <4>2
    <3>3. PICK k \in DOMAIN s : i - 1 < k /\ k < j - 1 /\ Valued(s[k])
      BY <3>2
    <3>4. k \in Int /\ k + 1 \in DOMAIN a /\ k + 1 # 1 /\ (k + 1) - 1 = k
      BY <1>1
    <3>5. a[k + 1] = s[k] /\ i < k + 1 /\ k + 1 < j
      <4>1. a[k + 1] = s[(k + 1) - 1]
        BY <1>1, <3>4
      <4>2. QED
        BY <3>1, <3>3, <3>4, <4>1
    <3>6. QED
      BY <3>3, <3>4, <3>5
  <2>2. QED
    BY <2>1 DEF Between
<1>7. ASSUME NEW i \in DOMAIN a
      PROVE  /\ a[i].fn = "property-changed" =>
                  \A b \in a[i].todo : \/ bs[b] = Gone
                                       \/ bs[b].channel = a[i].c /\ bs[b].blconf_property = a[i].name
             /\ a[i].fn = "channel_notify" /\ i + 1 # Len(a) =>
                  /\ i + 1 \in DOMAIN a /\ Valued(a[i + 1])
                  /\ a[i + 1].c = bs[a[i].b].channel /\ a[i + 1].name = bs[a[i].b].blconf_property
             /\ a[i].fn = "object_notify" /\ i # 1 =>
                  /\ Valued(a[i - 1])
                  /\ a[i - 1].c = bs[a[i].b].channel /\ a[i - 1].name = Name(bs[a[i].b])
  <2>1. CASE i = 1
    <3>1. a[i].fn = "property-changed" =>
             \A b \in a[i].todo : \/ bs[b] = Gone
                                  \/ bs[b].channel = a[i].c /\ bs[b].blconf_property = a[i].name
      BY <1>1, <2>1 DEF Fits
    <3>2. ASSUME a[i].fn = "channel_notify", i + 1 # Len(a)
          PROVE  /\ i + 1 \in DOMAIN a /\ Valued(a[i + 1])
                 /\ a[i + 1].c = bs[a[i].b].channel /\ a[i + 1].name = bs[a[i].b].blconf_property
      <4>1. Len(s) # 1 /\ i + 1 = 2
        BY <1>1, <2>1, <3>2
      <4>2. /\ s # <<>> /\ Valued(Head(s))
            /\ Head(s).c = bs[m.b].channel /\ Head(s).name = bs[m.b].blconf_property
        BY <1>1, <2>1, <3>2, <4>1 DEF Fits
      <4>3. 2 \in DOMAIN a
        BY <1>1, <1>2, <4>2
      <4>4. QED
        BY <1>1, <2>1, <4>1, <4>2, <4>3
    <3>3. QED
      BY <2>1, <3>1, <3>2
  <2>2. CASE i # 1
    <3>1. i - 1 \in DOMAIN s /\ a[i] = s[i - 1] /\ i \in Int
      BY <1>1, <2>2
    <3> DEFINE k == i - 1
    <3>2. /\ s[k].fn = "property-changed" =>
              \A b \in s[k].todo : \/ bs[b] = Gone
                                   \/ bs[b].channel = s[k].c /\ bs[b].blconf_property = s[k].name
          /\ s[k].fn = "channel_notify" /\ k + 1 # Len(s) =>
              /\ k + 1 \in DOMAIN s /\ Valued(s[k + 1])
              /\ s[k + 1].c = bs[s[k].b].channel /\ s[k + 1].name = bs[s[k].b].blconf_property
          /\ s[k].fn = "object_notify" /\ k # 1 =>
              /\ Valued(s[k - 1])
              /\ s[k - 1].c = bs[s[k].b].channel /\ s[k - 1].name = Name(bs[s[k].b])
      BY <3>1 DEF Level, Linked
    <3>3. ASSUME a[i].fn = "channel_notify", i + 1 # Len(a)
          PROVE  /\ i + 1 \in DOMAIN a /\ Valued(a[i + 1])
                 /\ a[i + 1].c = bs[a[i].b].channel /\ a[i + 1].name = bs[a[i].b].blconf_property
      <4>1. k + 1 # Len(s) /\ k + 1 = i
        BY <1>1, <3>1, <3>3
      <4>2. i \in DOMAIN s
        BY <3>1, <3>2, <3>3, <4>1
      <4>3. i + 1 \in DOMAIN a /\ i + 1 # 1 /\ (i + 1) - 1 = i
        BY <1>1, <3>1, <4>2
      <4>4. a[i + 1] = s[i]
        BY <1>1, <4>3
      <4>5. QED
        BY <3>1, <3>2, <3>3, <4>1, <4>3, <4>4
    <3>4. ASSUME a[i].fn = "object_notify"
          PROVE  /\ Valued(a[i - 1])
                 /\ a[i - 1].c = bs[a[i].b].channel /\ a[i - 1].name = Name(bs[a[i].b])
      <4>1. CASE k = 1
        <5>1. s # <<>> /\ a[i - 1] = m /\ a[i] = Head(s)
          <6>1. Len(s) # 0
            BY <1>1, <3>1
          <6>2. QED
            BY <1>1, <1>2, <1>3, <3>1, <4>1, <6>1
        <5>2. QED
          BY <3>4, <5>1 DEF Fits
      <4>2. CASE k # 1
        <5>1. i - 1 \in DOMAIN a /\ i - 1 # 1 /\ (i - 1) - 1 = k - 1
          BY <1>1, <3>1, <4>2
        <5>2. a[i - 1] = s[k - 1]
          BY <1>1, <5>1
        <5>3. QED
          BY <3>1, <3>2, <3>4, <4>2, <5>2
      <4>3. QED
        BY <4>1, <4>2
    <3>5. QED
      BY <3>1, <3>2, <3>3, <3>4
  <2>3. QED
    BY <2>1, <2>2
<1>8. Linked(a, bs)
  BY <1>7 DEF Linked
<1>9. Converts(a)
  <2>1. ASSUME NEW i \in DOMAIN a, NEW j \in DOMAIN a, i < j, a[i].fn = "notify", Valued(a[j])
        PROVE  ToObject[a[i].o][a[j].v] # Fail
    <3>1. j - 1 \in DOMAIN s /\ a[j] = s[j - 1] /\ j \in Int /\ i \in Int
      BY <1>1, <2>1
    <3>2. CASE i = 1
      BY <1>1, <2>1, <3>1, <3>2 DEF Fits
    <3>3. CASE i # 1
      <4>1. i - 1 \in DOMAIN s /\ a[i] = s[i - 1] /\ i - 1 < j - 1
        BY <1>1, <2>1, <3>1, <3>3
      <4>2. QED
        BY <2>1, <3>1, <4>1 DEF Level, Converts
    <3>4. QED
      BY <3>2, <3>3
  <2>2. QED
    BY <2>1 DEF Converts
<1>10. QED
  BY <1>4, <1>5, <1>6, <1>8, <1>9 DEF Level, a

\* The call in front can go.
LEMMA LevelPop ==
    ASSUME NEW s \in Seq(Frame), s # <<>>, NEW bs, NEW ca, NEW obj, Level(s, bs, ca, obj)
    PROVE  Level(Tail(s), bs, ca, obj) /\ Fits(Head(s), Tail(s), bs, ca, obj)
<1> DEFINE t == Tail(s)
<1>1. /\ Len(s) \in Nat \ {0} /\ DOMAIN s = 1..Len(s) /\ Head(s) = s[1]
      /\ t \in Seq(Frame) /\ Len(t) = Len(s) - 1 /\ DOMAIN t = 1..(Len(s) - 1)
      /\ \A i \in 1..(Len(s) - 1) : t[i] = s[i + 1]
  BY TailOf
<1>2. t = <<>> <=> Len(t) = 0
  BY <1>1, EmptySeq
<1>3. t # <<>> => Head(t) = t[1]
  BY <1>1, TailOf
<1> HIDE DEF t
<1>4. \A i \in DOMAIN t : i \in Int /\ i + 1 \in DOMAIN s /\ i + 1 # 1 /\ t[i] = s[i + 1]
  BY <1>1
<1>5. OneValue(t, ca, obj)
  <2>1. ASSUME NEW i \in DOMAIN t
        PROVE  /\ t[i].fn = "property-changed" /\ t[i].v = Unset => i = Len(t)
               /\ Valued(t[i]) => /\ Told(t[i], ca)
                                  /\ \A j \in DOMAIN t : Takes(t[j], t[i].v, obj)
    <3>1. /\ s[i + 1].fn = "property-changed" /\ s[i + 1].v = Unset => i + 1 = Len(s)
          /\ Valued(s[i + 1]) => /\ Told(s[i + 1], ca)
                                 /\ \A j \in DOMAIN s : Takes(s[j], s[i + 1].v, obj)
      BY <1>4 DEF Level, OneValue
    <3>2. i \in Int /\ t[i] = s[i + 1]
      BY <1>4
    <3>3. i + 1 = Len(s) => i = Len(t)
      BY <1>1, <3>2
    <3>4. QED
      BY <1>4, <3>1, <3>2, <3>3
  <2>2. QED
    BY <2>1 DEF OneValue
<1>6. Distinct(t)
  <2>1. ASSUME NEW i \in DOMAIN t, NEW j \in DOMAIN t, Valued(t[i]), Valued(t[j]),
               t[i].c = t[j].c, t[i].name = t[j].name
        PROVE  i = j
    <3>1. /\ i \in Int /\ i + 1 \in DOMAIN s /\ t[i] = s[i + 1]
          /\ j \in Int /\ j + 1 \in DOMAIN s /\ t[j] = s[j + 1]
      BY <1>4
    <3>2. i + 1 = j + 1
      BY <2>1, <3>1 DEF Level, Distinct
    <3>3. QED
      BY <3>1, <3>2
  <2>2. QED
    BY <2>1 DEF Distinct
<1>7. \A i, j \in DOMAIN s : i < j /\ s[i].fn = "notify" /\ s[j].fn = "notify" =>
          \E k \in DOMAIN s : i < k /\ k < j /\ Valued(s[k])
  BY DEF Level, Between
<1>8. ASSUME NEW i \in DOMAIN s, NEW j \in DOMAIN t, i < j + 1, s[i].fn = "notify", t[j].fn = "notify"
      PROVE  \E k \in DOMAIN t : i < k + 1 /\ k < j /\ Valued(t[k])
  <2>1. j \in Int /\ j + 1 \in DOMAIN s /\ t[j] = s[j + 1]
    BY <1>4
  <2>2. PICK k \in DOMAIN s : i < k /\ k < j + 1 /\ Valued(s[k])
    BY <1>7, <1>8, <2>1
  <2>3. k - 1 \in 1..(Len(s) - 1) /\ (k - 1) + 1 = k /\ k - 1 < j
    BY <1>1, <1>8, <2>1, <2>2
  <2>4. t[k - 1] = s[k]
    BY <1>1, <2>3
  <2>5. QED
    BY <1>1, <2>2, <2>3, <2>4
<1>9. Between(t)
  <2>1. ASSUME NEW i \in DOMAIN t, NEW j \in DOMAIN t, i < j, t[i].fn = "notify", t[j].fn = "notify"
        PROVE  \E k \in DOMAIN t : i < k /\ k < j /\ Valued(t[k])
    <3>1. i \in Int /\ j \in Int /\ i + 1 \in DOMAIN s /\ i + 1 < j + 1 /\ s[i + 1].fn = "notify"
      BY <1>4, <2>1
    <3>2. PICK k \in DOMAIN t : i + 1 < k + 1 /\ k < j /\ Valued(t[k])
      BY <1>8, <2>1, <3>1
    <3>3. i < k
      BY <1>4, <3>1, <3>2
    <3>4. QED
      BY <3>2, <3>3
  <2>2. QED
    BY <2>1 DEF Between
<1>10. ASSUME NEW i \in DOMAIN s
       PROVE  /\ s[i].fn = "property-changed" =>
                   \A b \in s[i].todo : \/ bs[b] = Gone
                                        \/ bs[b].channel = s[i].c /\ bs[b].blconf_property = s[i].name
              /\ s[i].fn = "channel_notify" /\ i + 1 # Len(s) =>
                   /\ i + 1 \in DOMAIN s /\ Valued(s[i + 1])
                   /\ s[i + 1].c = bs[s[i].b].channel /\ s[i + 1].name = bs[s[i].b].blconf_property
              /\ s[i].fn = "object_notify" /\ i # 1 =>
                   /\ Valued(s[i - 1])
                   /\ s[i - 1].c = bs[s[i].b].channel /\ s[i - 1].name = Name(bs[s[i].b])
  BY DEF Level, Linked
<1>11. Linked(t, bs)
  <2>1. ASSUME NEW i \in DOMAIN t
        PROVE  /\ t[i].fn = "property-changed" =>
                    \A b \in t[i].todo : \/ bs[b] = Gone
                                         \/ bs[b].channel = t[i].c /\ bs[b].blconf_property = t[i].name
               /\ t[i].fn = "channel_notify" /\ i + 1 # Len(t) =>
                    /\ i + 1 \in DOMAIN t /\ Valued(t[i + 1])
                    /\ t[i + 1].c = bs[t[i].b].channel /\ t[i + 1].name = bs[t[i].b].blconf_property
               /\ t[i].fn = "object_notify" /\ i # 1 =>
                    /\ Valued(t[i - 1])
                    /\ t[i - 1].c = bs[t[i].b].channel /\ t[i - 1].name = Name(bs[t[i].b])
    <3>1. i \in Int /\ i + 1 \in DOMAIN s /\ i + 1 # 1 /\ t[i] = s[i + 1]
      BY <1>4
    <3>2. t[i].fn = "property-changed" =>
             \A b \in t[i].todo : \/ bs[b] = Gone
                                  \/ bs[b].channel = t[i].c /\ bs[b].blconf_property = t[i].name
      BY <1>10, <3>1
    <3>3. ASSUME t[i].fn = "channel_notify", i + 1 # Len(t)
          PROVE  /\ i + 1 \in DOMAIN t /\ Valued(t[i + 1])
                 /\ t[i + 1].c = bs[t[i].b].channel /\ t[i + 1].name = bs[t[i].b].blconf_property
      <4>1. (i + 1) + 1 # Len(s)
        BY <1>1, <3>1, <3>3
      <4>2. /\ (i + 1) + 1 \in DOMAIN s /\ Valued(s[(i + 1) + 1])
            /\ s[(i + 1) + 1].c = bs[s[i + 1].b].channel
            /\ s[(i + 1) + 1].name = bs[s[i + 1].b].blconf_property
        BY <1>10, <3>1, <3>3, <4>1
      <4>3. i + 1 \in DOMAIN t
        BY <1>1, <3>1, <4>2
      <4>4. t[i + 1] = s[(i + 1) + 1]
        BY <1>4, <4>3
      <4>5. QED
        BY <3>1, <4>2, <4>3, <4>4
    <3>4. ASSUME t[i].fn = "object_notify", i # 1
          PROVE  /\ Valued(t[i - 1])
                 /\ t[i - 1].c = bs[t[i].b].channel /\ t[i - 1].name = Name(bs[t[i].b])
      <4>1. (i + 1) - 1 = i /\ i - 1 \in DOMAIN t /\ (i - 1) + 1 = i
        <5>1. DOMAIN t = 1..(Len(s) - 1) /\ Len(s) \in Nat
          BY <1>1
        <5>2. i \in 1..(Len(s) - 1) /\ i # 1
          BY <3>4, <5>1
        <5>3. QED
          BY <5>1, <5>2
      <4>2. /\ Valued(s[i])
            /\ s[i].c = bs[s[i + 1].b].channel /\ s[i].name = Name(bs[s[i + 1].b])
        BY <1>10, <3>1, <3>4, <4>1
      <4>3. t[i - 1] = s[i]
        BY <1>4, <4>1
      <4>4. QED
        BY <3>1, <4>2, <4>3
    <3>5. QED
      BY <3>2, <3>3, <3>4
  <2>2. QED
    BY <2>1 DEF Linked
<1>12. 1 \in DOMAIN s
  BY <1>1
<1> DEFINE m == Head(s)
<1> HIDE DEF m
<1>13. m = s[1]
  BY <1>1 DEF m
<1>14. m.fn = "property-changed" =>
          /\ m.v = Unset => t = <<>>
          /\ \A b \in m.todo : bs[b] = Gone \/ (bs[b].channel = m.c /\ bs[b].blconf_property = m.name)
  <2>1. m.fn = "property-changed" /\ m.v = Unset => 1 = Len(s)
    BY <1>12, <1>13 DEF Level, OneValue
  <2>2. 1 = Len(s) => t = <<>>
    BY <1>1, <1>2
  <2>3. QED
    BY <1>10, <1>12, <1>13, <2>1, <2>2
<1>15. Valued(m) =>
          /\ Told(m, ca)
          /\ \A j \in DOMAIN t : /\ Takes(t[j], m.v, obj)
                                 /\ ~(Valued(t[j]) /\ t[j].c = m.c /\ t[j].name = m.name)
  <2>1. ASSUME Valued(m), NEW j \in DOMAIN t
        PROVE  /\ Takes(t[j], m.v, obj)
               /\ ~(Valued(t[j]) /\ t[j].c = m.c /\ t[j].name = m.name)
    <3>1. j + 1 \in DOMAIN s /\ j + 1 # 1 /\ t[j] = s[j + 1]
      BY <1>4
    <3>2. Takes(s[j + 1], m.v, obj)
      BY <1>12, <1>13, <2>1, <3>1 DEF Level, OneValue
    <3>3. ~(Valued(s[j + 1]) /\ s[j + 1].c = m.c /\ s[j + 1].name = m.name)
      BY <1>12, <1>13, <2>1, <3>1 DEF Level, Distinct
    <3>4. QED
      BY <3>1, <3>2, <3>3
  <2>2. Valued(m) => Told(m, ca)
    BY <1>12, <1>13 DEF Level, OneValue
  <2>3. QED
    BY <2>1, <2>2
<1>16. \A j \in DOMAIN t : Valued(t[j]) => Takes(m, t[j].v, obj)
  <2>1. ASSUME NEW j \in DOMAIN t, Valued(t[j]) PROVE Takes(m, t[j].v, obj)
    <3>1. j + 1 \in DOMAIN s /\ t[j] = s[j + 1]
      BY <1>4
    <3>2. \A i \in DOMAIN s : Takes(s[i], s[j + 1].v, obj)
      BY <2>1, <3>1 DEF Level, OneValue
    <3>3. QED
      BY <1>12, <1>13, <3>1, <3>2
  <2>2. QED
    BY <2>1
<1>17. m.fn = "notify" =>
          \A j \in DOMAIN t :
              /\ t[j].fn = "notify" => \E k \in DOMAIN t : k < j /\ Valued(t[k])
              /\ Valued(t[j]) => ToObject[m.o][t[j].v] # Fail
  <2>1. ASSUME m.fn = "notify", NEW j \in DOMAIN t, t[j].fn = "notify"
        PROVE  \E k \in DOMAIN t : k < j /\ Valued(t[k])
    <3>1. 1 < j + 1
      BY <1>1
    <3>2. QED
      BY <1>8, <1>12, <1>13, <2>1, <3>1
  <2>2. ASSUME m.fn = "notify", NEW j \in DOMAIN t, Valued(t[j])
        PROVE  ToObject[m.o][t[j].v] # Fail
    <3>1. j + 1 \in DOMAIN s /\ t[j] = s[j + 1] /\ 1 < j + 1
      BY <1>1, <1>4
    <3>2. QED
      BY <1>12, <1>13, <2>2, <3>1 DEF Level, Converts
  <2>3. QED
    BY <2>1, <2>2
<1>18. m.fn = "channel_notify" /\ Len(t) # 1 =>
          /\ t # <<>> /\ Valued(Head(t))
          /\ Head(t).c = bs[m.b].channel /\ Head(t).name = bs[m.b].blconf_property
  <2>1. ASSUME m.fn = "channel_notify", Len(t) # 1
        PROVE  /\ t # <<>> /\ Valued(Head(t))
               /\ Head(t).c = bs[m.b].channel /\ Head(t).name = bs[m.b].blconf_property
    <3>1. 1 + 1 # Len(s) /\ 1 + 1 = 2
      BY <1>1, <2>1
    <3>2. /\ 2 \in DOMAIN s /\ Valued(s[2])
          /\ s[2].c = bs[m.b].channel /\ s[2].name = bs[m.b].blconf_property
      BY <1>10, <1>12, <1>13, <2>1, <3>1
    <3>3. 1 \in DOMAIN t /\ t # <<>>
      BY <1>1, <1>2, <3>2
    <3>4. t[1] = s[2]
      <4>1. t[1] = s[1 + 1]
        BY <1>4, <3>3
      <4>2. QED
        BY <4>1
    <3>5. QED
      BY <1>3, <3>2, <3>3, <3>4
  <2>2. QED
    BY <2>1
<1>19. t # <<>> /\ Head(t).fn = "object_notify" =>
          Valued(m) /\ m.c = bs[Head(t).b].channel /\ m.name = Name(bs[Head(t).b])
  <2>1. ASSUME t # <<>>, Head(t).fn = "object_notify"
        PROVE  Valued(m) /\ m.c = bs[Head(t).b].channel /\ m.name = Name(bs[Head(t).b])
    <3>1. 1 \in DOMAIN t
      BY <1>1, <1>2, <2>1
    <3>2. Head(t) = s[2] /\ 2 \in DOMAIN s /\ 2 # 1 /\ 2 - 1 = 1
      <4>1. t[1] = s[1 + 1] /\ 1 + 1 \in DOMAIN s
        BY <1>4, <3>1
      <4>2. QED
        BY <1>3, <2>1, <4>1
    <3>3. /\ Valued(s[2 - 1])
          /\ s[2 - 1].c = bs[s[2].b].channel /\ s[2 - 1].name = Name(bs[s[2].b])
      BY <1>10, <2>1, <3>2
    <3>4. QED
      BY <1>13, <3>2, <3>3
  <2>2. QED
    BY <2>1
<1>20. Fits(m, t, bs, ca, obj)
  BY <1>14, <1>15, <1>16, <1>17, <1>18, <1>19 DEF Fits
<1>21. Converts(t)
  <2>1. ASSUME NEW i \in DOMAIN t, NEW j \in DOMAIN t, i < j, t[i].fn = "notify", Valued(t[j])
        PROVE  ToObject[t[i].o][t[j].v] # Fail
    <3>1. /\ i + 1 \in DOMAIN s /\ j + 1 \in DOMAIN s /\ i + 1 < j + 1
          /\ t[i] = s[i + 1] /\ t[j] = s[j + 1]
      BY <1>4, <2>1
    <3>2. QED
      BY <2>1, <3>1 DEF Level, Converts
  <2>2. QED
    BY <2>1 DEF Converts
<1>22. QED
  BY <1>5, <1>6, <1>9, <1>11, <1>20, <1>21 DEF Level, t, m

\* An emission that goes on to its next handler.
LEMMA LevelTop ==
    ASSUME NEW s \in Seq(Frame), s # <<>>, NEW bs, NEW ca, NEW obj, Level(s, bs, ca, obj),
           Head(s).fn \in {"notify", "property-changed"},
           NEW b, NEW g \in Frame, g = [Head(s) EXCEPT !.todo = @ \ {b}]
    PROVE  Level(<<g>> \o Tail(s), bs, ca, obj)
<1>1. Tail(s) \in Seq(Frame) /\ Head(s) \in Frame
  BY StackPop
<1>2. Head(s) \in Emissions \cup Notifies
  BY <1>1, FrameKinds
<1>3. PICK m : m = Head(s)
  OBVIOUS
<1>4. /\ g.fn = m.fn /\ g.fn \in {"notify", "property-changed"}
      /\ g.fn = "notify" => g.o = m.o
      /\ g.fn = "property-changed" => g.c = m.c /\ g.name = m.name /\ g.v = m.v /\ g.todo \subseteq m.todo
  BY <1>2, <1>3 DEF Emissions, Notifies
<1>5. Level(Tail(s), bs, ca, obj) /\ Fits(m, Tail(s), bs, ca, obj)
  BY <1>3, LevelPop
<1>6. /\ Valued(g) <=> Valued(m)
      /\ Valued(g) => (Told(g, ca) <=> Told(m, ca)) /\ g.c = m.c /\ g.name = m.name /\ g.v = m.v
      /\ \A v : Takes(m, v, obj) => Takes(g, v, obj)
  BY <1>4 DEF Valued, Told, Takes
<1>7. Fits(g, Tail(s), bs, ca, obj)
  BY <1>4, <1>5, <1>6 DEF Fits
<1>8. QED
  BY <1>1, <1>5, <1>7, LevelPush

\* What may change under calls in progress: properties they do not tell of,
\* objects in a way that changes nothing of what is passed on, and bindings of
\* which no call is in progress.
LEMMA LevelStays ==
    ASSUME NEW s \in Seq(Frame), NEW bs, NEW ca, NEW obj, Level(s, bs, ca, obj), NEW cs, NEW cb, NEW obk,
           \A i \in DOMAIN s : Valued(s[i]) =>
               /\ Told(s[i], ca) => Told(s[i], cb)
               /\ \A j \in DOMAIN s : Takes(s[j], s[i].v, obj) => Takes(s[j], s[i].v, obk),
           \A b \in Binding : \/ cs[b] = bs[b]
                              \/ /\ cs[b] = Gone /\ Calls(s, "channel_notify", b) = 0
                                 /\ Calls(s, "object_notify", b) = 0
    PROVE  Level(s, cs, cb, obk)
<1>1. OneValue(s, cb, obk)
  BY DEF Level, OneValue
<1>2. Distinct(s) /\ Between(s) /\ Converts(s)
  BY DEF Level
<1>3. ASSUME NEW i \in DOMAIN s
      PROVE  /\ s[i] \in Frame
             /\ s[i].fn = "property-changed" => s[i].todo \in SUBSET Binding
             /\ s[i].fn \in {"channel_notify", "object_notify"} => cs[s[i].b] = bs[s[i].b]
  <2>1. s[i] \in Frame
    BY ElementOfSeq, LenProperties
  <2>2. ASSUME NEW fn \in {"channel_notify", "object_notify"}, s[i].fn = fn
        PROVE  cs[s[i].b] = bs[s[i].b]
    <3>1. fn \in HandlerName
      BY DEF HandlerName
    <3>2. s[i].b \in Binding /\ s[i] = Handler(fn, s[i].b)
      BY <2>1, <2>2, <3>1, FrameKinds
    <3>3. Calls(s, fn, s[i].b) > 0
      BY <3>1, <3>2, RunningIsCalled
    <3>4. Calls(s, fn, s[i].b) # 0
      BY <3>3
    <3>5. QED
      BY <2>2, <3>2, <3>4
  <2>3. QED
    BY <2>1, <2>2, FrameKinds
<1>4. Linked(s, cs)
  <2>1. ASSUME NEW i \in DOMAIN s
        PROVE  /\ s[i].fn = "property-changed" =>
                    \A b \in s[i].todo : \/ cs[b] = Gone
                                         \/ cs[b].channel = s[i].c /\ cs[b].blconf_property = s[i].name
               /\ s[i].fn = "channel_notify" /\ i + 1 # Len(s) =>
                    /\ i + 1 \in DOMAIN s /\ Valued(s[i + 1])
                    /\ s[i + 1].c = cs[s[i].b].channel /\ s[i + 1].name = cs[s[i].b].blconf_property
               /\ s[i].fn = "object_notify" /\ i # 1 =>
                    /\ Valued(s[i - 1])
                    /\ s[i - 1].c = cs[s[i].b].channel /\ s[i - 1].name = Name(cs[s[i].b])
    <3>1. /\ s[i].fn = "property-changed" =>
                \A b \in s[i].todo : \/ bs[b] = Gone
                                     \/ bs[b].channel = s[i].c /\ bs[b].blconf_property = s[i].name
          /\ s[i].fn = "channel_notify" /\ i + 1 # Len(s) =>
                /\ i + 1 \in DOMAIN s /\ Valued(s[i + 1])
                /\ s[i + 1].c = bs[s[i].b].channel /\ s[i + 1].name = bs[s[i].b].blconf_property
          /\ s[i].fn = "object_notify" /\ i # 1 =>
                /\ Valued(s[i - 1])
                /\ s[i - 1].c = bs[s[i].b].channel /\ s[i - 1].name = Name(bs[s[i].b])
      BY DEF Level, Linked
    <3>2. s[i].fn = "property-changed" =>
             \A b \in s[i].todo : \/ cs[b] = Gone
                                  \/ cs[b].channel = s[i].c /\ cs[b].blconf_property = s[i].name
      BY <1>3, <3>1
    <3>3. s[i].fn \in {"channel_notify", "object_notify"} => cs[s[i].b] = bs[s[i].b]
      BY <1>3
    <3>4. QED
      BY <3>1, <3>2, <3>3
  <2>2. QED
    BY <2>1 DEF Linked
<1>5. QED
  BY <1>1, <1>2, <1>4 DEF Level

\* A handler called in front of an emission that goes on.
LEMMA HandlerLevel ==
    ASSUME NEW s \in Seq(Frame), s # <<>>, NEW bs, NEW ca, NEW obj, Level(s, bs, ca, obj),
           Head(s).fn \in {"notify", "property-changed"},
           NEW b, NEW g \in Frame, g = [Head(s) EXCEPT !.todo = @ \ {b}],
           NEW d \in Binding, NEW fn \in {"object_notify", "channel_notify"},
           NEW h \in Frame, h = Handler(fn, d),
           fn = "channel_notify" /\ Len(s) # 1 =>
               Valued(Head(s)) /\ Head(s).c = bs[d].channel /\ Head(s).name = bs[d].blconf_property
    PROVE  Level(<<h>> \o (<<g>> \o Tail(s)), bs, ca, obj)
<1> DEFINE u == <<g>> \o Tail(s)
<1>1. Level(u, bs, ca, obj)
  BY LevelTop
<1>2. Tail(s) \in Seq(Frame) /\ Head(s) \in Frame /\ Head(s) \in Emissions \cup Notifies
  BY StackPop, FrameKinds
<1>3. u \in Seq(Frame) /\ u # <<>> /\ Head(u) = g /\ Len(u) = Len(s)
  <2>1. Len(u) = Len(Tail(s)) + 1
    BY <1>2, ConsAt
  <2>2. Len(Tail(s)) = Len(s) - 1 /\ Len(s) \in Nat
    BY TailOf
  <2>3. QED
    BY <1>2, <2>1, <2>2, StackPush
<1> HIDE DEF u
<1>4. PICK m : m = Head(s)
  OBVIOUS
<1>5. /\ g.fn = m.fn /\ g.fn \in {"notify", "property-changed"}
      /\ g.fn = "property-changed" => g.c = m.c /\ g.name = m.name /\ g.v = m.v
  BY <1>2, <1>4 DEF Emissions, Notifies
<1>6. Valued(g) <=> Valued(m)
  BY <1>5 DEF Valued
<1>7. h.fn = fn /\ h.b = d
  BY DEF Handler
<1>8. ~Valued(h) /\ \A v : Takes(h, v, obj)
  BY <1>7 DEF Valued, Takes
<1>9. fn = "channel_notify" /\ Len(u) # 1 =>
         Valued(g) /\ g.c = bs[d].channel /\ g.name = bs[d].blconf_property
  <2>1. Valued(g) => g.fn = "property-changed"
    BY DEF Valued
  <2>2. QED
    BY <1>3, <1>4, <1>5, <1>6, <2>1
<1>10. Fits(h, u, bs, ca, obj)
  BY <1>3, <1>5, <1>7, <1>8, <1>9 DEF Fits
<1>11. QED
  BY <1>1, <1>3, <1>10, LevelPush DEF u

LEMMA SkipLevel ==
    ASSUME BindInv, LevelInv, stack # <<>>, Head(stack).fn \in {"notify", "property-changed"},
           NEW b, SkipHandler(b), UNCHANGED <<cache, object, bindings>>
    PROVE  LevelInv'
<1>1. stack \in Seq(Frame) /\ Level(stack, bindings, cache, object)
  BY DEF BindInv, Types, LevelInv
<1>2. PICK g \in Frame : g = [Head(stack) EXCEPT !.todo = @ \ {b}]
  BY <1>1, EmissionGoesOn
<1>3. stack' = <<g>> \o Tail(stack)
  BY <1>2 DEF SkipHandler
<1>4. Level(stack', bindings, cache, object)
  BY <1>1, <1>2, <1>3, LevelTop
<1>5. QED
  BY <1>4 DEF LevelInv

\* A binding's property is one of its channel's.
LEMMA OwnPrefix ==
    ASSUME NEW d \in BindingData
    PROVE  IsPrefix(PropertyBase[d.channel], RealProp(d.channel, d.blconf_property))
<1>1. PICK b \in Binding : d \in Bindable[b]
  BY DEF BindingData
<1>2. d.channel \in Chan /\ d.blconf_property \in Seq(Piece)
  BY <1>1, BindingAssumption
<1>3. PICK x \in Seq(Piece), y \in Seq(Piece) : x = PropertyBase[d.channel] /\ y = d.blconf_property
  BY <1>2, BindingAssumption, ChannelAssumption
<1>4. PICK a : a = x \o y
  OBVIOUS
<1>5. PICK n \in Nat : n = Len(x)
  BY <1>3, LenProperties
<1>6. /\ a \in Seq(Piece) /\ n <= Len(a) /\ Len(a) \in Nat
      /\ \A i \in 1..n : a[i] = x[i] /\ x[i] \in Piece
  <2>1. /\ a \in Seq(Piece) /\ Len(a) = Len(x) + Len(y)
        /\ \A i \in 1..(Len(x) + Len(y)) : a[i] = IF i <= Len(x) THEN x[i] ELSE y[i - Len(x)]
    <3>1. /\ x \o y \in Seq(Piece) /\ Len(x \o y) = Len(x) + Len(y)
          /\ \A i \in 1..(Len(x) + Len(y)) :
                (x \o y)[i] = IF i <= Len(x) THEN x[i] ELSE y[i - Len(x)]
      BY ConcatProperties
    <3>2. QED
      BY <1>4, <3>1
  <2>2. \A i \in 1..n : x[i] \in Piece
    BY <1>3, <1>5, ElementOfSeq
  <2>3. PICK m \in Nat : m = Len(y)
    BY LenProperties
  <2>4. Len(a) = n + m
    BY <1>5, <2>1, <2>3
  <2>5. \A i \in 1..n : i \in 1..(n + m) /\ i <= n
    OBVIOUS
  <2>6. \A i \in 1..n : a[i] = x[i]
    BY <1>5, <2>1, <2>3, <2>5
  <2>7. QED
    BY <2>1, <2>2, <2>4, <2>6
<1>7. SubSeq(x, 1, n) = SubSeq(a, 1, n)
  <2>1. \A i \in 1..n : x[i] \in Piece /\ a[i] \in Piece
    BY <1>6
  <2>2. /\ SubSeq(x, 1, n) \in Seq(Piece) /\ Len(SubSeq(x, 1, n)) = IF 1 <= n THEN n - 1 + 1 ELSE 0
        /\ \A i \in 1..(n - 1 + 1) : SubSeq(x, 1, n)[i] = x[1 + i - 1]
    BY <2>1, SubSeqProperties
  <2>3. /\ SubSeq(a, 1, n) \in Seq(Piece) /\ Len(SubSeq(a, 1, n)) = IF 1 <= n THEN n - 1 + 1 ELSE 0
        /\ \A i \in 1..(n - 1 + 1) : SubSeq(a, 1, n)[i] = a[1 + i - 1]
    BY <2>1, SubSeqProperties
  <2>4. PICK r \in Seq(Piece) : r = SubSeq(x, 1, n)
    BY <2>2
  <2>5. PICK q \in Seq(Piece) : q = SubSeq(a, 1, n)
    BY <2>3
  <2>6. Len(r) = n /\ Len(q) = n /\ \A i \in 1..n : r[i] = q[i]
    <3>1. ASSUME NEW i \in 1..n PROVE r[i] = q[i]
      <4>1. i \in 1..(n - 1 + 1) /\ 1 + i - 1 = i
        OBVIOUS
      <4>2. r[i] = x[i] /\ q[i] = a[i]
        BY <2>2, <2>3, <2>4, <2>5, <4>1
      <4>3. QED
        BY <1>6, <4>2
    <3>2. Len(r) = n /\ Len(q) = n
      BY <2>2, <2>3, <2>4, <2>5
    <3>3. QED
      BY <3>1, <3>2
  <2>7. r = q
    BY <2>6, SeqEqual
  <2>8. QED
    BY <2>4, <2>5, <2>7
<1>8. IsPrefix(x, a)
  BY <1>5, <1>6, <1>7 DEF IsPrefix
<1>9. QED
  BY <1>3, <1>4, <1>8 DEF RealProp

\* What a binding sets on its channel is what is passed on already, if anything
\* is, and what every other object that is notified of would set.
LEMMA AnswerIsTaken ==
    ASSUME BindInv, EchoInv, LevelInv, NEW b \in Binding, stack # <<>>, Head(stack).fn = "notify",
           b \in Head(stack).todo, b \in object_handler, ~(object_block[b] > 0),
           NEW v, v = ToChannel[bindings[b].object][object[bindings[b].object]],
           NEW j \in DOMAIN stack
    PROVE  /\ Valued(stack[j]) => stack[j].v = v /\ Equal(v, v)
           /\ Takes(stack[j], v, object)
<1> DEFINE o == Head(stack).o
<1>1. /\ Types /\ BlocksMatch /\ Parts(b) /\ stack \in Seq(Frame)
      /\ Alone /\ Nest(stack, bindings) /\ Level(stack, bindings, cache, object)
  BY DEF BindInv, EchoInv, PartsMatch, Types, LevelInv
<1>2. /\ Len(stack) \in Nat \ {0} /\ DOMAIN stack = 1..Len(stack)
      /\ stack[1] = Head(stack) /\ 1 \in DOMAIN stack
  BY <1>1, TailOf
<1>3. o \in Obj
  <2>1. Head(stack) \in Frame
    BY <1>1, StackPop
  <2>2. QED
    BY <2>1, FrameKinds
<1>4. bindings[b] # Gone /\ bindings[b].object = o
  <2>1. bindings[b] # Gone
    BY <1>1 DEF Parts
  <2>2. \A d \in Head(stack).todo : bindings[d] = Gone \/ bindings[d].object = Head(stack).o
    BY <1>1, NestPop
  <2>3. QED
    BY <2>1, <2>2
<1>5. ASSUME Tail(stack) # <<>> PROVE Exact(o)
  <2>1. PICK d \in Binding : /\ 2 \in DOMAIN stack /\ stack[2] = Handler("channel_notify", d)
                             /\ bindings[d] # Gone /\ bindings[d].object = o
    BY <1>1, <1>5, NestPop
  <2>2. d # b
    <3>1. Calls(stack, "channel_notify", d) > 0
      BY <1>1, <2>1, RunningIsCalled DEF HandlerName
    <3>2. object_block[d] > 0
      BY <1>1, <3>1 DEF BlocksMatch
    <3>3. QED
      BY <3>2
  <2>3. QED
    BY <1>1, <1>3, <1>4, <2>1, <2>2 DEF Alone
<1>6. ASSUME NEW k \in DOMAIN stack, k # 1 PROVE Exact(o)
  <2>1. Len(stack) # 1
    BY <1>2, <1>6
  <2>2. Len(Tail(stack)) = Len(stack) - 1
    BY <1>1, TailOf
  <2>3. Len(Tail(stack)) # 0
    BY <1>2, <2>1, <2>2
  <2>4. Tail(stack) # <<>>
    BY <2>3, EmptySeq
  <2>5. QED
    BY <1>5, <2>4
<1> HIDE DEF o
<1>7. ASSUME NEW k \in DOMAIN stack, Valued(stack[k]) PROVE stack[k].v = v /\ Equal(v, v)
  <2>1. k # 1
    BY <1>2, <1>7 DEF Valued
  <2>2. Takes(stack[1], stack[k].v, object)
    BY <1>1, <1>2, <1>7 DEF Level, OneValue
  <2>3. ToChannel[o][object[o]] = stack[k].v
    <3>1. stack[1].fn = "notify" /\ stack[1].o = o /\ Exact(o)
      BY <1>2, <1>6, <1>7, <2>1 DEF o
    <3>2. QED
      BY <2>2, <3>1 DEF Takes
  <2>4. stack[k].v = v
    BY <1>4, <2>3
  <2>5. Equal(v, v)
    <3>1. stack[k] \in Frame
      BY <1>1, ElementOfSeq
    <3>2. stack[k].v \in Val
      BY <1>7, <3>1, FrameKinds DEF Valued
    <3>3. 1 < k /\ stack[1].fn = "notify" /\ stack[1].o = o
      BY <1>2, <2>1 DEF o
    <3>4. ToObject[o][stack[k].v] # Fail
      BY <1>1, <1>2, <1>7, <3>3 DEF Level, Converts
    <3>5. Exact(o)
      BY <1>6, <1>7, <2>1
    <3>6. QED
      BY <1>3, <2>4, <3>2, <3>4, <3>5 DEF Exact, Equal
  <2>6. QED
    BY <2>4, <2>5
<1>8. Takes(stack[j], v, object)
  <2>1. CASE stack[j].fn = "property-changed"
    <3>1. stack[j].v = Unset \/ stack[j].v = v
      BY <1>7, <2>1 DEF Valued
    <3>2. QED
      BY <2>1, <3>1 DEF Takes
  <2>2. CASE stack[j].fn = "notify"
    <3>1. CASE j = 1
      BY <1>2, <1>4, <2>2, <3>1 DEF Takes, o
    <3>2. CASE j # 1
      <4>1. 1 < j
        BY <1>2, <3>2
      <4>2. PICK k \in DOMAIN stack : Valued(stack[k])
        BY <1>1, <1>2, <2>2, <4>1 DEF Level, Between
      <4>3. Takes(stack[j], stack[k].v, object) /\ stack[k].v = v
        BY <1>1, <1>7, <4>2 DEF Level, OneValue
      <4>4. QED
        BY <4>3
    <3>3. QED
      BY <3>1, <3>2
  <2>3. CASE stack[j].fn \notin {"property-changed", "notify"}
    BY <2>3 DEF Takes
  <2>4. QED
    BY <2>1, <2>2, <2>3
<1>9. QED
  BY <1>7, <1>8

\* An emission that has one handler less to call is like it was.
LEMMA LikeBefore ==
    ASSUME NEW s \in Seq(Frame), s # <<>>, Head(s).fn \in {"notify", "property-changed"},
           NEW b, NEW g \in Frame, g = [Head(s) EXCEPT !.todo = @ \ {b}]
    PROVE  /\ 1 \in DOMAIN s /\ g.fn = s[1].fn
           /\ Valued(g) <=> Valued(s[1])
           /\ Valued(g) => g.c = s[1].c /\ g.name = s[1].name /\ g.v = s[1].v
           /\ \A v, obj : Takes(s[1], v, obj) => Takes(g, v, obj)
<1>1. Head(s) \in Frame /\ 1 \in DOMAIN s /\ s[1] = Head(s)
  BY StackPop
<1>2. Head(s) \in Emissions \cup Notifies
  BY <1>1, FrameKinds
<1>3. PICK m : m = Head(s)
  OBVIOUS
<1>4. /\ g.fn = m.fn
      /\ g.fn = "notify" => g.o = m.o
      /\ g.fn = "property-changed" => g.c = m.c /\ g.name = m.name /\ g.v = m.v
  BY <1>2, <1>3 DEF Emissions, Notifies
<1>5. /\ Valued(g) <=> Valued(m)
      /\ Valued(g) => g.c = m.c /\ g.name = m.name /\ g.v = m.v
      /\ \A v, obj : Takes(m, v, obj) => Takes(g, v, obj)
  BY <1>4 DEF Valued, Takes
<1>6. m = s[1]
  BY <1>1, <1>3
<1>7. QED
  BY <1>1, <1>4, <1>5, <1>6

\* The calls when a handler is called from an emission.
LEMMA FramesOf ==
    ASSUME NEW s \in Seq(Frame), s # <<>>, NEW g \in Frame, NEW h \in Frame,
           NEW t \in Seq(Frame), t = <<h>> \o (<<g>> \o Tail(s))
    PROVE  /\ Len(t) = Len(s) + 1 /\ DOMAIN t = 1..Len(t) /\ t[1] = h /\ t[2] = g
           /\ \A j \in DOMAIN t : t[j] = h \/ t[j] = g \/ \E i \in DOMAIN s : t[j] = s[i]
<1> DEFINE u == <<g>> \o Tail(s)
<1>1. Tail(s) \in Seq(Frame) /\ Head(s) \in Frame
  BY StackPop
<1>2. /\ u \in Seq(Frame) /\ Len(u) = Len(Tail(s)) + 1
      /\ \A i \in DOMAIN u : i # 1 => i - 1 \in DOMAIN Tail(s) /\ u[i] = Tail(s)[i - 1]
  BY <1>1, ConsAt, StackPush
<1>3. DOMAIN u = 1..Len(u) /\ u[1] = g
  BY <1>1, ConsAt
<1> HIDE DEF u
<1>4. /\ t[1] = h /\ DOMAIN t = 1..Len(t) /\ Len(t) = Len(u) + 1
      /\ \A i \in DOMAIN t : i # 1 => i - 1 \in DOMAIN u /\ t[i] = u[i - 1]
  <2>1. t = <<h>> \o u
    BY DEF u
  <2>2. LET a == <<h>> \o u
        IN  /\ DOMAIN a = 1..Len(a) /\ a[1] = h /\ Len(a) = Len(u) + 1
            /\ \A i \in DOMAIN a : i # 1 => i - 1 \in DOMAIN u /\ a[i] = u[i - 1]
    BY <1>2, ConsAt
  <2>3. QED
    BY <2>1, <2>2
<1>5. /\ DOMAIN Tail(s) = 1..(Len(s) - 1) /\ \A i \in 1..(Len(s) - 1) : Tail(s)[i] = s[i + 1]
      /\ DOMAIN s = 1..Len(s) /\ Len(s) \in Nat \ {0} /\ Len(Tail(s)) = Len(s) - 1
  BY TailOf
<1>6. ASSUME NEW j \in DOMAIN t, j # 1, t[j] # g PROVE \E i \in DOMAIN s : t[j] = s[i]
  <2>1. j - 1 \in DOMAIN u /\ t[j] = u[j - 1]
    BY <1>4, <1>6
  <2>2. j - 1 # 1
    BY <1>3, <1>6, <2>1
  <2>3. (j - 1) - 1 \in DOMAIN Tail(s) /\ u[j - 1] = Tail(s)[(j - 1) - 1]
    BY <1>2, <2>1, <2>2
  <2>4. PICK i \in 1..(Len(s) - 1) : i = (j - 1) - 1
    BY <2>3, <1>5
  <2>5. t[j] = s[i + 1]
    BY <2>1, <2>3, <1>5, <2>4
  <2>6. i + 1 \in DOMAIN s
    BY <1>5, <2>4
  <2>7. QED
    BY <2>5, <2>6
<1>7. Len(t) = Len(s) + 1
  BY <1>2, <1>4, <1>5
<1>8. t[2] = g
  <2>1. 2 \in DOMAIN t /\ 2 # 1
    BY <1>4, <1>5, <1>7
  <2>2. t[2] = u[2 - 1]
    BY <1>4, <2>1
  <2>3. QED
    BY <1>3, <2>2
<1>9. QED
  BY <1>4, <1>6, <1>7, <1>8

LEMMA ObjectNotifyLevel ==
    ASSUME BindInv, EchoInv, LevelInv, NEW b \in Binding, ObjectNotify(b)
    PROVE  LevelInv'
<1> DEFINE bd == bindings[b]
           path == RealProp(bd.channel, bd.blconf_property)
           dst_val == ToChannel[bd.object][object[bd.object]]
           h == Handler("object_notify", b)
           e == Emit(bd.channel, path, dst_val)
<1>1. /\ stack # <<>> /\ Head(stack).fn = "notify" /\ b \in Head(stack).todo
      /\ object' = object /\ bindings' = bindings
  BY DEF ObjectNotify, In, bindVars
<1>2. CASE b \notin object_handler \/ object_block[b] > 0
  <2>1. SkipHandler(b) /\ cache' = cache
    BY <1>2 DEF ObjectNotify
  <2>2. QED
    BY <1>1, <2>1, SkipLevel
<1>3. CASE b \in object_handler /\ ~(object_block[b] > 0)
  <2>1. /\ Types /\ Parts(b) /\ stack \in Seq(Frame)
        /\ Level(stack, bindings, cache, object)
    BY DEF BindInv, LevelInv, PartsMatch, Types
  <2>2. bd \in BindingData /\ object[bd.object] # Gone
    BY <1>3, <2>1 DEF Parts, Types
  <2>3. bd.channel \in Chan /\ bd.object \in Obj /\ path \in Path
    BY <2>2, DataKinds
  <2>4. dst_val \in Val /\ dst_val # Unset
    <3>1. object[bd.object] \in ObjVal[bd.object]
      BY <2>1, <2>2, <2>3 DEF Types
    <3>2. ToChannel[bd.object] \in [ObjVal[bd.object] -> Val]
      BY <2>3, BindingAssumption
    <3>3. QED
      BY <3>1, <3>2, ChannelAssumption
  <2>5. /\ e \in Frame /\ e.fn = "property-changed" /\ e.v = dst_val /\ e.c = bd.channel
        /\ e.name = Relayed(bd.channel, path)
        /\ \A d \in e.todo : bindings[d].channel = e.c /\ bindings[d].blconf_property = e.name
    <3>1. e \in Emissions
      BY <2>1, <2>3, <2>4, EmissionKinds
    <3>2. QED
      BY <3>1, <2>1, EmissionKinds DEF Emit, Emission
  <2>6. h \in Frame /\ h.fn = "object_notify" /\ h.b = b
    <3>1. "object_notify" \in HandlerName
      BY DEF HandlerName
    <3>2. QED
      BY <3>1, HandlersDiffer DEF Handler
  <2>7. PICK g \in Frame : g = [Head(stack) EXCEPT !.todo = @ \ {b}]
    BY <1>1, <2>1, EmissionGoesOn
  <2>8. Tail(stack) \in Seq(Frame)
    BY <1>1, <2>1, StackPop
  <2> DEFINE t == <<h>> \o (<<g>> \o Tail(stack))
  <2> HIDE DEF e
  <2>9. \/ stack' = t /\ Keeps(cache, cache')
        \/ /\ stack' = <<e>> \o t /\ Store(bd.channel, path, dst_val)
           /\ ~Equal(cache[bd.channel][path], dst_val)
    <3>1. \/ CallHandler(b, <<h>>) /\ Keeps(cache, cache')
          \/ /\ CallHandler(b, <<e, h>>) /\ Store(bd.channel, path, dst_val)
             /\ ~Equal(cache[bd.channel][path], dst_val)
      BY <1>3, <2>1, <2>3, <2>4, <2>5, <2>6, ObjectNotifySets DEF Types, e
    <3>2. CASE CallHandler(b, <<h>>) /\ Keeps(cache, cache')
      <4>1. stack' = (<<h>> \o <<g>>) \o Tail(stack)
        BY <2>7, <3>2 DEF CallHandler
      <4>2. (<<h>> \o <<g>>) \o Tail(stack) = t
        BY <2>6, <2>7, <2>8, InFront
      <4>3. QED
        BY <3>2, <4>1, <4>2
    <3>3. CASE /\ CallHandler(b, <<e, h>>) /\ Store(bd.channel, path, dst_val)
               /\ ~Equal(cache[bd.channel][path], dst_val)
      <4>1. stack' = (<<e, h>> \o <<g>>) \o Tail(stack)
        BY <2>7, <3>3 DEF CallHandler
      <4>2. (<<e, h>> \o <<g>>) \o Tail(stack) = <<e>> \o t
        BY <2>5, <2>6, <2>7, <2>8, TwoInFront
      <4>3. QED
        BY <3>3, <4>1, <4>2
    <3>4. QED
      BY <3>1, <3>2, <3>3
  <2>10. t \in Seq(Frame) /\ t # <<>> /\ Head(t) = h
    <3> HIDE DEF h
    <3>1. <<g>> \o Tail(stack) \in Seq(Frame)
      BY <2>8, StackPush
    <3>2. QED
      BY <2>6, <3>1, StackPush
  <2>11. \A ca : Level(stack, bindings, ca, object) => Level(t, bindings, ca, object)
    <3>1. ASSUME NEW ca, Level(stack, bindings, ca, object) PROVE Level(t, bindings, ca, object)
      BY <1>1, <2>1, <2>6, <2>7, <3>1, HandlerLevel
    <3>2. QED
      BY <3>1
  <2>12. CASE stack' = t /\ Keeps(cache, cache')
    <3>1. PICK new : new = cache'
      OBVIOUS
    <3>2. ASSUME NEW j \in DOMAIN stack, Valued(stack[j]), Told(stack[j], cache)
          PROVE  Told(stack[j], new)
      <4>1. stack[j] \in Frame
        BY <2>1, ElementOfSeq, LenProperties
      <4>2. stack[j].c \in Chan /\ stack[j].v # Unset
        BY <3>2, <4>1, FrameKinds DEF Valued
      <4>3. QED
        BY <2>12, <3>1, <3>2, <4>2 DEF Told, Keeps
    <3>3. Level(stack, bindings, new, object)
      BY <2>1, <3>2, LevelStays
    <3>4. QED
      BY <1>1, <2>11, <2>12, <3>1, <3>3 DEF LevelInv
  <2>13. CASE /\ stack' = <<e>> \o t /\ Store(bd.channel, path, dst_val)
              /\ ~Equal(cache[bd.channel][path], dst_val)
    <3> HIDE DEF dst_val
    <3>1. \A j \in DOMAIN stack : /\ Valued(stack[j]) => stack[j].v = dst_val /\ Equal(dst_val, dst_val)
                                  /\ Takes(stack[j], dst_val, object)
      BY <1>1, <1>3, AnswerIsTaken DEF dst_val
    <3>2. \A d \in Chan, p \in Path :
             cache'[d][p] = IF d = bd.channel /\ p = path THEN dst_val ELSE cache[d][p]
      <4>1. Store(bd.channel, path, dst_val) /\ cache \in [Chan -> [Path -> Val \cup {Unset}]]
        BY <2>1, <2>13 DEF Types
      <4>2. QED
        BY <2>3, <2>4, <4>1, StoreKinds
    <3>3. PICK new : new = cache'
      OBVIOUS
    <3>4. ASSUME NEW j \in DOMAIN stack, Valued(stack[j]), Told(stack[j], cache)
          PROVE  Told(stack[j], new)
      <4>1. stack[j] \in Frame
        BY <2>1, ElementOfSeq, LenProperties
      <4>2. stack[j].c \in Chan
        BY <3>4, <4>1, FrameKinds DEF Valued
      <4>3. QED
        BY <3>1, <3>2, <3>3, <3>4, <4>2 DEF Told
    <3>5. Level(stack, bindings, new, object)
      BY <2>1, <3>4, LevelStays
    <3>6. Level(t, bindings, new, object)
      BY <2>11, <3>5
    <3>7. /\ Told(e, new) /\ IsPrefix(PropertyBase[bd.channel], path)
          /\ \A p \in Path : Relayed(bd.channel, p) = e.name => p = path
      <4>1. IsPrefix(PropertyBase[bd.channel], path)
        BY <2>2, OwnPrefix
      <4>2. \A p \in Path : Relayed(bd.channel, p) = e.name => p = path
        BY <2>3, <2>5, <4>1, RelayedIsOne
      <4>3. QED
        BY <2>3, <2>5, <3>2, <3>3, <4>1, <4>2 DEF Told
    <3> HIDE DEF path
    <3>8. ASSUME NEW j \in DOMAIN stack, Valued(stack[j])
          PROVE  ~(stack[j].c = e.c /\ stack[j].name = e.name)
      <4>1. SUFFICES ASSUME stack[j].c = e.c, stack[j].name = e.name PROVE FALSE
        OBVIOUS
      <4>2. Told(stack[j], cache) /\ stack[j].v = dst_val /\ Equal(dst_val, dst_val)
        BY <2>1, <3>1, <3>8 DEF Level, OneValue
      <4>3. Relayed(bd.channel, path) = e.name
        BY <2>5
      <4>4. cache[bd.channel][path] = dst_val
        BY <2>3, <2>5, <4>1, <4>2, <4>3 DEF Told
      <4>5. QED
        BY <2>13, <4>2, <4>4 DEF Equal
    <3>9. ASSUME NEW j \in DOMAIN t
          PROVE  /\ Valued(t[j]) => t[j].v = dst_val
                 /\ Takes(t[j], dst_val, object)
                 /\ ~(Valued(t[j]) /\ t[j].c = e.c /\ t[j].name = e.name)
      <4> HIDE DEF h
      <4>1. t[j] = h \/ t[j] = g \/ \E i \in DOMAIN stack : t[j] = stack[i]
        <5>1. PICK w \in Seq(Frame) : w = <<h>> \o (<<g>> \o Tail(stack)) /\ w = t
          BY <2>10
        <5>2. \A k \in DOMAIN w : w[k] = h \/ w[k] = g \/ \E i \in DOMAIN stack : w[k] = stack[i]
          BY <1>1, <2>1, <2>6, <5>1, FramesOf
        <5> HIDE DEF t
        <5>3. QED
          BY <5>1, <5>2
      <4> HIDE DEF t
      <4>2. CASE t[j] = h
        BY <2>6, <4>2 DEF Valued, Takes
      <4>3. CASE t[j] = g
        <5>1. /\ 1 \in DOMAIN stack
              /\ Valued(g) <=> Valued(stack[1])
              /\ Valued(g) => /\ g.c = stack[1].c /\ g.name = stack[1].name
                              /\ g.v = stack[1].v
              /\ \A v, obj : Takes(stack[1], v, obj) => Takes(g, v, obj)
          BY <1>1, <2>1, <2>7, LikeBefore
        <5>2. QED
          BY <3>1, <3>8, <4>3, <5>1
      <4>4. CASE \E i \in DOMAIN stack : t[j] = stack[i]
        BY <3>1, <3>8, <4>4
      <4>5. QED
        BY <4>1, <4>2, <4>3, <4>4
    <3> HIDE DEF t, h
    <3>10. Valued(e) /\ e.name = Name(bd) /\ \A j \in DOMAIN t : Valued(t[j]) => Takes(e, t[j].v, object)
      <4>1. Valued(e)
        BY <2>4, <2>5 DEF Valued
      <4>2. e.name = Name(bd)
        BY <2>5 DEF Name, path
      <4>3. \A j \in DOMAIN t : Valued(t[j]) => Takes(e, t[j].v, object)
        BY <2>5, <3>9 DEF Takes
      <4>4. QED
        BY <4>1, <4>2, <4>3
    <3>11. Fits(e, t, bindings, new, object)
      BY <2>4, <2>5, <2>6, <2>10, <3>7, <3>9, <3>10 DEF Fits
    <3>12. Level(<<e>> \o t, bindings, new, object)
      BY <2>5, <2>10, <3>6, <3>11, LevelPush
    <3>13. QED
      BY <1>1, <2>13, <3>3, <3>12 DEF LevelInv
  <2>14. QED
    BY <2>9, <2>12, <2>13
<1>4. QED
  BY <1>2, <1>3

LEMMA ChannelNotifyLevel ==
    ASSUME BindInv, LevelInv, NEW b \in Binding, ChannelNotify(b)
    PROVE  LevelInv'
<1> DEFINE o == bindings[b].object
           dst_val == NewObjectValue(o, Head(stack).v)
           h == Handler("channel_notify", b)
           e == Notify(o)
<1>1. /\ stack # <<>> /\ Head(stack).fn = "property-changed" /\ b \in Head(stack).todo
      /\ cache' = cache /\ bindings' = bindings
  BY DEF ChannelNotify, In, bindVars, chanVars
<1>2. CASE b \notin channel_handler \/ channel_block[b] > 0 \/ dst_val = Fail
  <2>1. SkipHandler(b) /\ object' = object
    BY <1>2 DEF ChannelNotify
  <2>2. QED
    BY <1>1, <2>1, SkipLevel
<1>3. CASE b \in channel_handler /\ ~(channel_block[b] > 0) /\ dst_val # Fail
  <2>1. /\ Types /\ Parts(b) /\ b \in listed /\ stack \in Seq(Frame)
        /\ Level(stack, bindings, cache, object)
    BY <1>3 DEF BindInv, LevelInv, PartsMatch, Types
  <2>2. bindings[b] \in BindingData /\ bindings[b] # Gone
    BY <2>1 DEF Parts, Types
  <2>3. o \in Obj
    BY <2>2, DataKinds
  <2>4. e \in Frame /\ e.fn = "notify" /\ e.o = o
    <3>1. e \in Notifies
      BY <2>1, <2>3, EmissionKinds
    <3>2. QED
      BY <3>1, EmissionKinds, <2>1 DEF Notify
  <2>5. h \in Frame /\ h.fn = "channel_notify" /\ h.b = b
    <3>1. "channel_notify" \in HandlerName
      BY DEF HandlerName
    <3>2. QED
      BY <3>1, HandlersDiffer DEF Handler
  <2>6. PICK g \in Frame : g = [Head(stack) EXCEPT !.todo = @ \ {b}]
    BY <1>1, <2>1, EmissionGoesOn
  <2>7. Tail(stack) \in Seq(Frame)
    BY <1>1, <2>1, StackPop
  <2> HIDE DEF e, dst_val
  <2>8. PICK t \in Seq(Frame) : /\ t = <<h>> \o (<<g>> \o Tail(stack)) /\ t # <<>> /\ Head(t) = h
                                /\ stack' = <<e>> \o t
    <3> HIDE DEF h
    <3>1. CallHandler(b, <<e, h>>)
      BY <1>3 DEF ChannelNotify, e, dst_val, h
    <3>2. stack' = (<<e, h>> \o <<g>>) \o Tail(stack)
      BY <2>6, <3>1 DEF CallHandler
    <3>3. (<<e, h>> \o <<g>>) \o Tail(stack) = <<e>> \o (<<h>> \o (<<g>> \o Tail(stack)))
      BY <2>4, <2>5, <2>6, <2>7, TwoInFront
    <3>4. <<g>> \o Tail(stack) \in Seq(Frame)
      BY <2>7, StackPush
    <3>5. PICK u \in Seq(Frame) : u = <<g>> \o Tail(stack)
      BY <3>4
    <3>6. <<h>> \o u \in Seq(Frame) /\ <<h>> \o u # <<>> /\ Head(<<h>> \o u) = h
      BY <2>5, StackPush
    <3>7. QED
      BY <3>2, <3>3, <3>5, <3>6
  <2>9. PICK new : new = object'
    OBVIOUS
  <2>10. \A x \in Obj : new[x] = IF x = o THEN dst_val ELSE object[x]
    <3>1. object' = [object EXCEPT ![o] = dst_val]
      BY <1>3 DEF ChannelNotify, dst_val
    <3>2. object \in [Obj -> UNION {ObjVal[x] \cup {Gone} : x \in Obj}]
      BY <2>1 DEF Types
    <3>3. QED
      BY <2>9, <3>1, <3>2
  <2>11. /\ Len(stack) \in Nat \ {0} /\ DOMAIN stack = 1..Len(stack) /\ stack[1] = Head(stack)
         /\ 1 \in DOMAIN stack
    BY <1>1, <2>1, TailOf
  <2>12. PICK m \in Frame : m = Head(stack) /\ m = stack[1] /\ m.fn = "property-changed"
    BY <1>1, <2>1, <2>11, StackPop
  <2>13. m.v = Unset => Len(stack) = 1
    BY <2>1, <2>11, <2>12 DEF Level, OneValue
  <2>14. ASSUME NEW i \in DOMAIN stack, Valued(stack[i])
         PROVE  Valued(m) /\ stack[i].v = m.v
    <3>1. Takes(stack[1], stack[i].v, object)
      BY <2>1, <2>11, <2>14 DEF Level, OneValue
    <3>2. m.v = Unset \/ m.v = stack[i].v
      BY <2>12, <3>1 DEF Takes
    <3>3. CASE m.v = Unset
      <4>1. i = 1
        <5>1. i \in 1..1
          BY <2>11, <2>13, <3>3
        <5>2. QED
          BY <5>1
      <4>2. QED
        BY <2>12, <2>14, <4>1
    <3>4. CASE m.v # Unset
      BY <2>12, <3>2, <3>4 DEF Valued
    <3>5. QED
      BY <3>3, <3>4
  <2>15. ASSUME Valued(m), Exact(o) PROVE ToChannel[o][dst_val] = m.v
    <3>1. m.v \in Val /\ m.v # Unset
      BY <2>12, <2>15, FrameKinds DEF Valued
    <3>2. dst_val = ToObject[o][m.v] /\ ToObject[o][m.v] # Fail
      BY <1>3, <2>12, <3>1 DEF dst_val, NewObjectValue
    <3>3. QED
      BY <2>15, <3>1, <3>2 DEF Exact, Equal
  <2>16. ASSUME NEW i \in DOMAIN stack, Valued(stack[i]), NEW j \in DOMAIN stack,
                Takes(stack[j], stack[i].v, object)
         PROVE  Takes(stack[j], stack[i].v, new)
    <3>1. stack[j] \in Frame
      BY <2>1, ElementOfSeq, LenProperties
    <3>2. CASE stack[j].fn = "notify"
      <4>1. stack[j].o \in Obj
        BY <3>1, <3>2, FrameKinds
      <4>2. CASE stack[j].o = o
        BY <2>3, <2>10, <2>14, <2>15, <2>16, <3>2, <4>2 DEF Takes
      <4>3. CASE stack[j].o # o
        BY <2>10, <2>16, <3>2, <4>1, <4>3 DEF Takes
      <4>4. QED
        BY <4>2, <4>3
    <3>3. CASE stack[j].fn # "notify"
      BY <2>16, <3>3 DEF Takes
    <3>4. QED
      BY <3>2, <3>3
  <2>17. Level(stack, bindings, cache, new)
    BY <2>1, <2>16, LevelStays
  <2>18. Len(stack) # 1 =>
            /\ Valued(Head(stack)) /\ Head(stack).c = bindings[b].channel
            /\ Head(stack).name = bindings[b].blconf_property
    <3>1. Len(stack) # 1 => Valued(m)
      BY <2>12, <2>13 DEF Valued
    <3>2. m.c = bindings[b].channel /\ m.name = bindings[b].blconf_property
      <4>1. \A d \in stack[1].todo : \/ bindings[d] = Gone
                                     \/ /\ bindings[d].channel = stack[1].c
                                        /\ bindings[d].blconf_property = stack[1].name
        BY <2>1, <2>11, <2>12 DEF Level, Linked
      <4>2. b \in stack[1].todo
        BY <1>1, <2>12
      <4>3. QED
        BY <2>2, <2>12, <4>1, <4>2
    <3>3. QED
      BY <2>12, <3>1, <3>2
  <2>19. Level(t, bindings, cache, new)
    BY <1>1, <2>1, <2>5, <2>6, <2>8, <2>17, <2>18, HandlerLevel
  <2>20. /\ 1 \in DOMAIN stack /\ g.fn = stack[1].fn
         /\ Valued(g) <=> Valued(stack[1])
         /\ Valued(g) => g.c = stack[1].c /\ g.name = stack[1].name /\ g.v = stack[1].v
    BY <1>1, <2>1, <2>6, LikeBefore
  <2>21. /\ Len(t) = Len(stack) + 1 /\ DOMAIN t = 1..Len(t) /\ t[1] = h /\ t[2] = g
         /\ \A j \in DOMAIN t : t[j] = h \/ t[j] = g \/ \E i \in DOMAIN stack : t[j] = stack[i]
    <3> HIDE DEF h
    <3>1. PICK s \in Seq(Frame) : s = stack /\ s # <<>>
      BY <1>1, <2>1
    <3>2. h \in Frame /\ g \in Frame /\ t = <<h>> \o (<<g>> \o Tail(s))
      BY <2>5, <2>6, <2>8, <3>1
    <3>3. /\ Len(t) = Len(s) + 1 /\ DOMAIN t = 1..Len(t) /\ t[1] = h /\ t[2] = g
          /\ \A j \in DOMAIN t : t[j] = h \/ t[j] = g \/ \E i \in DOMAIN s : t[j] = s[i]
      BY <3>1, <3>2, FramesOf
    <3>4. QED
      BY <3>1, <3>3
  <2> HIDE DEF h
  <2>22. ASSUME NEW j \in DOMAIN t, Valued(t[j]) PROVE Valued(m) /\ t[j].v = m.v
    <3>1. CASE t[j] = h
      BY <2>5, <2>22, <3>1 DEF Valued
    <3>2. CASE t[j] = g
      BY <2>12, <2>20, <2>22, <3>2
    <3>3. CASE \E i \in DOMAIN stack : t[j] = stack[i]
      BY <2>14, <2>22, <3>3
    <3>4. QED
      BY <2>21, <3>1, <3>2, <3>3
  <2>23. ASSUME NEW j \in DOMAIN t, Valued(t[j]) PROVE Takes(e, t[j].v, new)
    BY <2>3, <2>4, <2>10, <2>15, <2>22, <2>23 DEF Takes
  <2>24. ASSUME NEW j \in DOMAIN t, t[j].fn = "notify"
         PROVE  \E k \in DOMAIN t : k < j /\ Valued(t[k])
    <3>1. j # 1 /\ j # 2 /\ j \in Int
      BY <2>5, <2>12, <2>20, <2>21, <2>24
    <3>2. j > 2 /\ 2 \in DOMAIN t /\ Len(stack) # 1
      BY <2>11, <2>21, <3>1
    <3>3. Valued(t[2])
      BY <2>12, <2>18, <2>20, <2>21, <3>2
    <3>4. QED
      BY <3>2, <3>3
  <2>25. ~Valued(e) /\ e.fn # "property-changed" /\ e.fn # "channel_notify"
    BY <2>4 DEF Valued
  <2>26. ASSUME NEW j \in DOMAIN t, Valued(t[j]) PROVE ToObject[e.o][t[j].v] # Fail
    <3>1. Valued(m) /\ t[j].v = m.v
      BY <2>22, <2>26
    <3>2. QED
      BY <1>3, <2>4, <2>12, <3>1 DEF dst_val, NewObjectValue, Valued
  <2>27. Fits(e, t, bindings, cache, new)
    BY <2>4, <2>5, <2>8, <2>23, <2>24, <2>25, <2>26 DEF Fits
  <2>28. Level(<<e>> \o t, bindings, cache, new)
    BY <2>4, <2>19, <2>27, LevelPush
  <2>29. QED
    BY <1>1, <2>8, <2>9, <2>28 DEF LevelInv
<1>4. QED
  BY <1>2, <1>3

LEMMA ReturnLevel ==
    ASSUME LevelInv, stack \in Seq(Frame), stack # <<>>, stack' = Tail(stack),
           UNCHANGED <<cache, object>>,
           \A b \in Binding : \/ bindings'[b] = bindings[b]
                              \/ /\ bindings'[b] = Gone
                                 /\ Calls(Tail(stack), "channel_notify", b) = 0
                                 /\ Calls(Tail(stack), "object_notify", b) = 0
    PROVE  LevelInv'
<1>1. Level(Tail(stack), bindings, cache, object)
  BY LevelPop DEF LevelInv
<1>2. Tail(stack) \in Seq(Frame)
  BY StackPop
<1>3. PICK s \in Seq(Frame) : s = Tail(stack)
  BY <1>2
<1>4. PICK new : new = bindings'
  OBVIOUS
<1>5. \A b \in Binding : \/ new[b] = bindings[b]
                         \/ /\ new[b] = Gone /\ Calls(s, "channel_notify", b) = 0
                            /\ Calls(s, "object_notify", b) = 0
  BY <1>3, <1>4
<1>6. Level(s, bindings, cache, object)
  BY <1>1, <1>3
<1>7. Level(s, new, cache, object)
  BY <1>5, <1>6, LevelStays
<1>8. QED
  BY <1>3, <1>4, <1>7 DEF LevelInv

LEMMA CallsEndLevel ==
    ASSUME BindInv, LevelInv, Return
    PROVE  LevelInv'
<1>1. Types /\ BlocksMatch /\ stack \in Seq(Frame)
  BY DEF BindInv, Types
<1>2. CASE Emitted
  <2>1. stack # <<>> /\ stack' = Tail(stack) /\ UNCHANGED <<cache, object, bindings>>
    BY <1>2 DEF Emitted, chanVars, bindVars
  <2>2. QED
    BY <1>1, <2>1, ReturnLevel
<1>3. CASE ChannelNotifyReturns
  <2>1. stack # <<>> /\ stack' = Tail(stack) /\ UNCHANGED <<cache, object, bindings>>
    BY <1>3 DEF ChannelNotifyReturns, In, chanVars, bindVars
  <2>2. QED
    BY <1>1, <2>1, ReturnLevel
<1>4. CASE BindReturns
  <2>1. stack # <<>> /\ stack' = Tail(stack) /\ UNCHANGED <<cache, object, bindings>>
    BY <1>4 DEF BindReturns, In, chanVars
  <2>2. QED
    BY <1>1, <2>1, ReturnLevel
<1>5. CASE ObjectNotifyReturns
  <2>1. /\ stack # <<>> /\ Head(stack).fn = "object_notify" /\ stack' = Tail(stack)
        /\ UNCHANGED <<cache, object>>
        /\ IF Head(stack).b \in object_handler \cup Running("object_notify")'
           THEN UNCHANGED bindVars ELSE ObjectDisconnect({Head(stack).b})
    BY <1>5 DEF ObjectNotifyReturns, In, chanVars
  <2>2. PICK b \in Binding : Head(stack) = Handler("object_notify", b) /\ Head(stack).b = b
    <3>1. Head(stack) \in Frame /\ "object_notify" \in HandlerName
      BY <1>1, <2>1, StackPop DEF HandlerName
    <3>2. QED
      BY <2>1, <3>1, FrameKinds
  <2>3. Calls(Tail(stack), "channel_notify", b) = 0
    <3>1. Calls(stack, "object_notify", b) > 0
      BY <1>1, <2>1, <2>2, StackPop, RunningIsCalled DEF HandlerName
    <3>2. Calls(stack, "channel_notify", b) = 0
      <4>1. /\ object_block[b] = Calls(stack, "channel_notify", b)
            /\ channel_block[b] = Calls(stack, "object_notify", b)
            /\ object_block[b] = 0 \/ channel_block[b] = 0
        BY <1>1 DEF BlocksMatch
      <4>2. QED
        BY <3>1, <4>1
    <3>3. /\ Calls(stack, "channel_notify", b) = Calls(Tail(stack), "channel_notify", b)
                + IF Head(stack) = Handler("channel_notify", b) THEN 1 ELSE 0
          /\ Calls(Tail(stack), "channel_notify", b) \in Nat
      BY <1>1, <2>1, StackPop DEF HandlerName
    <3>4. QED
      BY <3>2, <3>3
  <2>4. CASE UNCHANGED bindVars
    BY <1>1, <2>1, <2>4, ReturnLevel DEF bindVars
  <2>5. CASE b \notin Running("object_notify")' /\ ObjectDisconnect({b})
    <3>1. stack' \in Seq(Frame) /\ stack' = Tail(stack)
      BY <1>1, <2>1, StackPop
    <3>2. /\ Calls(stack', "object_notify", b) \in Nat
          /\ b \in {stack'[i].b : i \in {j \in DOMAIN stack' : stack'[j].fn = "object_notify"}}
               <=> Calls(stack', "object_notify", b) > 0
      BY <3>1, RunningIsCalled DEF HandlerName
    <3>3. Calls(Tail(stack), "object_notify", b) = 0
      BY <2>5, <3>1, <3>2 DEF Running
    <3>4. \A d \in Binding : \/ bindings'[d] = bindings[d]
                             \/ /\ bindings'[d] = Gone
                                /\ Calls(Tail(stack), "channel_notify", d) = 0
                                /\ Calls(Tail(stack), "object_notify", d) = 0
      BY <2>3, <2>5, <3>3 DEF ObjectDisconnect
    <3>5. QED
      BY <1>1, <2>1, <3>4, ReturnLevel
  <2>6. QED
    BY <2>1, <2>2, <2>4, <2>5
<1>6. QED
  BY <1>2, <1>3, <1>4, <1>5 DEF Return

LEMMA UnbindLevel ==
    ASSUME BindInv, LevelInv, NEW b \in Binding, Unbind(b)
    PROVE  LevelInv'
<1>1. /\ stack \in Seq(Frame) /\ Level(stack, bindings, cache, object)
      /\ UNCHANGED <<cache, object, stack>> /\ b \notin Running("channel_notify")
      /\ bindings' = bindings \/ (b \notin Running("object_notify") /\ ObjectDisconnect({b}))
  BY DEF BindInv, Types, LevelInv, Unbind, chanVars
<1>2. CASE bindings' = bindings
  BY <1>1, <1>2 DEF LevelInv
<1>3. CASE b \notin Running("object_notify") /\ ObjectDisconnect({b})
  <2>1. ASSUME NEW fn \in {"channel_notify", "object_notify"} PROVE Calls(stack, fn, b) = 0
    <3>1. /\ Calls(stack, fn, b) \in Nat
          /\ b \in {stack[i].b : i \in {j \in DOMAIN stack : stack[j].fn = fn}}
               <=> Calls(stack, fn, b) > 0
      BY <1>1, RunningIsCalled DEF HandlerName
    <3>2. QED
      BY <1>1, <1>3, <3>1 DEF Running
  <2>2. Calls(stack, "channel_notify", b) = 0 /\ Calls(stack, "object_notify", b) = 0
    BY <2>1
  <2>3. PICK new : new = bindings'
    OBVIOUS
  <2>4. \A d \in Binding : \/ new[d] = bindings[d]
                           \/ /\ new[d] = Gone /\ Calls(stack, "channel_notify", d) = 0
                              /\ Calls(stack, "object_notify", d) = 0
    BY <1>3, <2>2, <2>3 DEF ObjectDisconnect
  <2>5. Level(stack, new, cache, object)
    BY <1>1, <2>4, LevelStays
  <2>6. QED
    BY <1>1, <2>3, <2>5 DEF LevelInv
<1>4. QED
  BY <1>1, <1>2, <1>3

\* No call in progress, or the first ones.
LEMMA NoCalls == \A bs, ca, obj : Level(<<>>, bs, ca, obj)
BY DEF Level, OneValue, Distinct, Between, Converts, Linked

LEMMA OneCall ==
    ASSUME NEW f \in Frame, NEW bs, NEW ca, NEW obj,
           f.fn # "channel_notify",
           f.fn = "property-changed" =>
               /\ \A b \in f.todo : bs[b].channel = f.c /\ bs[b].blconf_property = f.name
               /\ Told(f, ca)
    PROVE  Level(<<f>>, bs, ca, obj)
<1>1. PICK s \in Seq(Frame) : s = <<>>
  BY EmptySeq
<1>2. Level(s, bs, ca, obj)
  BY <1>1, NoCalls
<1>3. DOMAIN s = {}
  BY <1>1
<1>4. Fits(f, s, bs, ca, obj)
  BY <1>1, <1>3 DEF Fits, Valued
<1>5. Level(<<f>> \o s, bs, ca, obj)
  BY <1>2, <1>4, LevelPush
<1>6. <<f>> \o s = <<f>>
  BY <1>1
<1>7. QED
  BY <1>5, <1>6

LEMMA MainLoopLevel ==
    ASSUME \/ InitLibrary \/ Shutdown \/ UnbindAll
           \/ \E c \in Chan : NewChannel(c) \/ FinalizeChannel(c)
           \/ \E o \in Obj : FinalizeObject(o)
    PROVE  LevelInv'
<1>1. stack' = <<>>
  BY DEF InitLibrary, Shutdown, UnbindAll, NewChannel, FinalizeChannel, FinalizeObject, MainLoop
<1>2. Level(<<>>, bindings', cache', object')
  BY NoCalls
<1>3. QED
  BY <1>1, <1>2 DEF LevelInv

LEMMA ObjectSetLevel ==
    ASSUME BindInv, NEW o \in Obj, NEW x \in ObjVal[o], ObjectSet(o, x)
    PROVE  LevelInv'
<1>1. stack' = <<Notify(o)>> /\ Types
  BY DEF ObjectSet, BindInv
<1>2. PICK f \in Frame : f = Notify(o) /\ f.fn = "notify"
  BY <1>1, EmissionKinds
<1>3. \A bs, ca, obj : Level(<<f>>, bs, ca, obj)
  BY <1>2, OneCall
<1>4. Level(<<f>>, bindings', cache', object')
  BY <1>3
<1>5. QED
  BY <1>1, <1>2, <1>4 DEF LevelInv

LEMMA CacheChangesLevel ==
    ASSUME BindInv, NEW c \in Chan, NEW path \in Path, NEW v \in Val \cup {Unset},
           CacheChanges(c, path, v)
    PROVE  LevelInv'
<1>1. /\ stack' = <<Emit(c, path, v)>> /\ bindings' = bindings
      /\ Store(c, path, v) /\ IsPrefix(PropertyBase[c], path) /\ Types
  BY DEF CacheChanges, bindVars, BindInv
<1>2. PICK f \in Frame : f = Emit(c, path, v)
  BY <1>1, EmissionKinds
<1>3. /\ f.fn = "property-changed" /\ f.c = c /\ f.name = Relayed(c, path) /\ f.v = v
      /\ \A b \in f.todo : bindings[b].channel = f.c /\ bindings[b].blconf_property = f.name
  BY <1>2 DEF Emit, Emission
<1>4. PICK new, obj : new = cache' /\ obj = object'
  OBVIOUS
<1>5. Told(f, new)
  <2>1. \A p \in Path : cache'[c][p] = IF p = path THEN v ELSE cache[c][p]
    BY <1>1, StoreKinds DEF Types
  <2>2. QED
    BY <1>1, <1>3, <1>4, <2>1, RelayedIsOne DEF Told
<1>6. Level(<<f>>, bindings, new, obj)
  BY <1>3, <1>5, OneCall
<1>7. QED
  BY <1>1, <1>2, <1>4, <1>6 DEF LevelInv

LEMMA CacheIsSilentLevel ==
    ASSUME BindInv, NEW c \in Chan, CacheIsSilent(c)
    PROVE  LevelInv'
<1>1. stack' = <<>>
  BY CacheIsSilentKinds DEF BindInv, Types, MainLoop
<1>2. Level(<<>>, bindings', cache', object')
  BY NoCalls
<1>3. QED
  BY <1>1, <1>2 DEF LevelInv

LEMMA BindLevel ==
    ASSUME BindInv, NEW b \in Binding, NEW bd \in Bindable[b], Bind(b, bd)
    PROVE  LevelInv'
<1> DEFINE o == bd.object
<1>1. o \in Obj
  BY DataKinds DEF BindingData
<1> HIDE DEF o
<1>2. /\ Types
      /\ \/ stack' = <<Handler("init", b)>>
         \/ stack' = <<Notify(o), Handler("channel_notify", b), Handler("init", b)>>
  BY DEF Bind, Transfer, BindInv, o
<1>3. PICK init \in Frame : init = Handler("init", b) /\ init.fn = "init"
  <2>1. "init" \in HandlerName
    BY DEF HandlerName
  <2>2. Handler("init", b) \in Frame
    BY <2>1, HandlersDiffer
  <2>3. Handler("init", b).fn = "init"
    BY DEF Handler
  <2>4. QED
    BY <2>2, <2>3
<1>4. PICK note \in Frame : note = Handler("channel_notify", b) /\ note.fn = "channel_notify"
  <2>1. "channel_notify" \in HandlerName
    BY DEF HandlerName
  <2>2. Handler("channel_notify", b) \in Frame
    BY <2>1, HandlersDiffer
  <2>3. Handler("channel_notify", b).fn = "channel_notify"
    BY DEF Handler
  <2>4. QED
    BY <2>2, <2>3
<1>5. PICK n \in Frame : n = Notify(o) /\ n.fn = "notify"
  BY <1>1, <1>2, EmissionKinds
<1>6. PICK bs, ca, obj : bs = bindings' /\ ca = cache' /\ obj = object'
  OBVIOUS
<1>7. PICK r \in Seq(Frame) : r = <<init>> /\ Len(r) = 1 /\ r[1] = init /\ Level(r, bs, ca, obj)
  <2>1. init \in Frame
    BY <1>3
  <2>2. Level(<<init>>, bs, ca, obj)
    BY <1>3, OneCall
  <2>3. <<init>> \in Seq(Frame) /\ Len(<<init>>) = 1 /\ <<init>>[1] = init
    BY <2>1
  <2>4. QED
    BY <2>2, <2>3
<1>8. ~Valued(init) /\ ~Valued(note) /\ ~Valued(n)
  BY <1>3, <1>4, <1>5 DEF Valued
<1>9. PICK t \in Seq(Frame) : t = <<note>> \o r
  BY <1>4, StackPush
<1>10. Len(t) = 2 /\ DOMAIN t = 1..2 /\ t[1] = note /\ t[2] = init /\ Head(t) = note
  <2>1. LET a == <<note>> \o r
        IN  /\ Len(a) = Len(r) + 1 /\ DOMAIN a = 1..Len(a) /\ a[1] = note
            /\ \A i \in DOMAIN a : i # 1 => a[i] = r[i - 1]
    BY ConsAt
  <2>2. /\ Len(t) = 1 + 1 /\ DOMAIN t = 1..Len(t) /\ t[1] = note
        /\ \A i \in DOMAIN t : i # 1 => t[i] = r[i - 1]
    BY <1>7, <1>9, <2>1
  <2>3. 2 \in DOMAIN t /\ 2 # 1
    BY <2>2
  <2>4. t[2] = r[2 - 1]
    BY <2>2, <2>3
  <2>5. Head(<<note>> \o r) = note
    BY StackPush
  <2>6. QED
    BY <1>7, <1>9, <2>2, <2>4, <2>5
<1>11. Level(t, bs, ca, obj)
  <2>1. Head(r) = init
    BY <1>7
  <2>2. Fits(note, r, bs, ca, obj)
    <3>1. \A j \in DOMAIN r : ~Valued(r[j])
      BY <1>7, <1>8
    <3>2. QED
      BY <1>3, <1>4, <1>7, <1>8, <2>1, <3>1 DEF Fits
  <2>3. QED
    BY <1>7, <1>9, <2>2, LevelPush
<1>12. Level(<<n>> \o t, bs, ca, obj)
  <2>1. \A j \in DOMAIN t : ~Valued(t[j]) /\ t[j].fn # "notify"
    <3>1. \A j \in 1..2 : j = 1 \/ j = 2
      OBVIOUS
    <3>2. QED
      BY <1>3, <1>4, <1>8, <1>10, <3>1
  <2>2. Fits(n, t, bs, ca, obj)
    BY <1>4, <1>5, <1>8, <1>10, <2>1 DEF Fits
  <2>3. QED
    BY <1>11, <2>2, LevelPush
<1>13. <<n, note, init>> = <<n>> \o t
  BY <1>10, ThreeCalls
<1>14. Level(stack', bs, ca, obj)
  <2>1. stack' = r \/ stack' = <<n>> \o t
    BY <1>2, <1>3, <1>4, <1>5, <1>7, <1>13
  <2>2. QED
    BY <1>7, <1>12, <2>1
<1>15. QED
  BY <1>6, <1>14 DEF LevelInv

LEMMA InitLevel == Init => LevelInv
BY NoCalls DEF Init, LevelInv

LEMMA NextLevel ==
    ASSUME BindInv, EchoInv, LevelInv, [Next]_vars
    PROVE  LevelInv'
<1>1. CASE Call
  BY <1>1, ObjectNotifyLevel, ChannelNotifyLevel DEF Call
<1>2. CASE Return
  BY <1>2, CallsEndLevel
<1>3. CASE Program
  <2>1. CASE \/ InitLibrary \/ Shutdown \/ UnbindAll
             \/ \E c \in Chan : NewChannel(c) \/ FinalizeChannel(c)
             \/ \E o \in Obj : FinalizeObject(o)
    BY <2>1, MainLoopLevel
  <2>2. CASE \E o \in Obj : \E x \in ObjVal[o] : ObjectSet(o, x)
    BY <2>2, ObjectSetLevel
  <2>3. CASE \E b \in Binding : Unbind(b)
    BY <2>3, UnbindLevel
  <2>4. CASE \E b \in Binding : \E bd \in Bindable[b] : Bind(b, bd)
    BY <2>4, BindLevel
  <2>5. QED
    BY <1>3, <2>1, <2>2, <2>3, <2>4 DEF Program
<1>4. CASE Cache
  BY <1>4, CacheChangesLevel, CacheIsSilentLevel DEF Cache
<1>5. CASE UNCHANGED vars
  BY <1>5 DEF vars, chanVars, bindVars, LevelInv
<1>6. QED
  BY <1>1, <1>2, <1>3, <1>4, <1>5 DEF Next

\* A handler of a binding is called once by the outermost emission, or is the
\* innermost call, and once by the emission of the binding's own property, of
\* which there is one.
LEMMA CalledTwice ==
    ASSUME NEW s \in Seq(Frame), NEW bs, NEW ca, NEW obj, Level(s, bs, ca, obj),
           NEW b \in Binding, NEW fn \in {"object_notify", "channel_notify"}
    PROVE  /\ IsFiniteSet({i \in DOMAIN s : s[i] = Handler(fn, b)})
           /\ Cardinality({i \in DOMAIN s : s[i] = Handler(fn, b)}) <= 2
<1> DEFINE at == {i \in DOMAIN s : s[i] = Handler(fn, b)}
           end == IF fn = "object_notify" THEN 1 ELSE Len(s) - 1
           next == IF fn = "object_notify" THEN -1 ELSE 1
<1>1. /\ Len(s) \in Nat /\ DOMAIN s = 1..Len(s)
      /\ \A f : f = Handler(fn, b) => f.fn = fn /\ f.b = b
  BY LenProperties DEF Handler
<1>2. \A i \in at : i \in DOMAIN s /\ i \in Int /\ s[i].fn = fn /\ s[i].b = b
  BY <1>1
<1> DEFINE key == IF fn = "object_notify" THEN Name(bs[b]) ELSE bs[b].blconf_property
<1>3. ASSUME NEW i \in at, i # end
      PROVE  /\ Valued(s[i + next]) /\ s[i + next].c = bs[b].channel /\ s[i + next].name = key
             /\ i + next \in DOMAIN s
  <2>1. CASE fn = "object_notify"
    <3>1. s[i].fn = "object_notify" /\ i # 1 /\ s[i].b = b /\ i \in DOMAIN s
      BY <1>2, <1>3, <2>1
    <3>2. Valued(s[i - 1]) /\ s[i - 1].c = bs[b].channel /\ s[i - 1].name = Name(bs[b])
      BY <3>1 DEF Level, Linked
    <3>3. i - 1 \in DOMAIN s /\ i + next = i - 1 /\ key = Name(bs[b])
      BY <1>1, <2>1, <3>1
    <3>4. QED
      BY <3>2, <3>3
  <2>2. CASE fn = "channel_notify"
    <3>1. s[i].fn = "channel_notify" /\ i + 1 # Len(s) /\ s[i].b = b /\ i \in DOMAIN s
      <4>1. i # Len(s) - 1
        BY <1>3, <2>2
      <4>2. QED
        BY <1>1, <1>2, <2>2, <4>1
    <3>2. /\ i + 1 \in DOMAIN s
          /\ Valued(s[i + 1]) /\ s[i + 1].c = bs[b].channel /\ s[i + 1].name = bs[b].blconf_property
      BY <3>1 DEF Level, Linked
    <3>3. i + next = i + 1 /\ key = bs[b].blconf_property
      BY <2>2
    <3>4. QED
      BY <3>2, <3>3
  <2>3. QED
    BY <2>1, <2>2
<1>4. next \in Int
  OBVIOUS
<1> HIDE DEF next, key, end
<1>5. ASSUME NEW i \in at, i # end, NEW j \in at, j # end PROVE i = j
  <2>1. /\ Valued(s[i + next]) /\ s[i + next].c = bs[b].channel /\ s[i + next].name = key
        /\ i + next \in DOMAIN s
        /\ Valued(s[j + next]) /\ s[j + next].c = bs[b].channel /\ s[j + next].name = key
        /\ j + next \in DOMAIN s
    BY <1>3, <1>5
  <2>2. i + next = j + next
    BY <2>1 DEF Level, Distinct
  <2>3. i \in Int /\ j \in Int
    BY <1>2
  <2>4. QED
    BY <1>4, <2>2, <2>3
<1> HIDE DEF at
<1>6. \E k : at \subseteq {end, k}
  <2>1. CASE \E i \in at : i # end
    <3>1. PICK i \in at : i # end
      BY <2>1
    <3>2. \A j \in at : j = end \/ j = i
      BY <1>5, <3>1
    <3>3. QED
      BY <3>2
  <2>2. CASE \A i \in at : i = end
    <3>1. at \subseteq {end, end}
      BY <2>2
    <3>2. QED
      BY <3>1
  <2>3. QED
    BY <2>1, <2>2
<1>7. PICK k : at \subseteq {end, k}
  BY <1>6
<1>8. IsFiniteSet({end, k}) /\ Cardinality({end, k}) <= 2
  <2>1. IsFiniteSet({k}) /\ Cardinality({k}) = 1
    BY FS_Singleton
  <2>2. /\ IsFiniteSet({k} \cup {end})
        /\ Cardinality({k} \cup {end}) = IF end \in {k} THEN Cardinality({k}) ELSE Cardinality({k}) + 1
    BY <2>1, FS_AddElement
  <2>3. {k} \cup {end} = {end, k}
    OBVIOUS
  <2>4. \A x, y, z : x = 1 /\ y \in {x, x + 1} /\ z = y => z <= 2
    OBVIOUS
  <2>5. Cardinality({k} \cup {end}) \in {Cardinality({k}), Cardinality({k}) + 1}
    BY <2>2, Zenon
  <2>6. Cardinality({k} \cup {end}) <= 2
    BY <2>1, <2>4, <2>5
  <2>7. QED
    BY <2>2, <2>3, <2>6
<1>9. IsFiniteSet(at) /\ Cardinality(at) <= Cardinality({end, k})
  BY <1>7, <1>8, FS_Subset
<1>10. Cardinality(at) \in Nat /\ Cardinality({end, k}) \in Nat
  BY <1>8, <1>9, FS_CardinalityType
<1>11. IsFiniteSet(at) /\ Cardinality(at) <= 2
  BY <1>8, <1>9, <1>10
<1>12. QED
  BY <1>11 DEF at

\* However bindings are chained, handlers that call handlers come to an end: no
\* binding's handler is in progress more than twice, since each emission on the
\* way tells of another property of a channel, the cache emitting nothing when
\* it holds the value already (blconf_g_property_object_notify and
\* blconf_g_property_channel_notify).  That is what an object bound twice must
\* grant it: a value that comes back as it went, and that is no array, which
\* _blconf_gvalue_is_equal never finds equal.
THEOREM HandlersEnd ==
    ASSUME InexactBoundOnce
    PROVE  Spec => []NestingEnds
<1>1. BindInv /\ LevelInv => NestingEnds
  <2>1. SUFFICES ASSUME BindInv, LevelInv, NEW b \in Binding, NEW fn \in {"object_notify", "channel_notify"}
                 PROVE  Cardinality({i \in DOMAIN stack : stack[i] = Handler(fn, b)}) <= 2
    BY DEF NestingEnds
  <2>2. stack \in Seq(Frame) /\ Level(stack, bindings, cache, object)
    BY <2>1 DEF BindInv, Types, LevelInv
  <2>3. QED
    BY <2>2, CalledTwice
<1>2. BindInv /\ EchoInv /\ LevelInv /\ [Next]_vars => (BindInv /\ EchoInv /\ LevelInv)'
  BY NextBind, NextEcho, NextLevel
<1>3. Init => BindInv /\ EchoInv /\ LevelInv
  BY InitBind, InitEcho, InitLevel
<1>4. QED
  BY <1>1, <1>2, <1>3, PTL DEF Spec

\* What the cache told nobody of are properties of channels.
SilentInv == silent \subseteq Chan \X Path

LEMMA SilentStays ==
    ASSUME BindInv, SilentInv, [Next]_vars
    PROVE  SilentInv'
<1> USE DEF SilentInv
<1>1. Types /\ cache \in [Chan -> [Path -> Val \cup {Unset}]]
  BY DEF BindInv, Types
<1>2. ASSUME NEW b \in Binding, ObjectNotify(b) PROVE SilentInv'
  <2>1. CASE b \notin object_handler \/ object_block[b] > 0
    BY <1>2, <2>1 DEF ObjectNotify
  <2>2. CASE b \in object_handler /\ ~(object_block[b] > 0)
    <3>1. \E changed \in BOOLEAN :
             CacheSet(bindings[b].channel, RealProp(bindings[b].channel, bindings[b].blconf_property),
                      ToChannel[bindings[b].object][object[bindings[b].object]], changed)
      BY <1>2, <2>2 DEF ObjectNotify
    <3>2. PICK c, path, v, changed :
             /\ c = bindings[b].channel /\ path = RealProp(c, bindings[b].blconf_property)
             /\ CacheSet(c, path, v, changed)
      BY <3>1
    <3>3. c \in Chan /\ path \in Path
      <4>1. Parts(b)
        BY DEF BindInv, PartsMatch
      <4>2. bindings[b] \in BindingData
        BY <1>1, <2>2, <4>1 DEF Parts, Types
      <4>3. QED
        BY <3>2, <4>2, DataKinds
    <3>4. silent' \subseteq silent \cup {<<c, path>>}
      BY <3>2 DEF CacheSet, Lookup, Store, StoreSilently
    <3>5. QED
      BY <3>3, <3>4
  <2>3. QED
    BY <2>1, <2>2
<1>3. ASSUME NEW b \in Binding, NEW bd \in Bindable[b], Bind(b, bd) PROVE SilentInv'
  <2>1. PICK c, path, v : /\ c = bd.channel /\ path = RealProp(c, bd.blconf_property)
                          /\ Lookup(c, path, v)
    BY <1>3 DEF Bind
  <2>2. c \in Chan /\ path \in Path
    BY <2>1, DataKinds DEF BindingData
  <2>3. silent' \subseteq silent \cup {<<c, path>>}
    BY <2>1 DEF Lookup, StoreSilently
  <2>4. QED
    BY <2>2, <2>3
<1>4. ASSUME NEW c \in Chan, CacheIsSilent(c) PROVE SilentInv'
  BY <1>1, <1>4, CacheIsSilentKinds
<1>5. ASSUME NEW c \in Chan, NEW path \in Path, NEW v \in Val \cup {Unset}, CacheChanges(c, path, v)
      PROVE  SilentInv'
  BY <1>5 DEF CacheChanges, Store
<1>6. CASE Program
  <2>1. silent' \subseteq silent \/ \E b \in Binding : \E bd \in Bindable[b] : Bind(b, bd)
    BY <1>6 DEF Program, InitLibrary, BlconfInit, Shutdown, BlconfShutdown, Dispose, UnbindAll,
                NewChannel, Constructor, FinalizeChannel, Unref, FinalizeObject, ObjectSet, Unbind,
                chanVars
  <2>2. QED
    BY <1>3, <2>1
<1>7. CASE Return \/ \E b \in Binding : ChannelNotify(b)
  BY <1>7 DEF Return, Emitted, ObjectNotifyReturns, ChannelNotifyReturns, BindReturns, ChannelNotify,
              chanVars
<1>8. CASE UNCHANGED vars
  BY <1>8 DEF vars, chanVars
<1>9. QED
  BY <1>2, <1>4, <1>5, <1>6, <1>7, <1>8 DEF Next, Call, Cache

\* The types of the state; a handler is blocked twice at most, once for every
\* call of the other one that is in progress (g_signal_handler_block and
\* _unblock count), if an object that loses values or takes arrays is bound once.
THEOREM BindingTypes ==
    ASSUME InexactBoundOnce
    PROVE  Spec => []TypeOK
<1>1. ASSUME BindInv, LevelInv, SilentInv PROVE TypeOK
  <2>1. Types /\ BlocksMatch /\ stack \in Seq(Frame) /\ Level(stack, bindings, cache, object)
    BY <1>1 DEF BindInv, Types, LevelInv
  <2>2. ASSUME NEW b \in Binding, NEW fn \in {"object_notify", "channel_notify"}
        PROVE  Calls(stack, fn, b) \in 0..2
    <3>1. Cardinality({i \in DOMAIN stack : stack[i] = Handler(fn, b)}) <= 2
      BY <2>1, CalledTwice
    <3>2. {i \in DOMAIN stack : stack[i] \in {Handler(fn, b)}}
            = {i \in DOMAIN stack : stack[i] = Handler(fn, b)}
      OBVIOUS
    <3>3. Calls(stack, fn, b) <= 2
      BY <3>1, <3>2 DEF Calls, Count, Positions
    <3>4. Calls(stack, fn, b) \in Nat
      BY <2>1, CountType DEF Calls
    <3>5. QED
      BY <3>3, <3>4
  <2>3. \A b \in Binding : object_block[b] \in 0..2 /\ channel_block[b] \in 0..2
    BY <2>1, <2>2 DEF BlocksMatch
  <2>4. QED
    BY <1>1, <2>1, <2>3 DEF TypeOK, Types, SilentInv
<1>2. BindInv /\ EchoInv /\ LevelInv /\ SilentInv /\ [Next]_vars
        => (BindInv /\ EchoInv /\ LevelInv /\ SilentInv)'
  BY NextBind, NextEcho, NextLevel, SilentStays
<1>3. Init => BindInv /\ EchoInv /\ LevelInv /\ SilentInv
  BY InitBind, InitEcho, InitLevel DEF Init, SilentInv
<1>4. QED
  BY <1>1, <1>2, <1>3, PTL DEF Spec

-----------------------------------------------------------------------------
(* Objects agree with their channels.                                      *)

\* The item of a binding in a cache, its value, and that the object shows it.
ItemOf(bd) == <<bd.channel, RealProp(bd.channel, bd.blconf_property)>>

Held(bd, ca) == ca[bd.channel][RealProp(bd.channel, bd.blconf_property)]

Agrees(bd, ca, obj) ==
    Held(bd, ca) # Unset /\ ToObject[bd.object][Held(bd, ca)] # Fail =>
        obj[bd.object] = ToObject[bd.object][Held(bd, ca)]

\* An object shows w, if w is a value that it can show.
Shows(o, w, obj) == w \in Val => ToObject[o][w] \in {obj[o], Fail}

\* A call f passes w on: an emission tells of it, or of a removal that sets
\* objects to what is w in the channel; an object that is notified of would set
\* it; and a binding whose handler is in progress has it on both sides.
Passes(f, w, bs, ca, obj) ==
    /\ f.fn = "property-changed" =>
          /\ f.v \in {Unset, w}
          /\ f.v = Unset => \A o \in Obj \ Boxed : ToChannel[o][Default[o]] = w
          /\ \A p \in Path : Relayed(f.c, p) = f.name => ca[f.c][p] \in {Unset, w}
    /\ f.fn = "notify" /\ Exact(f.o) => ToChannel[f.o][obj[f.o]] = w
    /\ f.fn \in HandlerName /\ bs[f.b] # Gone =>
          /\ Shows(bs[f.b].object, w, obj)
          /\ f.fn = "channel_notify" => Held(bs[f.b], ca) \in {Unset, w}
          /\ f.fn = "init" => Held(bs[f.b], ca) = w

\* So do all calls in progress, and so would the object the program has set,
\* even if it loses some of the channel's values.
AllPass(s, w, bs, ca, obj) ==
    /\ \A i \in DOMAIN s : Passes(s[i], w, bs, ca, obj)
    /\ s # <<>> /\ Last(s).fn = "notify" => ToChannel[Last(s).o][obj[Last(s).o]] = w

\* An emission has still to call a handler of the binding.
Owes(f, b) ==
    /\ f.fn \in {"notify", "property-changed"} /\ b \in f.todo
    /\ f.fn = "property-changed" => f.v # Unset
Pending(b, s) == \E i \in DOMAIN s : Owes(s[i], b)

Agreement(s, bs, ca, obj, S) ==
    /\ \E w \in Val \cup {Unset} : AllPass(s, w, bs, ca, obj)
    /\ \A b \in S : Agrees(bs[b], ca, obj) \/ Pending(b, s)

\* The bindings whose item was not changed without an emission.
Compared == {b \in Bound : ItemOf(bindings[b]) \notin silent}

AgreeInv == Agreement(stack, bindings, cache, object, Compared)

\* A binding that has a value on both sides agrees.
LEMMA ShownAgrees ==
    ASSUME NEW bd, NEW w \in Val \cup {Unset}, NEW ca, NEW obj,
           Shows(bd.object, w, obj), Held(bd, ca) \in {Unset, w}
    PROVE  Agrees(bd, ca, obj)
BY ChannelAssumption DEF Shows, Agrees

\* What the calls pass on, and what they owe, as they come and go.
LEMMA PassPush ==
    ASSUME NEW s \in Seq(Frame), NEW m \in Frame, NEW w, NEW bs, NEW ca, NEW obj,
           AllPass(s, w, bs, ca, obj), Passes(m, w, bs, ca, obj),
           s = <<>> /\ m.fn = "notify" => ToChannel[m.o][obj[m.o]] = w
    PROVE  /\ AllPass(<<m>> \o s, w, bs, ca, obj)
           /\ \A d : Pending(d, s) \/ Owes(m, d) => Pending(d, <<m>> \o s)
<1> DEFINE a == <<m>> \o s
<1>1. /\ Len(s) \in Nat /\ DOMAIN s = 1..Len(s) /\ Len(a) = Len(s) + 1
      /\ DOMAIN a = 1..Len(a) /\ a[1] = m
      /\ \A i \in DOMAIN a : i # 1 => i - 1 \in DOMAIN s /\ a[i] = s[i - 1]
  BY ConsAt
<1>2. \A i \in 1..Len(s) : a[i + 1] = s[i]
  BY CountCons
<1>3. /\ s # <<>> => Last(a) = Last(s)
      /\ s = <<>> => Last(a) = m
  BY StackPush
<1> HIDE DEF a
<1>4. ASSUME NEW i \in DOMAIN a PROVE Passes(a[i], w, bs, ca, obj)
  <2>1. CASE i = 1
    BY <1>1, <2>1
  <2>2. CASE i # 1
    <3>1. i - 1 \in DOMAIN s /\ a[i] = s[i - 1]
      BY <1>1, <2>2
    <3>2. QED
      BY <3>1 DEF AllPass
  <2>3. QED
    BY <2>1, <2>2
<1>5. Last(a).fn = "notify" => ToChannel[Last(a).o][obj[Last(a).o]] = w
  BY <1>3 DEF AllPass
<1>6. ASSUME NEW d, Pending(d, s) PROVE Pending(d, a)
  <2>1. PICK i \in DOMAIN s : Owes(s[i], d)
    BY <1>6 DEF Pending
  <2>2. i + 1 \in DOMAIN a /\ a[i + 1] = s[i]
    BY <1>1, <1>2
  <2>3. QED
    BY <2>1, <2>2 DEF Pending
<1>7. ASSUME NEW d, Owes(m, d) PROVE Pending(d, a)
  <2>1. 1 \in DOMAIN a
    BY <1>1
  <2>2. QED
    BY <1>1, <1>7, <2>1 DEF Pending
<1>8. QED
  BY <1>4, <1>5, <1>6, <1>7 DEF AllPass, a

LEMMA PassPop ==
    ASSUME NEW s \in Seq(Frame), s # <<>>, NEW w, NEW bs, NEW ca, NEW obj,
           AllPass(s, w, bs, ca, obj)
    PROVE  /\ AllPass(Tail(s), w, bs, ca, obj) /\ Passes(Head(s), w, bs, ca, obj)
           /\ \A d : Pending(d, s) => Pending(d, Tail(s)) \/ Owes(Head(s), d)
           /\ Tail(s) = <<>> /\ Head(s).fn = "notify" => ToChannel[Head(s).o][obj[Head(s).o]] = w
<1> DEFINE t == Tail(s)
<1>1. /\ Len(s) \in Nat \ {0} /\ DOMAIN s = 1..Len(s) /\ Head(s) = s[1]
      /\ DOMAIN t = 1..(Len(s) - 1)
      /\ \A i \in 1..(Len(s) - 1) : t[i] = s[i + 1]
  BY TailOf
<1>2. /\ t # <<>> => Last(t) = Last(s)
      /\ t = <<>> => Last(s) = Head(s)
  BY StackPop
<1> HIDE DEF t
<1>3. ASSUME NEW i \in DOMAIN t PROVE Passes(t[i], w, bs, ca, obj)
  <2>1. i + 1 \in DOMAIN s /\ t[i] = s[i + 1]
    BY <1>1, <1>3
  <2>2. QED
    BY <2>1 DEF AllPass
<1>4. t # <<>> /\ Last(t).fn = "notify" => ToChannel[Last(t).o][obj[Last(t).o]] = w
  BY <1>2 DEF AllPass
<1>5. Passes(Head(s), w, bs, ca, obj)
  <2>1. 1 \in DOMAIN s
    BY <1>1
  <2>2. QED
    BY <1>1, <2>1 DEF AllPass
<1>6. ASSUME NEW d, Pending(d, s), ~Owes(Head(s), d) PROVE Pending(d, t)
  <2>1. PICK i \in DOMAIN s : Owes(s[i], d)
    BY <1>6 DEF Pending
  <2>2. i # 1
    BY <1>1, <1>6, <2>1
  <2>3. i - 1 \in 1..(Len(s) - 1) /\ (i - 1) + 1 = i
    BY <1>1, <2>1, <2>2
  <2>4. i - 1 \in DOMAIN t /\ t[i - 1] = s[i]
    BY <1>1, <2>3
  <2>5. QED
    BY <2>1, <2>4 DEF Pending
<1>7. t = <<>> /\ Head(s).fn = "notify" => ToChannel[Head(s).o][obj[Head(s).o]] = w
  BY <1>2 DEF AllPass
<1>8. QED
  BY <1>3, <1>4, <1>5, <1>6, <1>7 DEF AllPass, t

\* What is left of the emission in front.
Without(s, b) == [Head(s) EXCEPT !.todo = @ \ {b}]

\* An emission goes on, and the handler it calls, if it does, has the value.
LEMMA PassTop ==
    ASSUME NEW s \in Seq(Frame), s # <<>>, NEW w, NEW bs, NEW ca, NEW obj,
           AllPass(s, w, bs, ca, obj), Head(s).fn \in {"notify", "property-changed"},
           NEW b, NEW g \in Frame, g = Without(s, b)
    PROVE  /\ AllPass(<<g>> \o Tail(s), w, bs, ca, obj)
           /\ \A d : Pending(d, s) /\ ~(d = b /\ Owes(Head(s), b)) => Pending(d, <<g>> \o Tail(s))
<1>1. Tail(s) \in Seq(Frame) /\ Head(s) \in Frame /\ Head(s) \in Emissions \cup Notifies
  BY StackPop, FrameKinds
<1>2. PICK m : m = Head(s)
  OBVIOUS
<1>3. /\ g.fn = m.fn /\ g.fn \in {"notify", "property-changed"}
      /\ g.fn = "notify" => g.o = m.o
      /\ g.fn = "property-changed" => g.c = m.c /\ g.name = m.name /\ g.v = m.v
      /\ \A d : d # b /\ d \in m.todo => d \in g.todo
  BY <1>1, <1>2 DEF Emissions, Notifies, Without
<1>4. /\ AllPass(Tail(s), w, bs, ca, obj) /\ Passes(m, w, bs, ca, obj)
      /\ \A d : Pending(d, s) => Pending(d, Tail(s)) \/ Owes(m, d)
      /\ Tail(s) = <<>> /\ m.fn = "notify" => ToChannel[m.o][obj[m.o]] = w
  BY <1>2, PassPop
<1>5. g.fn \notin HandlerName
  BY <1>3 DEF HandlerName
<1>6. Passes(g, w, bs, ca, obj)
  BY <1>3, <1>4, <1>5 DEF Passes
<1>7. Tail(s) = <<>> /\ g.fn = "notify" => ToChannel[g.o][obj[g.o]] = w
  BY <1>3, <1>4
<1>8. \A d : d # b /\ Owes(m, d) => Owes(g, d)
  BY <1>3 DEF Owes
<1>9. /\ AllPass(<<g>> \o Tail(s), w, bs, ca, obj)
      /\ \A d : Pending(d, Tail(s)) \/ Owes(g, d) => Pending(d, <<g>> \o Tail(s))
  BY <1>1, <1>4, <1>6, <1>7, PassPush
<1>10. QED
  BY <1>2, <1>4, <1>8, <1>9

LEMMA PassCall ==
    ASSUME NEW s \in Seq(Frame), s # <<>>, NEW w, NEW bs, NEW ca, NEW obj,
           AllPass(s, w, bs, ca, obj), Head(s).fn \in {"notify", "property-changed"},
           NEW b, NEW g \in Frame, g = Without(s, b),
           NEW h \in Frame, h.fn \in HandlerName, Passes(h, w, bs, ca, obj)
    PROVE  /\ AllPass(<<h>> \o (<<g>> \o Tail(s)), w, bs, ca, obj)
           /\ \A d : d # b /\ Pending(d, s) => Pending(d, <<h>> \o (<<g>> \o Tail(s)))
<1>1. Tail(s) \in Seq(Frame)
  BY StackPop
<1>2. PICK u \in Seq(Frame) : u = <<g>> \o Tail(s)
  BY <1>1, StackPush
<1>3. AllPass(u, w, bs, ca, obj) /\ \A d : d # b /\ Pending(d, s) => Pending(d, u)
  BY <1>2, PassTop
<1>4. h.fn # "notify"
  BY DEF HandlerName
<1>5. /\ AllPass(<<h>> \o u, w, bs, ca, obj)
      /\ \A d : Pending(d, u) \/ Owes(h, d) => Pending(d, <<h>> \o u)
  BY <1>3, <1>4, PassPush
<1>6. QED
  BY <1>2, <1>3, <1>5

\* What may change under calls that pass w on: properties that get this value,
\* objects that show it and keep it, and bindings that end.
Follows(w, ca, cb, obj, obk) ==
    /\ \A c \in Chan, p \in Path : cb[c][p] \in {ca[c][p], w}
    /\ \A o \in Obj :
          \/ obk[o] = obj[o]
          \/ /\ Shows(o, w, obk)
             /\ Exact(o) \/ ToChannel[o][obj[o]] = w => ToChannel[o][obk[o]] = w

LEMMA PassStays ==
    ASSUME NEW s \in Seq(Frame), NEW w, NEW bs, NEW ca, NEW obj, AllPass(s, w, bs, ca, obj),
           NEW cs, NEW cb, NEW obk, Follows(w, ca, cb, obj, obk),
           \A b \in Binding : bs[b] \in BindingData \cup {Gone} /\ cs[b] \in {bs[b], Gone}
    PROVE  AllPass(s, w, cs, cb, obk)
<1>1. \A i \in DOMAIN s : s[i] \in Frame
  BY ElementOfSeq, LenProperties
<1>2. ASSUME NEW i \in DOMAIN s PROVE Passes(s[i], w, cs, cb, obk)
  <2>1. PICK f \in Frame : f = s[i] /\ Passes(f, w, bs, ca, obj)
    BY <1>1 DEF AllPass
  <2>2. CASE f.fn = "property-changed"
    <3>1. f.c \in Chan /\ f.fn \notin HandlerName
      BY <2>2, FrameKinds DEF HandlerName
    <3>2. ASSUME NEW p \in Path, Relayed(f.c, p) = f.name PROVE cb[f.c][p] \in {Unset, w}
      <4>1. ca[f.c][p] \in {Unset, w}
        BY <2>1, <2>2, <3>2 DEF Passes
      <4>2. cb[f.c][p] \in {ca[f.c][p], w}
        BY <3>1 DEF Follows
      <4>3. QED
        BY <4>1, <4>2
    <3>3. QED
      BY <2>1, <2>2, <3>1, <3>2 DEF Passes
  <2>3. CASE f.fn = "notify"
    <3>1. f.o \in Obj /\ f.fn \notin HandlerName
      BY <2>3, FrameKinds DEF HandlerName
    <3>2. Exact(f.o) => ToChannel[f.o][obj[f.o]] = w
      BY <2>1, <2>3 DEF Passes
    <3>3. Exact(f.o) => ToChannel[f.o][obk[f.o]] = w
      BY <3>1, <3>2 DEF Follows
    <3>4. QED
      BY <2>1, <2>3, <3>1, <3>3 DEF Passes
  <2>4. CASE f.fn \in HandlerName
    <3>1. f.b \in Binding /\ f.fn # "property-changed" /\ f.fn # "notify"
      BY <2>4, FrameKinds DEF HandlerName
    <3>2. ASSUME cs[f.b] # Gone
          PROVE  /\ Shows(cs[f.b].object, w, obk)
                 /\ f.fn = "channel_notify" => Held(cs[f.b], cb) \in {Unset, w}
                 /\ f.fn = "init" => Held(cs[f.b], cb) = w
      <4>1. PICK d \in BindingData : d = bs[f.b] /\ d = cs[f.b]
        BY <3>1, <3>2
      <4>2. /\ Shows(d.object, w, obj)
            /\ f.fn = "channel_notify" => Held(d, ca) \in {Unset, w}
            /\ f.fn = "init" => Held(d, ca) = w
        BY <2>1, <2>4, <3>2, <4>1 DEF Passes
      <4>3. d.channel \in Chan /\ d.object \in Obj /\ RealProp(d.channel, d.blconf_property) \in Path
        BY DataKinds
      <4>4. Held(d, cb) \in {Held(d, ca), w}
        BY <4>3 DEF Held, Follows
      <4>5. Shows(d.object, w, obk)
        BY <4>2, <4>3 DEF Follows, Shows
      <4>6. QED
        BY <4>1, <4>2, <4>4, <4>5
    <3>3. QED
      BY <2>1, <2>4, <3>1, <3>2 DEF Passes
  <2>5. QED
    BY <2>2, <2>3, <2>4, FrameKinds
<1>3. s # <<>> /\ Last(s).fn = "notify" => ToChannel[Last(s).o][obk[Last(s).o]] = w
  <2>1. ASSUME s # <<>>, Last(s).fn = "notify" PROVE ToChannel[Last(s).o][obk[Last(s).o]] = w
    <3>1. PICK f \in Frame : f = Last(s)
      BY <2>1, LastKinds
    <3>2. f.o \in Obj /\ ToChannel[f.o][obj[f.o]] = w
      BY <2>1, <3>1, FrameKinds DEF AllPass
    <3>3. ToChannel[f.o][obk[f.o]] = w
      BY <3>2 DEF Follows
    <3>4. QED
      BY <3>1, <3>3
  <2>2. QED
    BY <2>1
<1>4. QED
  BY <1>2, <1>3 DEF AllPass

\* A binding whose handler is in progress.
LEMMA CalledPasses ==
    ASSUME NEW s \in Seq(Frame), NEW w, NEW bs, NEW ca, NEW obj, AllPass(s, w, bs, ca, obj),
           NEW fn \in HandlerName, NEW b \in Binding, Calls(s, fn, b) > 0, bs[b] # Gone
    PROVE  /\ Shows(bs[b].object, w, obj)
           /\ fn = "channel_notify" => Held(bs[b], ca) \in {Unset, w}
<1>1. PICK i \in DOMAIN s : s[i].fn = fn /\ s[i].b = b
  BY RunningIsCalled
<1>2. Passes(s[i], w, bs, ca, obj)
  BY DEF AllPass
<1>3. QED
  BY <1>1, <1>2 DEF Passes

\* What a binding that is bound is.
LEMMA BoundIs ==
    ASSUME BindInv, NEW b \in Bound
    PROVE  /\ b \in Binding /\ b \in object_handler /\ b \in channel_handler
           /\ bindings[b] \in BindingData /\ bindings[b] # Gone
<1>1. b \in Binding /\ b \in object_handler /\ b \in channel_handler
  BY DEF Bound, BindInv, Types
<1>2. Types /\ Parts(b)
  BY <1>1 DEF BindInv, PartsMatch
<1>3. QED
  BY <1>1, <1>2 DEF Types, Parts

\* A handler is skipped for a binding that agrees, or that has no part in it.
LEMMA SkipAgree ==
    ASSUME BindInv, AgreeInv, stack # <<>>, Head(stack).fn \in {"notify", "property-changed"},
           NEW b, SkipHandler(b), UNCHANGED <<cache, silent, object, bindVars>>,
           b \in Compared /\ Owes(Head(stack), b) => Agrees(bindings[b], cache, object)
    PROVE  AgreeInv'
<1>1. stack \in Seq(Frame)
  BY DEF BindInv, Types
<1>2. PICK g \in Frame : g = [Head(stack) EXCEPT !.todo = @ \ {b}]
  BY <1>1, EmissionGoesOn
<1>3. PICK t \in Seq(Frame) : t = <<g>> \o Tail(stack) /\ stack' = t
  <2>1. stack' = <<g>> \o Tail(stack)
    BY <1>2 DEF SkipHandler
  <2>2. Tail(stack) \in Seq(Frame)
    BY <1>1, StackPop
  <2>3. QED
    BY <2>1, <2>2, StackPush
<1>4. PICK w \in Val \cup {Unset} : AllPass(stack, w, bindings, cache, object)
  BY DEF AgreeInv, Agreement
<1>5. /\ AllPass(t, w, bindings, cache, object)
      /\ \A d : Pending(d, stack) /\ ~(d = b /\ Owes(Head(stack), b)) => Pending(d, t)
  BY <1>1, <1>2, <1>3, <1>4, PassTop DEF Without
<1>6. ASSUME NEW d \in Compared PROVE Agrees(bindings[d], cache, object) \/ Pending(d, t)
  <2>1. Agrees(bindings[d], cache, object) \/ Pending(d, stack)
    BY DEF AgreeInv, Agreement
  <2>2. QED
    BY <1>5, <2>1
<1>7. Agreement(t, bindings, cache, object, Compared)
  BY <1>4, <1>5, <1>6 DEF Agreement
<1>8. Compared' = Compared /\ UNCHANGED <<bindings, cache, object>>
  BY DEF Compared, Bound, bindVars
<1>9. QED
  BY <1>3, <1>7, <1>8 DEF AgreeInv

\* The one name a channel property has in the bindings of its channel.
LEMMA NameIsProperty ==
    ASSUME NEW d \in BindingData
    PROVE  Name(d) = d.blconf_property
<1>1. PICK b \in Binding : d \in Bindable[b]
  BY DEF BindingData
<1>2. d.channel \in Chan /\ d.blconf_property \in Seq(Piece) /\ d.blconf_property # <<>>
  <2>1. d \in [channel : Chan, blconf_property : Seq(Piece) \ {<<>>}, object : Obj]
    BY <1>1, BindingAssumption
  <2>2. QED
    BY <2>1
<1>3. PICK x \in Seq(Piece), y \in Seq(Piece) : /\ x = PropertyBase[d.channel]
                                                /\ y = d.blconf_property /\ y # <<>>
  BY <1>2, BindingAssumption, ChannelAssumption
<1>4. PICK a : a = x \o y
  OBVIOUS
<1>5. PICK n \in Nat, m \in Nat : n = Len(x) /\ m = Len(y) /\ m # 0 /\ DOMAIN y = 1..m
  BY <1>3, LenProperties, EmptySeq
<1>6. /\ a \in Seq(Piece) /\ Len(a) = n + m /\ DOMAIN a = 1..(n + m)
      /\ \A i \in 1..m : n + i \in 1..(n + m) /\ a[n + i] = y[i]
  <2>1. /\ x \o y \in Seq(Piece) /\ Len(x \o y) = Len(x) + Len(y)
        /\ \A i \in 1..(Len(x) + Len(y)) :
              (x \o y)[i] = IF i <= Len(x) THEN x[i] ELSE y[i - Len(x)]
    BY ConcatProperties
  <2>2. /\ a \in Seq(Piece) /\ Len(a) = n + m
        /\ \A i \in 1..(n + m) : a[i] = IF i <= n THEN x[i] ELSE y[i - n]
    BY <1>4, <1>5, <2>1
  <2>3. ASSUME NEW i \in 1..m PROVE n + i \in 1..(n + m) /\ a[n + i] = y[i]
    <3>1. n + i \in 1..(n + m) /\ ~(n + i <= n) /\ (n + i) - n = i
      BY <1>5
    <3>2. QED
      BY <2>2, <3>1
  <2>4. QED
    BY <2>2, <2>3, LenProperties
<1>7. IsPrefix(x, a) /\ a # x
  <2>1. IsPrefix(PropertyBase[d.channel], RealProp(d.channel, d.blconf_property))
    BY OwnPrefix
  <2>2. Len(a) # Len(x)
    BY <1>5, <1>6
  <2>3. QED
    BY <1>3, <1>4, <2>1, <2>2 DEF RealProp
<1>8. Name(d) = SubSeq(a, n + 1, n + m)
  BY <1>3, <1>4, <1>5, <1>6, <1>7 DEF Name, Relayed, RealProp
<1>9. PICK r \in Seq(Piece) : r = SubSeq(a, n + 1, n + m) /\ Len(r) = m /\ \A i \in 1..m : r[i] = y[i]
  <2>1. \A i \in (n + 1)..(n + m) : a[i] \in Piece
    <3>1. \A i \in (n + 1)..(n + m) : i \in 1..Len(a)
      BY <1>6
    <3>2. QED
      BY <1>6, <3>1, ElementOfSeq
  <2>2. n + 1 \in Int /\ n + m \in Int
    OBVIOUS
  <2>3. /\ SubSeq(a, n + 1, n + m) \in Seq(Piece)
        /\ Len(SubSeq(a, n + 1, n + m)) = IF n + 1 <= n + m THEN (n + m) - (n + 1) + 1 ELSE 0
        /\ \A i \in 1..((n + m) - (n + 1) + 1) :
              SubSeq(a, n + 1, n + m)[i] = a[(n + 1) + i - 1]
    BY <2>1, <2>2, SubSeqProperties
  <2>4. PICK r \in Seq(Piece) : r = SubSeq(a, n + 1, n + m)
    BY <2>3
  <2>5. Len(r) = m
    BY <1>5, <2>3, <2>4
  <2>6. ASSUME NEW i \in 1..m PROVE r[i] = y[i]
    <3>1. i \in 1..((n + m) - (n + 1) + 1) /\ (n + 1) + i - 1 = n + i
      OBVIOUS
    <3>2. QED
      BY <1>6, <2>3, <2>4, <3>1
  <2>7. QED
    BY <2>4, <2>5, <2>6
<1>10. r = y
  BY <1>5, <1>9, SeqEqual
<1>11. QED
  BY <1>3, <1>8, <1>9, <1>10

\* The bindings of a channel property are called by the emission of it.
LEMMA EmissionCalls ==
    ASSUME BindInv, NEW c \in Chan, NEW path \in Path, NEW v \in Val, NEW b \in Bound,
           bindings[b].channel = c, RealProp(c, bindings[b].blconf_property) = path
    PROVE  Owes(Emit(c, path, v), b)
<1>1. b \in channel_handler /\ bindings[b] \in BindingData
  BY BoundIs
<1>2. bindings[b].blconf_property = Relayed(c, path)
  BY <1>1, NameIsProperty DEF Name
<1>3. v # Unset
  BY ChannelAssumption
<1>4. QED
  BY <1>1, <1>2, <1>3 DEF Owes, Emit, Emission

\* What a binding sets on its channel is what is passed on.
LEMMA AnswerIsPassed ==
    ASSUME BindInv, EchoInv, NEW b \in Binding, stack # <<>>, Head(stack).fn = "notify",
           b \in Head(stack).todo, b \in object_handler, ~(object_block[b] > 0),
           NEW w, AllPass(stack, w, bindings, cache, object)
    PROVE  /\ bindings[b] \in BindingData /\ bindings[b] # Gone
           /\ object[bindings[b].object] \in ObjVal[bindings[b].object]
           /\ ToChannel[bindings[b].object][object[bindings[b].object]] = w
<1> DEFINE o == Head(stack).o
<1>1. /\ Types /\ BlocksMatch /\ Parts(b) /\ stack \in Seq(Frame) /\ Alone /\ Nest(stack, bindings)
  BY DEF BindInv, EchoInv, PartsMatch, Types
<1>2. o \in Obj
  <2>1. Head(stack) \in Frame
    BY <1>1, StackPop
  <2>2. QED
    BY <2>1, FrameKinds
<1>3. bindings[b] \in BindingData /\ bindings[b] # Gone /\ bindings[b].object = o
  <2>1. bindings[b] \in BindingData /\ bindings[b] # Gone
    BY <1>1 DEF Parts, Types
  <2>2. \A d \in Head(stack).todo : bindings[d] = Gone \/ bindings[d].object = Head(stack).o
    BY <1>1, NestPop
  <2>3. QED
    BY <2>1, <2>2
<1>4. object[o] \in ObjVal[o]
  BY <1>1, <1>2, <1>3 DEF Parts, Types
<1>5. ASSUME Tail(stack) # <<>> PROVE Exact(o)
  <2>1. PICK d \in Binding : /\ 2 \in DOMAIN stack /\ stack[2] = Handler("channel_notify", d)
                             /\ bindings[d] # Gone /\ bindings[d].object = o
    BY <1>1, <1>5, NestPop
  <2>2. d # b
    <3>1. Calls(stack, "channel_notify", d) > 0
      BY <1>1, <2>1, RunningIsCalled DEF HandlerName
    <3>2. object_block[d] > 0
      BY <1>1, <3>1 DEF BlocksMatch
    <3>3. QED
      BY <3>2
  <2>3. QED
    BY <1>1, <1>2, <1>3, <2>1, <2>2 DEF Alone
<1>6. /\ Passes(Head(stack), w, bindings, cache, object)
      /\ Tail(stack) = <<>> => ToChannel[o][object[o]] = w
  BY <1>1, PassPop
<1>7. ToChannel[o][object[o]] = w
  BY <1>5, <1>6 DEF Passes
<1> HIDE DEF o
<1>8. QED
  BY <1>3, <1>4, <1>7

LEMMA ObjectNotifyAgree ==
    ASSUME RoundTrip, BindInv, EchoInv, AgreeInv, NEW b \in Binding, ObjectNotify(b)
    PROVE  AgreeInv'
<1> DEFINE bd == bindings[b]
           path == RealProp(bd.channel, bd.blconf_property)
<1>1. /\ stack # <<>> /\ Head(stack).fn = "notify" /\ b \in Head(stack).todo
      /\ object' = object /\ bindVars' = bindVars /\ bindings' = bindings /\ Bound' = Bound
  BY DEF ObjectNotify, In, bindVars, Bound
<1>2. stack \in Seq(Frame) /\ Types /\ BlocksMatch
  BY DEF BindInv, Types
<1>3. PICK w \in Val \cup {Unset} : AllPass(stack, w, bindings, cache, object)
  BY DEF AgreeInv, Agreement
<1>4. CASE b \notin object_handler \/ object_block[b] > 0
  <2>1. SkipHandler(b) /\ UNCHANGED <<cache, silent>>
    BY <1>4 DEF ObjectNotify
  <2>2. ASSUME b \in Compared PROVE Agrees(bd, cache, object)
    <3>1. bd # Gone /\ object_block[b] > 0
      BY <1>4, <2>2, BoundIs DEF Compared
    <3>2. Calls(stack, "channel_notify", b) > 0 /\ "channel_notify" \in HandlerName
      BY <1>2, <3>1 DEF BlocksMatch, HandlerName
    <3>3. Shows(bd.object, w, object) /\ Held(bd, cache) \in {Unset, w}
      BY <1>2, <1>3, <3>1, <3>2, CalledPasses
    <3>4. QED
      BY <3>3, ShownAgrees
  <2>3. QED
    BY <1>1, <2>1, <2>2, SkipAgree
<1>5. CASE b \in object_handler /\ ~(object_block[b] > 0)
  <2>1. /\ bd \in BindingData /\ bd # Gone
        /\ object[bd.object] \in ObjVal[bd.object] /\ ToChannel[bd.object][object[bd.object]] = w
    BY <1>1, <1>3, <1>5, AnswerIsPassed
  <2>2. bd.channel \in Chan /\ bd.object \in Obj /\ path \in Path
    BY <2>1, DataKinds
  <2>3. w \in Val /\ Shows(bd.object, w, object)
    BY <2>1, <2>2, BindingAssumption DEF Shows, RoundTrip
  <2>4. PICK e \in Frame : e = Emit(bd.channel, path, w)
    BY <1>2, <2>2, EmissionKinds
  <2>5. /\ e.fn = "property-changed" /\ e.v = w /\ e.c = bd.channel
        /\ e.name = Relayed(bd.channel, path) /\ e.fn \notin HandlerName
    BY <2>4 DEF Emit, Emission, HandlerName
  <2>6. PICK h \in Frame : /\ h = Handler("object_notify", b)
                           /\ h.fn = "object_notify" /\ h.b = b /\ h.fn \in HandlerName
    <3>1. "object_notify" \in HandlerName
      BY DEF HandlerName
    <3>2. Handler("object_notify", b) \in Frame
      BY <3>1, HandlersDiffer
    <3>3. /\ Handler("object_notify", b).fn = "object_notify"
          /\ Handler("object_notify", b).b = b
      BY DEF Handler
    <3>4. QED
      BY <3>1, <3>2, <3>3
  <2>7. PICK g \in Frame : g = [Head(stack) EXCEPT !.todo = @ \ {b}]
    BY <1>1, <1>2, EmissionGoesOn
  <2>8. Tail(stack) \in Seq(Frame)
    BY <1>1, <1>2, StackPop
  <2>9. PICK t \in Seq(Frame) : t = <<h>> \o (<<g>> \o Tail(stack))
    <3>1. <<g>> \o Tail(stack) \in Seq(Frame)
      BY <2>8, StackPush
    <3>2. QED
      BY <2>6, <3>1, StackPush
  <2>10. t # <<>>
    <3>1. <<g>> \o Tail(stack) \in Seq(Frame)
      BY <2>8, StackPush
    <3>2. QED
      BY <2>6, <2>9, <3>1, StackPush
  <2>11. \/ stack' = <<e>> \o t /\ Store(bd.channel, path, w)
         \/ /\ stack' = t
            /\ \A d \in Chan, p \in Path :
                  d # bd.channel \/ p # path => cache'[d][p] = cache[d][p]
            /\ \/ /\ cache' = cache /\ silent' = silent
                  /\ cache[bd.channel][path] \in {Unset, w}
               \/ /\ cache'[bd.channel][path] = w
                  /\ silent' = silent \cup {<<bd.channel, path>>}
    <3> DEFINE Fetches ==
               /\ \A d \in Chan, p \in Path :
                     d # bd.channel \/ p # path => cache'[d][p] = cache[d][p]
               /\ \/ /\ cache' = cache /\ silent' = silent
                     /\ cache[bd.channel][path] \in {Unset, w}
                  \/ /\ cache'[bd.channel][path] = w
                     /\ silent' = silent \cup {<<bd.channel, path>>}
    <3>1. \/ CallHandler(b, <<h>>) /\ Fetches
          \/ CallHandler(b, <<e, h>>) /\ Store(bd.channel, path, w)
      <4>1. cache \in [Chan -> [Path -> Val \cup {Unset}]] /\ w \in Val
        BY <1>2, <2>3 DEF Types
      <4>2. LET c == bd.channel
                v == ToChannel[bd.object][object[bd.object]]
            IN  \/ CallHandler(b, <<Emit(c, path, v), h>>) /\ Store(c, path, v)
                \/ /\ CallHandler(b, <<h>>)
                   /\ \A d \in Chan, p \in Path : d # c \/ p # path => cache'[d][p] = cache[d][p]
                   /\ \/ cache[c][path] = Unset /\ cache' = cache /\ silent' = silent
                      \/ cache[c][path] = v /\ cache' = cache /\ silent' = silent
                      \/ cache'[c][path] = v /\ silent' = silent \cup {<<c, path>>}
        BY <1>5, <2>1, <2>2, <2>4, <2>6, <4>1, ObjectNotifySets
      <4>3. QED
        BY <2>1, <2>4, <4>2
    <3> HIDE DEF Fetches
    <3>2. CASE CallHandler(b, <<h>>) /\ Fetches
      <4>1. stack' = (<<h>> \o <<g>>) \o Tail(stack)
        BY <2>7, <3>2 DEF CallHandler
      <4>2. h \in Frame /\ g \in Frame
        BY <2>6, <2>7
      <4>3. (<<h>> \o <<g>>) \o Tail(stack) = <<h>> \o (<<g>> \o Tail(stack))
        BY <2>8, <4>2, InFront
      <4>4. stack' = t
        BY <2>9, <4>1, <4>3
      <4>5. QED
        BY <3>2, <4>4 DEF Fetches
    <3>3. CASE CallHandler(b, <<e, h>>) /\ Store(bd.channel, path, w)
      <4>1. stack' = (<<e, h>> \o <<g>>) \o Tail(stack)
        BY <2>7, <3>3 DEF CallHandler
      <4>2. (<<e, h>> \o <<g>>) \o Tail(stack) = <<e>> \o (<<h>> \o (<<g>> \o Tail(stack)))
        <5>1. e \in Frame /\ h \in Frame /\ g \in Frame
          OBVIOUS
        <5>2. PICK u \in Seq(Frame) : u = Tail(stack)
          BY <2>8
        <5>3. (<<e, h>> \o <<g>>) \o u = <<e>> \o (<<h>> \o (<<g>> \o u))
          BY <5>1, TwoInFront, SMTT(20)
        <5>4. QED
          BY <5>2, <5>3
      <4>3. QED
        BY <2>9, <3>3, <4>1, <4>2
    <3>4. QED
      BY <3>1, <3>2, <3>3
  <2>12. Passes(h, w, bindings, cache, object)
    BY <2>3, <2>6 DEF Passes
  <2>13. /\ AllPass(t, w, bindings, cache, object)
         /\ \A d : d # b /\ Pending(d, stack) => Pending(d, t)
    <3>1. PICK s \in Seq(Frame) : s = stack /\ s # <<>> /\ Head(s).fn \in {"notify", "property-changed"}
      BY <1>1, <1>2
    <3>2. AllPass(s, w, bindings, cache, object) /\ g = Without(s, b)
      BY <1>3, <2>7, <3>1 DEF Without
    <3>3. /\ AllPass(<<h>> \o (<<g>> \o Tail(s)), w, bindings, cache, object)
          /\ \A d : d # b /\ Pending(d, s) => Pending(d, <<h>> \o (<<g>> \o Tail(s)))
      BY <2>6, <2>12, <3>1, <3>2, PassCall
    <3>4. QED
      BY <2>9, <3>1, <3>3
  <2>14. CASE /\ stack' = t
              /\ \A d \in Chan, p \in Path :
                    d # bd.channel \/ p # path => cache'[d][p] = cache[d][p]
              /\ \/ /\ cache' = cache /\ silent' = silent
                    /\ cache[bd.channel][path] \in {Unset, w}
                 \/ /\ cache'[bd.channel][path] = w
                    /\ silent' = silent \cup {<<bd.channel, path>>}
    <3>1. PICK new, si : new = cache' /\ si = silent'
      OBVIOUS
    <3>2. \A c \in Chan, p \in Path : new[c][p] \in {cache[c][p], w}
      <4>1. \A c \in Chan, p \in Path : (c = bd.channel /\ p = path) \/ new[c][p] = cache[c][p]
        BY <2>14, <3>1
      <4>2. new = cache \/ new[bd.channel][path] = w
        BY <2>14, <3>1
      <4>3. QED
        BY <4>1, <4>2
    <3>3. Follows(w, cache, new, object, object)
      BY <3>2 DEF Follows
    <3>4. \A d \in Binding : bindings[d] \in BindingData \cup {Gone}
      BY <1>2 DEF Types
    <3>5. AllPass(t, w, bindings, new, object)
      BY <2>13, <3>3, <3>4, PassStays
    <3>6. ASSUME NEW d \in Bound, ItemOf(bindings[d]) \notin si
          PROVE  Agrees(bindings[d], new, object) \/ Pending(d, t)
      <4>1. /\ bindings[d].channel \in Chan
            /\ RealProp(bindings[d].channel, bindings[d].blconf_property) \in Path
        BY BoundIs, DataKinds
      <4>2. d \in Compared /\ Held(bindings[d], new) = Held(bindings[d], cache)
        <5>1. CASE new = cache /\ si = silent
          BY <3>6, <5>1 DEF Compared
        <5>2. CASE si = silent \cup {<<bd.channel, path>>}
          <6>1. ItemOf(bindings[d]) \notin silent /\ ItemOf(bindings[d]) # <<bd.channel, path>>
            BY <3>6, <5>2
          <6>2. \/ bindings[d].channel # bd.channel
                \/ RealProp(bindings[d].channel, bindings[d].blconf_property) # path
            BY <6>1 DEF ItemOf
          <6>3. QED
            BY <2>14, <3>1, <4>1, <6>1, <6>2 DEF Compared, Held
        <5>3. QED
          BY <2>14, <3>1, <5>1, <5>2
      <4>3. CASE d = b
        <5>1. CASE new = cache /\ cache[bd.channel][path] \in {Unset, w}
          <6>1. Held(bd, new) \in {Unset, w}
            BY <5>1 DEF Held
          <6>2. QED
            BY <2>3, <4>3, <6>1, ShownAgrees
        <5>2. CASE new[bd.channel][path] = w
          <6>1. Held(bd, new) \in {Unset, w}
            BY <5>2 DEF Held
          <6>2. QED
            BY <2>3, <4>3, <6>1, ShownAgrees
        <5>3. QED
          BY <2>14, <3>1, <5>1, <5>2
      <4>4. CASE d # b
        <5>1. Agrees(bindings[d], cache, object) \/ Pending(d, stack)
          BY <4>2 DEF AgreeInv, Agreement
        <5>2. Agrees(bindings[d], cache, object) => Agrees(bindings[d], new, object)
          BY <4>2 DEF Agrees
        <5>3. QED
          BY <2>13, <4>4, <5>1, <5>2
      <4>5. QED
        BY <4>3, <4>4
    <3>7. Agreement(t, bindings, new, object, {d \in Bound : ItemOf(bindings[d]) \notin si})
      BY <3>5, <3>6 DEF Agreement
    <3>8. QED
      BY <1>1, <2>14, <3>1, <3>7 DEF AgreeInv, Compared
  <2>15. CASE stack' = <<e>> \o t /\ Store(bd.channel, path, w)
    <3>1. PICK new, si : new = cache' /\ si = silent' /\ si = silent \ {<<bd.channel, path>>}
      BY <2>15 DEF Store
    <3>2. \A c \in Chan, p \in Path :
             new[c][p] = IF c = bd.channel /\ p = path THEN w ELSE cache[c][p]
      <4>1. PICK c0 \in Chan, p0 \in Path : c0 = bd.channel /\ p0 = path
        BY <2>2
      <4>2. Store(c0, p0, w) /\ cache \in [Chan -> [Path -> Val \cup {Unset}]]
        BY <1>2, <2>15, <4>1 DEF Types
      <4>3. \A c \in Chan, p \in Path :
               cache'[c][p] = IF c = c0 /\ p = p0 THEN w ELSE cache[c][p]
        BY <4>2, StoreKinds
      <4>4. QED
        BY <3>1, <4>1, <4>3
    <3>3. Follows(w, cache, new, object, object)
      BY <3>2 DEF Follows
    <3>4. \A d \in Binding : bindings[d] \in BindingData \cup {Gone}
      BY <1>2 DEF Types
    <3>5. AllPass(t, w, bindings, new, object)
      BY <2>13, <3>3, <3>4, PassStays
    <3>6. Passes(e, w, bindings, new, object)
      <4>1. IsPrefix(PropertyBase[bd.channel], path)
        BY <2>1, OwnPrefix
      <4>2. \A p \in Path : Relayed(bd.channel, p) = e.name => p = path
        BY <2>2, <2>5, <4>1, RelayedIsOne
      <4>3. \A p \in Path : Relayed(bd.channel, p) = e.name => new[bd.channel][p] = w
        BY <2>2, <3>2, <4>2
      <4>4. w # Unset
        BY <2>3, ChannelAssumption
      <4>5. QED
        BY <2>5, <4>3, <4>4 DEF Passes
    <3>7. /\ AllPass(<<e>> \o t, w, bindings, new, object)
          /\ \A d : Pending(d, t) \/ Owes(e, d) => Pending(d, <<e>> \o t)
      BY <2>10, <3>5, <3>6, PassPush
    <3>8. ASSUME NEW d \in Bound, ItemOf(bindings[d]) \notin si
          PROVE  Agrees(bindings[d], new, object) \/ Pending(d, <<e>> \o t)
      <4>1. bindings[d] \in BindingData
        BY BoundIs
      <4>2. /\ bindings[d].channel \in Chan
            /\ RealProp(bindings[d].channel, bindings[d].blconf_property) \in Path
        BY <4>1, DataKinds
      <4>3. CASE bindings[d].channel = bd.channel
                   /\ RealProp(bindings[d].channel, bindings[d].blconf_property) = path
        <5>1. Owes(e, d)
          BY <2>2, <2>3, <2>4, <4>3, EmissionCalls
        <5>2. QED
          BY <3>7, <5>1
      <4>4. CASE ~(bindings[d].channel = bd.channel
                     /\ RealProp(bindings[d].channel, bindings[d].blconf_property) = path)
        <5>1. Held(bindings[d], new) = Held(bindings[d], cache)
          BY <3>2, <4>2, <4>4 DEF Held
        <5>2. d # b
          BY <4>4
        <5>3. Agrees(bindings[d], cache, object) \/ Pending(d, stack)
          <6>1. ItemOf(bindings[d]) # <<bd.channel, path>>
            BY <4>4 DEF ItemOf
          <6>2. d \in Compared
            BY <3>1, <3>8, <6>1 DEF Compared
          <6>3. QED
            BY <6>2 DEF AgreeInv, Agreement
        <5>4. Agrees(bindings[d], cache, object) => Agrees(bindings[d], new, object)
          BY <5>1 DEF Agrees
        <5>5. QED
          BY <2>13, <3>7, <5>2, <5>3, <5>4
      <4>5. QED
        BY <4>3, <4>4
    <3>9. Agreement(<<e>> \o t, bindings, new, object,
                    {d \in Bound : ItemOf(bindings[d]) \notin si})
      BY <3>7, <3>8 DEF Agreement
    <3>10. QED
      BY <1>1, <2>15, <3>1, <3>9 DEF AgreeInv, Compared
  <2>16. QED
    BY <2>11, <2>14, <2>15
<1>6. QED
  BY <1>4, <1>5

\* What the channel holds for a binding that an emission has still to call.
LEMMA ToldIsPassed ==
    ASSUME BindInv, LevelInv, stack # <<>>, Head(stack).fn = "property-changed",
           NEW b \in Binding, b \in Head(stack).todo, bindings[b] # Gone,
           NEW w, AllPass(stack, w, bindings, cache, object)
    PROVE  /\ bindings[b] \in BindingData /\ bindings[b].object \in Obj
           /\ Held(bindings[b], cache) \in {Unset, w}
<1>1. stack \in Seq(Frame) /\ Types /\ Level(stack, bindings, cache, object)
  BY DEF BindInv, Types, LevelInv
<1>2. 1 \in DOMAIN stack /\ stack[1] = Head(stack)
  BY <1>1, StackPop
<1>3. PICK bd \in BindingData : bd = bindings[b]
  BY <1>1 DEF Types
<1>4. bd.channel = Head(stack).c /\ bd.blconf_property = Head(stack).name
  BY <1>1, <1>2, <1>3 DEF Level, Linked
<1>5. /\ bd.channel \in Chan /\ bd.object \in Obj
      /\ RealProp(bd.channel, bd.blconf_property) \in Path
      /\ Relayed(bd.channel, RealProp(bd.channel, bd.blconf_property)) = bd.blconf_property
  BY DataKinds, NameIsProperty DEF Name
<1>6. \A p \in Path : Relayed(Head(stack).c, p) = Head(stack).name
                        => cache[Head(stack).c][p] \in {Unset, w}
  BY <1>1, PassPop DEF Passes
<1>7. Held(bd, cache) \in {Unset, w}
  BY <1>4, <1>5, <1>6 DEF Held
<1>8. QED
  BY <1>3, <1>5, <1>7

LEMMA ChannelNotifyAgree ==
    ASSUME RoundTrip, BindInv, LevelInv, AgreeInv, NEW b \in Binding, ChannelNotify(b)
    PROVE  AgreeInv'
<1> DEFINE bd == bindings[b]
           o == bd.object
           dst_val == NewObjectValue(o, Head(stack).v)
<1>1. /\ stack # <<>> /\ Head(stack).fn = "property-changed" /\ b \in Head(stack).todo
      /\ UNCHANGED <<cache, silent>> /\ bindVars' = bindVars /\ bindings' = bindings
      /\ Bound' = Bound /\ Compared' = Compared
  BY DEF ChannelNotify, In, bindVars, chanVars, Bound, Compared
<1>2. stack \in Seq(Frame) /\ Types /\ BlocksMatch
  BY DEF BindInv, Types
<1>3. PICK w \in Val \cup {Unset} : AllPass(stack, w, bindings, cache, object)
  BY DEF AgreeInv, Agreement
<1>4. PICK m \in Frame : m = Head(stack) /\ m.fn = "property-changed"
  BY <1>1, <1>2, StackPop
<1>5. /\ m.v \in Val \cup {Unset} /\ m.v \in {Unset, w}
      /\ m.v = Unset => \A x \in Obj \ Boxed : ToChannel[x][Default[x]] = w
  <2>1. Passes(m, w, bindings, cache, object)
    BY <1>1, <1>2, <1>3, <1>4, PassPop
  <2>2. QED
    BY <1>4, <2>1, FrameKinds DEF Passes
<1>6. CASE b \notin channel_handler \/ channel_block[b] > 0 \/ dst_val = Fail
  <2>1. SkipHandler(b) /\ object' = object
    BY <1>6 DEF ChannelNotify
  <2>2. ASSUME b \in Compared, Owes(Head(stack), b) PROVE Agrees(bd, cache, object)
    <3>1. /\ bd # Gone /\ b \in channel_handler /\ m.v = w /\ w \in Val
      BY <1>4, <1>5, <2>2, BoundIs DEF Owes, Compared
    <3>2. o \in Obj /\ Held(bd, cache) \in {Unset, w}
      BY <1>1, <1>3, <3>1, ToldIsPassed
    <3>3. CASE channel_block[b] > 0
      <4>1. Calls(stack, "object_notify", b) > 0 /\ "object_notify" \in HandlerName
        BY <1>2, <3>3 DEF BlocksMatch, HandlerName
      <4>2. Shows(o, w, object)
        BY <1>2, <1>3, <3>1, <4>1, CalledPasses
      <4>3. QED
        BY <3>2, <4>2, ShownAgrees
    <3>4. CASE dst_val = Fail
      <4>1. ToObject[o][w] = Fail
        BY <1>4, <3>1, <3>4, ChannelAssumption DEF NewObjectValue
      <4>2. Shows(o, w, object)
        BY <4>1 DEF Shows
      <4>3. QED
        BY <3>2, <4>2, ShownAgrees
    <3>5. QED
      BY <1>6, <3>1, <3>3, <3>4
  <2>3. QED
    BY <1>1, <2>1, <2>2, SkipAgree
<1>7. CASE b \in channel_handler /\ ~(channel_block[b] > 0) /\ dst_val # Fail
  <2>1. Parts(b) /\ b \in listed
    BY <1>7 DEF BindInv, PartsMatch
  <2>2. bd # Gone /\ object[o] # Gone
    BY <2>1 DEF Parts
  <2>3. /\ bd \in BindingData /\ o \in Obj /\ Held(bd, cache) \in {Unset, w}
    BY <1>1, <1>3, <2>2, ToldIsPassed
  <2>4. object[o] \in ObjVal[o]
    BY <1>2, <2>2, <2>3 DEF Types
  <2>5. /\ w \in Val => ToObject[o][w] \in {dst_val, Fail}
        /\ Exact(o) \/ ToChannel[o][object[o]] = w => ToChannel[o][dst_val] = w
    <3>1. CASE m.v # Unset
      <4>1. m.v = w /\ w \in Val /\ dst_val = ToObject[o][w]
        BY <1>4, <1>5, <3>1 DEF NewObjectValue
      <4>2. Exact(o) => ToChannel[o][dst_val] = w
        BY <1>7, <4>1 DEF Exact, Equal
      <4>3. ASSUME ToChannel[o][object[o]] = w PROVE dst_val = object[o]
        BY <1>7, <2>3, <2>4, <4>1, <4>3 DEF RoundTrip
      <4>4. QED
        BY <4>1, <4>2, <4>3
    <3>2. CASE m.v = Unset
      <4>1. o \notin Boxed /\ dst_val = Default[o]
        BY <1>4, <1>7, <3>2 DEF NewObjectValue
      <4>2. ToChannel[o][Default[o]] = w
        BY <1>5, <2>3, <3>2, <4>1
      <4>3. Default[o] \in ObjVal[o]
        BY <2>3, BindingAssumption
      <4>4. ToObject[o][w] \in {Default[o], Fail}
        BY <2>3, <4>2, <4>3 DEF RoundTrip
      <4>5. QED
        BY <4>1, <4>2, <4>4
    <3>3. QED
      BY <3>1, <3>2
  <2>6. PICK new : new = object'
    OBVIOUS
  <2>7. \A x \in Obj : new[x] = IF x = o THEN dst_val ELSE object[x]
    <3>1. object' = [object EXCEPT ![o] = dst_val]
      BY <1>7 DEF ChannelNotify
    <3>2. object \in [Obj -> UNION {ObjVal[x] \cup {Gone} : x \in Obj}]
      BY <1>2 DEF Types
    <3> HIDE DEF dst_val
    <3>3. QED
      BY <2>6, <3>1, <3>2
  <2>8. new[o] = dst_val /\ Shows(o, w, new)
    BY <2>3, <2>5, <2>7 DEF Shows
  <2>9. Follows(w, cache, cache, object, new)
    <3> HIDE DEF dst_val
    <3>1. ASSUME NEW x \in Obj
          PROVE  \/ new[x] = object[x]
                 \/ /\ Shows(x, w, new)
                    /\ Exact(x) \/ ToChannel[x][object[x]] = w => ToChannel[x][new[x]] = w
      BY <2>5, <2>7, <2>8
    <3>2. QED
      BY <3>1 DEF Follows
  <2>10. AllPass(stack, w, bindings, cache, new)
    <3>1. \A d \in Binding : bindings[d] \in BindingData \cup {Gone}
      BY <1>2 DEF Types
    <3>2. PICK s \in Seq(Frame) : s = stack
      BY <1>2
    <3>3. AllPass(s, w, bindings, cache, new)
      BY <1>3, <2>9, <3>1, <3>2, PassStays
    <3>4. QED
      BY <3>2, <3>3
  <2>11. PICK e \in Frame : e = Notify(o) /\ e.fn = "notify" /\ e.o = o
    <3>1. Notify(o) \in Frame
      BY <1>2, <2>3, EmissionKinds
    <3>2. Notify(o).fn = "notify" /\ Notify(o).o = o
      BY DEF Notify
    <3>3. QED
      BY <3>1, <3>2
  <2>12. PICK h \in Frame : /\ h = Handler("channel_notify", b)
                            /\ h.fn = "channel_notify" /\ h.b = b /\ h.fn \in HandlerName
    <3>1. "channel_notify" \in HandlerName
      BY DEF HandlerName
    <3>2. Handler("channel_notify", b) \in Frame
      BY <3>1, HandlersDiffer
    <3>3. /\ Handler("channel_notify", b).fn = "channel_notify"
          /\ Handler("channel_notify", b).b = b
      BY DEF Handler
    <3>4. QED
      BY <3>1, <3>2, <3>3
  <2>13. PICK g \in Frame : g = [Head(stack) EXCEPT !.todo = @ \ {b}]
    BY <1>1, <1>2, EmissionGoesOn
  <2>14. PICK u \in Seq(Frame) : u = Tail(stack)
    BY <1>1, <1>2, StackPop
  <2>15. PICK t \in Seq(Frame) : t = <<h>> \o (<<g>> \o u) /\ t # <<>>
    <3>1. <<g>> \o u \in Seq(Frame)
      BY StackPush
    <3>2. QED
      BY <3>1, StackPush
  <2>16. stack' = <<e>> \o t
    <3>1. CallHandler(b, <<e, h>>)
      BY <1>7, <2>11, <2>12 DEF ChannelNotify
    <3>2. stack' = (<<e, h>> \o <<g>>) \o u
      BY <2>13, <2>14, <3>1 DEF CallHandler
    <3>3. e \in Frame /\ g \in Frame /\ h \in Frame /\ u \in Seq(Frame)
      BY <2>11, <2>12, <2>13, <2>14
    <3>4. (<<e, h>> \o <<g>>) \o u = <<e>> \o (<<h>> \o (<<g>> \o u))
      BY <3>3, TwoInFront, SMTT(20)
    <3>5. QED
      BY <2>15, <3>2, <3>4
  <2>17. Passes(h, w, bindings, cache, new)
    BY <2>3, <2>8, <2>12 DEF Passes
  <2>18. /\ AllPass(t, w, bindings, cache, new)
         /\ \A d : d # b /\ Pending(d, stack) => Pending(d, t)
    <3>1. PICK s \in Seq(Frame) : s = stack /\ s # <<>> /\ Head(s).fn \in {"notify", "property-changed"}
      BY <1>1, <1>2
    <3>2. AllPass(s, w, bindings, cache, new) /\ g = Without(s, b)
      BY <2>10, <2>13, <3>1 DEF Without
    <3>3. /\ AllPass(<<h>> \o (<<g>> \o Tail(s)), w, bindings, cache, new)
          /\ \A d : d # b /\ Pending(d, s) => Pending(d, <<h>> \o (<<g>> \o Tail(s)))
      BY <2>12, <2>17, <3>1, <3>2, PassCall
    <3>4. QED
      BY <2>14, <2>15, <3>1, <3>3
  <2>19. Passes(e, w, bindings, cache, new)
    BY <2>5, <2>8, <2>11 DEF Passes, HandlerName
  <2>20. /\ AllPass(<<e>> \o t, w, bindings, cache, new)
         /\ \A d : Pending(d, t) \/ Owes(e, d) => Pending(d, <<e>> \o t)
    BY <2>15, <2>18, <2>19, PassPush
  <2>21. ASSUME NEW d \in Compared
         PROVE  Agrees(bindings[d], cache, new) \/ Pending(d, <<e>> \o t)
    <3>1. d \in object_handler /\ bindings[d] \in BindingData /\ bindings[d].object \in Obj
      BY BoundIs, DataKinds DEF Compared
    <3>2. CASE bindings[d].object = o
      <4>1. d \in Notify(o).todo
        BY <3>1, <3>2 DEF Notify
      <4>2. Owes(e, d)
        BY <2>11, <4>1 DEF Owes
      <4>3. QED
        BY <2>20, <4>2
    <3>3. CASE bindings[d].object # o
      <4>1. new[bindings[d].object] = object[bindings[d].object] /\ d # b
        BY <2>7, <3>1, <3>3
      <4>2. Agrees(bindings[d], cache, object) \/ Pending(d, stack)
        BY DEF AgreeInv, Agreement
      <4>3. Agrees(bindings[d], cache, object) => Agrees(bindings[d], cache, new)
        BY <4>1 DEF Agrees
      <4>4. QED
        BY <2>18, <2>20, <4>1, <4>2, <4>3
    <3>4. QED
      BY <3>2, <3>3
  <2>22. Agreement(<<e>> \o t, bindings, cache, new, Compared)
    BY <2>20, <2>21 DEF Agreement
  <2>23. QED
    BY <1>1, <2>6, <2>16, <2>22 DEF AgreeInv
<1>8. QED
  BY <1>6, <1>7

\* Calls that return and bindings that end.
LEMMA EndsAgree ==
    ASSUME BindInv, NEW t \in Seq(Frame), stack' = t, UNCHANGED <<cache, object>>,
           NEW w \in Val \cup {Unset}, AllPass(t, w, bindings, cache, object),
           \A b \in Binding : bindings'[b] \in {bindings[b], Gone},
           \A b \in Compared' : /\ bindings'[b] = bindings[b]
                                /\ Agrees(bindings[b], cache, object) \/ Pending(b, t)
    PROVE  AgreeInv'
<1>1. PICK bs, S : bs = bindings' /\ S = Compared'
  OBVIOUS
<1>2. Follows(w, cache, cache, object, object)
  BY DEF Follows
<1>3. \A b \in Binding : bindings[b] \in BindingData \cup {Gone} /\ bs[b] \in {bindings[b], Gone}
  BY <1>1 DEF BindInv, Types
<1>4. AllPass(t, w, bs, cache, object)
  BY <1>2, <1>3, PassStays
<1>5. \A b \in S : Agrees(bs[b], cache, object) \/ Pending(b, t)
  BY <1>1
<1>6. Agreement(t, bs, cache, object, S)
  BY <1>4, <1>5 DEF Agreement
<1>7. QED
  BY <1>1, <1>6 DEF AgreeInv

LEMMA ReturnAgree ==
    ASSUME BindInv, AgreeInv, Return
    PROVE  AgreeInv'
<1>1. /\ stack \in Seq(Frame) /\ Types /\ stack # <<>> /\ stack' = Tail(stack)
      /\ UNCHANGED <<cache, silent, object>>
  BY DEF Return, Emitted, ObjectNotifyReturns, ChannelNotifyReturns, BindReturns, In, BindInv,
         Types, chanVars
<1>2. PICK t \in Seq(Frame) : t = Tail(stack)
  BY <1>1, StackPop
<1>3. PICK w \in Val \cup {Unset} : AllPass(stack, w, bindings, cache, object)
  BY DEF AgreeInv, Agreement
<1>4. PICK m \in Frame : /\ m = Head(stack) /\ Passes(m, w, bindings, cache, object)
                         /\ AllPass(t, w, bindings, cache, object)
                         /\ \A d : Pending(d, stack) => Pending(d, t) \/ Owes(m, d)
  <2>1. Head(stack) \in Frame
    BY <1>1, StackPop
  <2>2. /\ AllPass(Tail(stack), w, bindings, cache, object)
        /\ Passes(Head(stack), w, bindings, cache, object)
        /\ \A d : Pending(d, stack) => Pending(d, Tail(stack)) \/ Owes(Head(stack), d)
    BY <1>1, <1>3, PassPop
  <2>3. QED
    BY <1>2, <2>1, <2>2
<1>5. \A d : ~Owes(m, d)
  BY <1>4 DEF Return, Emitted, ObjectNotifyReturns, ChannelNotifyReturns, BindReturns, In, Owes
<1>6. \A d \in Compared : Agrees(bindings[d], cache, object) \/ Pending(d, t)
  BY <1>4, <1>5 DEF AgreeInv, Agreement
<1>7. CASE Emitted \/ ChannelNotifyReturns
  <2>1. bindings' = bindings /\ Compared' = Compared
    BY <1>1, <1>7 DEF Emitted, ChannelNotifyReturns, bindVars, Bound, Compared
  <2>2. \A b \in Binding : bindings'[b] \in {bindings[b], Gone}
    BY <2>1
  <2>3. QED
    BY <1>1, <1>2, <1>4, <1>6, <2>1, <2>2, EndsAgree
<1>8. CASE ObjectNotifyReturns
  <2>1. bindVars' = bindVars \/ ObjectDisconnect({m.b})
    BY <1>4, <1>8 DEF ObjectNotifyReturns
  <2>2. /\ \A b \in Binding : bindings'[b] \in {bindings[b], Gone}
        /\ \A b \in Compared' : b \in Compared /\ bindings'[b] = bindings[b]
    <3>1. CASE bindVars' = bindVars
      BY <1>1, <3>1 DEF bindVars, Bound, Compared
    <3>2. CASE ObjectDisconnect({m.b})
      <4>1. object_handler \in SUBSET Binding
        BY <1>1 DEF Types
      <4>2. QED
        BY <1>1, <3>2, <4>1 DEF ObjectDisconnect, Bound, Compared
    <3>3. QED
      BY <2>1, <3>1, <3>2
  <2>3. QED
    BY <1>1, <1>2, <1>4, <1>6, <2>2, EndsAgree
<1>9. CASE BindReturns
  <2>1. /\ m.fn = "init" /\ m.fn \in HandlerName /\ bindings' = bindings
        /\ channel_handler' = channel_handler \cup {m.b} /\ object_handler' = object_handler
    BY <1>4, <1>9 DEF BindReturns, In, HandlerName
  <2>2. ASSUME NEW b \in Compared' PROVE Agrees(bindings[b], cache, object) \/ Pending(b, t)
    <3>1. b \in Compared \/ (b = m.b /\ b \in object_handler)
      BY <1>1, <2>1, <2>2 DEF Bound, Compared
    <3>2. CASE b = m.b /\ b \in object_handler
      <4>1. b \in Binding /\ Parts(b)
        BY <1>1, <3>2 DEF BindInv, PartsMatch, Types
      <4>2. bindings[b] # Gone
        BY <3>2, <4>1 DEF Parts
      <4>3. Shows(bindings[b].object, w, object) /\ Held(bindings[b], cache) = w
        BY <1>4, <2>1, <3>2, <4>2 DEF Passes
      <4>4. QED
        BY <4>3, ShownAgrees
    <3>3. QED
      BY <1>6, <3>1, <3>2
  <2>3. \A b \in Binding : bindings'[b] \in {bindings[b], Gone}
    BY <2>1
  <2>4. QED
    BY <1>1, <1>2, <1>4, <2>1, <2>2, <2>3, EndsAgree
<1>10. QED
  BY <1>7, <1>8, <1>9 DEF Return

LEMMA UnbindAgree ==
    ASSUME BindInv, AgreeInv, NEW b \in Binding, Unbind(b)
    PROVE  AgreeInv'
<1>1. /\ stack \in Seq(Frame) /\ Types /\ stack' = stack /\ UNCHANGED <<cache, silent, object>>
      /\ \/ object_handler' = object_handler \ {b} /\ UNCHANGED <<bindings, channel_handler>>
         \/ ObjectDisconnect({b})
  BY DEF Unbind, BindInv, Types, chanVars
<1>2. PICK w \in Val \cup {Unset} : AllPass(stack, w, bindings, cache, object)
  BY DEF AgreeInv, Agreement
<1>3. /\ \A d \in Binding : bindings'[d] \in {bindings[d], Gone}
      /\ \A d \in Compared' : d \in Compared /\ bindings'[d] = bindings[d]
  <2>1. object_handler \in SUBSET Binding
    BY <1>1 DEF Types
  <2>2. QED
    BY <1>1, <2>1 DEF ObjectDisconnect, Bound, Compared
<1>4. PICK t \in Seq(Frame) : t = stack
  BY <1>1
<1>5. \A d \in Compared : Agrees(bindings[d], cache, object) \/ Pending(d, t)
  BY <1>4 DEF AgreeInv, Agreement
<1>6. QED
  BY <1>1, <1>2, <1>3, <1>4, <1>5, EndsAgree

\* Steps of the main loop that start no call: what is still bound is as before.
LEMMA NothingToPass == \A w, bs, ca, obj : AllPass(<<>>, w, bs, ca, obj)
BY DEF AllPass

LEMMA QuietAgree ==
    ASSUME AgreeInv, stack = <<>>, stack' = <<>>,
           \A b \in Compared' : /\ b \in Compared /\ bindings'[b] = bindings[b]
                                /\ Held(bindings[b], cache') = Held(bindings[b], cache)
                                /\ object'[bindings[b].object] = object[bindings[b].object]
    PROVE  AgreeInv'
<1>1. PICK bs, ca, obj, S : bs = bindings' /\ ca = cache' /\ obj = object' /\ S = Compared'
  OBVIOUS
<1>2. ASSUME NEW b \in S PROVE Agrees(bs[b], ca, obj)
  <2>1. /\ b \in Compared /\ bs[b] = bindings[b]
        /\ Held(bindings[b], ca) = Held(bindings[b], cache)
        /\ obj[bindings[b].object] = object[bindings[b].object]
    BY <1>1
  <2>2. ~Pending(b, <<>>)
    BY DEF Pending
  <2>3. Agrees(bindings[b], cache, object)
    BY <2>1, <2>2 DEF AgreeInv, Agreement
  <2>4. QED
    BY <2>1, <2>3 DEF Agrees
<1>3. AllPass(<<>>, Unset, bs, ca, obj)
  BY NothingToPass
<1>4. Agreement(<<>>, bs, ca, obj, S)
  BY <1>2, <1>3 DEF Agreement
<1>5. QED
  BY <1>1, <1>4 DEF AgreeInv

\* So they are when the bindings of a channel or of an object end with it.
LEMMA GoneAgree ==
    ASSUME BindInv, AgreeInv, MainLoop, stack' = stack, NEW S, ObjectDisconnect(S),
           \A c \in Chan : (\E b \in listed \ S : bindings[b].channel = c) =>
               cache'[c] = cache[c] /\ \A p \in Path : <<c, p>> \in silent => <<c, p>> \in silent',
           \A o \in Obj : (\E b \in listed \ S : bindings[b].object = o) => object'[o] = object[o]
    PROVE  AgreeInv'
<1>1. ASSUME NEW b \in Compared'
      PROVE  /\ b \in Compared /\ bindings'[b] = bindings[b]
             /\ Held(bindings[b], cache') = Held(bindings[b], cache)
             /\ object'[bindings[b].object] = object[bindings[b].object]
  <2>1. b \in Bound /\ b \notin S /\ ItemOf(bindings'[b]) \notin silent'
    BY <1>1 DEF Bound, Compared, ItemOf, ObjectDisconnect
  <2>2. b \in listed
    BY <2>1, QuietIsWhole DEF Bound
  <2>3. b \in Binding /\ bindings[b].channel \in Chan /\ bindings[b].object \in Obj
    BY <2>2, QuietIsLive
  <2>4. bindings'[b] = bindings[b]
    BY <2>1, <2>3 DEF ObjectDisconnect
  <2>5. /\ cache'[bindings[b].channel] = cache[bindings[b].channel]
        /\ \A p \in Path : <<bindings[b].channel, p>> \in silent => <<bindings[b].channel, p>> \in silent'
    BY <2>1, <2>2, <2>3
  <2>6. object'[bindings[b].object] = object[bindings[b].object]
    BY <2>1, <2>2, <2>3
  <2>7. RealProp(bindings[b].channel, bindings[b].blconf_property) \in Path
    BY <2>1, BoundIs, DataKinds
  <2>8. b \in Compared
    BY <2>1, <2>4, <2>5, <2>7 DEF Compared, ItemOf
  <2>9. QED
    BY <2>4, <2>5, <2>6, <2>8 DEF Held
<1>2. stack = <<>> /\ stack' = <<>>
  BY DEF MainLoop
<1>3. QED
  BY <1>1, <1>2, QuietAgree

LEMMA MainLoopAgree ==
    ASSUME BindInv, AgreeInv,
           \/ InitLibrary \/ Shutdown \/ UnbindAll
           \/ \E c \in Chan : NewChannel(c) \/ FinalizeChannel(c)
           \/ \E o \in Obj : FinalizeObject(o)
    PROVE  AgreeInv'
<1>1. /\ Types /\ MainLoop /\ stack = <<>> /\ stack' = <<>> /\ stack' = stack
      /\ cache \in [Chan -> [Path -> Val \cup {Unset}]]
      /\ object \in [Obj -> UNION {ObjVal[o] \cup {Gone} : o \in Obj}]
  BY DEF InitLibrary, Shutdown, UnbindAll, NewChannel, FinalizeChannel, FinalizeObject, MainLoop,
         BindInv, Types
<1>2. ASSUME NEW c \in Chan, NewChannel(c) PROVE AgreeInv'
  <2>1. bindings' = bindings /\ object' = object /\ Compared' = Compared /\ chan[c] = "none"
    BY <1>2 DEF NewChannel, Constructor, bindVars, Bound, Compared
  <2>2. ASSUME NEW d \in Chan, d # c PROVE cache'[d] = cache[d]
    BY <1>1, <1>2, <2>2 DEF NewChannel, Constructor
  <2>3. ASSUME NEW b \in Compared
        PROVE  Held(bindings[b], cache') = Held(bindings[b], cache)
    <3>1. b \in listed
      BY <1>1, QuietIsWhole DEF Bound, Compared
    <3>2. bindings[b].channel \in Chan /\ Live(bindings[b].channel)
      BY <1>1, <3>1, QuietIsLive
    <3>3. QED
      BY <2>1, <2>2, <3>2 DEF Held, Live
  <2>4. QED
    BY <1>1, <2>1, <2>3, QuietAgree
<1>3. CASE InitLibrary
  <2>1. bindings' = bindings /\ object' = object /\ Compared' = Compared /\ cache' = cache
    BY <1>3 DEF InitLibrary, BlconfInit, bindVars, Bound, Compared
  <2>2. QED
    BY <1>1, <2>1, QuietAgree
<1>4. CASE UnbindAll
  <2>1. PICK S : ObjectDisconnect(S)
    BY <1>4 DEF UnbindAll, ChannelDisconnect
  <2>2. UNCHANGED <<cache, silent, object>>
    BY <1>4 DEF UnbindAll, chanVars
  <2>3. QED
    BY <1>1, <2>1, <2>2, GoneAgree
<1>5. ASSUME NEW c \in Chan, FinalizeChannel(c) PROVE AgreeInv'
  <2>1. ObjectDisconnect(OfChannel({c})) /\ object' = object
    BY <1>5 DEF FinalizeChannel, ChannelDisconnect
  <2>2. \A d \in Chan : d # c =>
           cache'[d] = cache[d] /\ \A p \in Path : <<d, p>> \in silent => <<d, p>> \in silent'
    BY <1>5 DEF FinalizeChannel, Unref, Dispose
  <2>3. \A b \in listed \ OfChannel({c}) : bindings[b].channel # c
    BY <1>1, QuietIsWhole DEF OfChannel
  <2>4. QED
    BY <1>1, <2>1, <2>2, <2>3, GoneAgree
<1>6. ASSUME NEW o \in Obj, FinalizeObject(o) PROVE AgreeInv'
  <2>1. ObjectDisconnect(OfObject(o)) /\ UNCHANGED <<cache, silent>>
    BY <1>6 DEF FinalizeObject, chanVars
  <2>2. \A x \in Obj : x # o => object'[x] = object[x]
    BY <1>1, <1>6 DEF FinalizeObject
  <2>3. \A b \in listed \ OfObject(o) : bindings[b].object # o
    BY <1>1, QuietIsWhole DEF OfObject
  <2>4. QED
    BY <1>1, <2>1, <2>2, <2>3, GoneAgree
<1>7. CASE Shutdown
  <2>1. CASE blconf_refcnt > 1
    <3>1. bindings' = bindings /\ object' = object /\ Compared' = Compared /\ cache' = cache
      BY <1>7, <2>1 DEF Shutdown, BlconfShutdown, bindVars, Bound, Compared
    <3>2. QED
      BY <1>1, <3>1, QuietAgree
  <2>2. CASE ~(blconf_refcnt > 1)
    <3>1. /\ ObjectDisconnect(OfChannel(Singletons) \cup listed) /\ object' = object
      BY <1>7, <2>2 DEF Shutdown
    <3>2. QED
      BY <1>1, <3>1, GoneAgree
  <2>3. QED
    BY <2>1, <2>2
<1>8. QED
  BY <1>2, <1>3, <1>4, <1>5, <1>6, <1>7

\* The first call.
LEMMA FirstPasses ==
    ASSUME NEW f \in Frame, NEW w, NEW bs, NEW ca, NEW obj, Passes(f, w, bs, ca, obj),
           f.fn = "notify" => ToChannel[f.o][obj[f.o]] = w
    PROVE  /\ AllPass(<<f>>, w, bs, ca, obj)
           /\ \A d : Owes(f, d) => Pending(d, <<f>>)
<1>1. PICK s \in Seq(Frame) : s = <<>> /\ AllPass(s, w, bs, ca, obj)
  BY EmptySeq, NothingToPass
<1>2. /\ AllPass(<<f>> \o s, w, bs, ca, obj)
      /\ \A d : Pending(d, s) \/ Owes(f, d) => Pending(d, <<f>> \o s)
  BY <1>1, PassPush
<1>3. <<f>> \o s = <<f>>
  BY <1>1
<1>4. QED
  BY <1>2, <1>3

\* Before it, every binding that is compared agrees.
LEMMA QuietAgrees ==
    ASSUME AgreeInv, stack = <<>>, NEW d \in Compared
    PROVE  Agrees(bindings[d], cache, object)
<1>1. ~Pending(d, <<>>)
  BY DEF Pending
<1>2. QED
  BY <1>1 DEF AgreeInv, Agreement

LEMMA ObjectSetAgree ==
    ASSUME BindInv, AgreeInv, NEW o \in Obj, NEW x \in ObjVal[o], ObjectSet(o, x)
    PROVE  AgreeInv'
<1>1. /\ Types /\ stack = <<>> /\ stack' = <<Notify(o)>> /\ cache' = cache
      /\ bindings' = bindings /\ Compared' = Compared /\ object' = [object EXCEPT ![o] = x]
  BY DEF ObjectSet, MainLoop, BindInv, chanVars, bindVars, Bound, Compared
<1>2. PICK new : new = object'
  OBVIOUS
<1>3. \A y \in Obj : new[y] = IF y = o THEN x ELSE object[y]
  BY <1>1, <1>2 DEF Types
<1>4. PICK f \in Frame : f = Notify(o) /\ f.fn = "notify" /\ f.o = o
  <2>1. Notify(o) \in Frame
    BY <1>1, EmissionKinds
  <2>2. Notify(o).fn = "notify" /\ Notify(o).o = o
    BY DEF Notify
  <2>3. QED
    BY <2>1, <2>2
<1>5. PICK w \in Val : w = ToChannel[o][x]
  BY BindingAssumption
<1>6. Passes(f, w, bindings, cache, new) /\ ToChannel[f.o][new[f.o]] = w
  BY <1>3, <1>4, <1>5 DEF Passes, HandlerName
<1>7. AllPass(<<f>>, w, bindings, cache, new) /\ \A d : Owes(f, d) => Pending(d, <<f>>)
  BY <1>6, FirstPasses
<1>8. ASSUME NEW d \in Compared PROVE Agrees(bindings[d], cache, new) \/ Pending(d, <<f>>)
  <2>1. d \in object_handler /\ bindings[d] \in BindingData /\ bindings[d].object \in Obj
    BY BoundIs, DataKinds DEF Compared
  <2>2. CASE bindings[d].object = o
    <3>1. d \in Notify(o).todo
      BY <2>1, <2>2 DEF Notify
    <3>2. Owes(f, d)
      BY <1>4, <3>1 DEF Owes
    <3>3. QED
      BY <1>7, <3>2
  <2>3. CASE bindings[d].object # o
    <3>1. new[bindings[d].object] = object[bindings[d].object]
      BY <1>3, <2>1, <2>3
    <3>2. Agrees(bindings[d], cache, object)
      BY <1>1, QuietAgrees
    <3>3. QED
      BY <3>1, <3>2 DEF Agrees
  <2>4. QED
    BY <2>2, <2>3
<1>9. Agreement(<<f>>, bindings, cache, new, Compared)
  BY <1>5, <1>7, <1>8 DEF Agreement
<1>10. QED
  BY <1>1, <1>2, <1>4, <1>9 DEF AgreeInv

\* What a change of the cache passes on: the value, or what all objects that are
\* set to their default then are in the channel.
LEMMA CacheChangesAgree ==
    ASSUME OneDefault, BindInv, AgreeInv,
           NEW c \in Chan, NEW path \in Path, NEW v \in Val \cup {Unset}, CacheChanges(c, path, v)
    PROVE  AgreeInv'
<1>1. /\ Types /\ stack = <<>> /\ stack' = <<Emit(c, path, v)>> /\ object' = object
      /\ bindings' = bindings /\ Bound' = Bound
      /\ Store(c, path, v) /\ IsPrefix(PropertyBase[c], path)
  BY DEF CacheChanges, MainLoop, BindInv, bindVars, Bound
<1>2. PICK new, si : new = cache' /\ si = silent' /\ si = silent \ {<<c, path>>}
  BY <1>1 DEF Store
<1>3. \A d \in Chan, p \in Path : new[d][p] = IF d = c /\ p = path THEN v ELSE cache[d][p]
  <2>1. cache \in [Chan -> [Path -> Val \cup {Unset}]] /\ Store(c, path, v)
    BY <1>1 DEF Types
  <2>2. \A d \in Chan, p \in Path :
           cache'[d][p] = IF d = c /\ p = path THEN v ELSE cache[d][p]
    BY <2>1, StoreKinds
  <2>3. QED
    BY <1>2, <2>2
<1>4. PICK f \in Frame : f = Emit(c, path, v)
  BY <1>1, EmissionKinds
<1>5. f.fn = "property-changed" /\ f.c = c /\ f.name = Relayed(c, path) /\ f.v = v
  BY <1>4 DEF Emit, Emission
<1>6. PICK w \in Val \cup {Unset} : /\ v \in {Unset, w}
                                    /\ v = Unset => \A o \in Obj \ Boxed : ToChannel[o][Default[o]] = w
  <2>1. CASE v # Unset
    BY <2>1
  <2>2. CASE v = Unset /\ Obj \ Boxed = {}
    BY <2>2
  <2>3. CASE v = Unset /\ Obj \ Boxed # {}
    <3>1. PICK o \in Obj \ Boxed : TRUE
      BY <2>3
    <3>2. ToChannel[o][Default[o]] \in Val
      BY BindingAssumption
    <3>3. \A p \in Obj \ Boxed : ToChannel[p][Default[p]] = ToChannel[o][Default[o]]
      BY DEF OneDefault
    <3>4. QED
      BY <2>3, <3>2, <3>3
  <2>4. QED
    BY <2>1, <2>2, <2>3
<1>7. Passes(f, w, bindings, new, object)
  <2>1. \A p \in Path : Relayed(c, p) = f.name => p = path
    BY <1>1, <1>5, RelayedIsOne
  <2>2. \A p \in Path : Relayed(c, p) = f.name => new[c][p] \in {Unset, w}
    BY <1>3, <1>6, <2>1
  <2>3. QED
    BY <1>5, <1>6, <2>2 DEF Passes, HandlerName
<1>8. AllPass(<<f>>, w, bindings, new, object) /\ \A d : Owes(f, d) => Pending(d, <<f>>)
  BY <1>5, <1>7, FirstPasses
<1>9. ASSUME NEW d \in Bound, ItemOf(bindings[d]) \notin si
      PROVE  Agrees(bindings[d], new, object) \/ Pending(d, <<f>>)
  <2>1. /\ bindings[d].channel \in Chan
        /\ RealProp(bindings[d].channel, bindings[d].blconf_property) \in Path
    BY BoundIs, DataKinds
  <2>2. CASE bindings[d].channel = c /\ RealProp(c, bindings[d].blconf_property) = path
    <3>1. CASE v = Unset
      <4>1. Held(bindings[d], new) = Unset
        BY <1>3, <2>1, <2>2, <3>1 DEF Held
      <4>2. QED
        BY <4>1 DEF Agrees
    <3>2. CASE v # Unset
      <4>1. Owes(f, d)
        BY <1>4, <2>2, <3>2, EmissionCalls
      <4>2. QED
        BY <1>8, <4>1
    <3>3. QED
      BY <3>1, <3>2
  <2>3. CASE ~(bindings[d].channel = c /\ RealProp(c, bindings[d].blconf_property) = path)
    <3>1. Held(bindings[d], new) = Held(bindings[d], cache)
      BY <1>3, <2>1, <2>3 DEF Held
    <3>2. Agrees(bindings[d], cache, object)
      <4>1. ItemOf(bindings[d]) # <<c, path>>
        BY <2>3 DEF ItemOf
      <4>2. d \in Compared
        BY <1>2, <1>9, <4>1 DEF Compared
      <4>3. QED
        BY <1>1, <4>2, QuietAgrees
    <3>3. QED
      BY <3>1, <3>2 DEF Agrees
  <2>4. QED
    BY <2>2, <2>3
<1>10. Agreement(<<f>>, bindings, new, object, {d \in Bound : ItemOf(bindings[d]) \notin si})
  BY <1>8, <1>9 DEF Agreement
<1>11. QED
  BY <1>1, <1>2, <1>4, <1>10 DEF AgreeInv, Compared

\* What the cache does not emit is not compared.
LEMMA CacheIsSilentAgree ==
    ASSUME BindInv, AgreeInv, NEW c \in Chan, CacheIsSilent(c)
    PROVE  AgreeInv'
<1>1. /\ stack = <<>> /\ stack' = <<>> /\ bindings' = bindings /\ object' = object
      /\ Bound' = Bound /\ silent \subseteq silent'
      /\ \A d \in Chan, p \in Path : <<d, p>> \notin silent' => cache'[d][p] = cache[d][p]
  BY CacheIsSilentKinds DEF BindInv, Types, MainLoop, bindVars, Bound
<1>2. ASSUME NEW b \in Compared'
      PROVE  /\ b \in Compared /\ bindings'[b] = bindings[b]
             /\ Held(bindings[b], cache') = Held(bindings[b], cache)
             /\ object'[bindings[b].object] = object[bindings[b].object]
  <2>1. b \in Bound /\ ItemOf(bindings[b]) \notin silent'
    BY <1>1, <1>2 DEF Compared, ItemOf
  <2>2. /\ bindings[b].channel \in Chan
        /\ RealProp(bindings[b].channel, bindings[b].blconf_property) \in Path
    BY <2>1, BoundIs, DataKinds
  <2>3. QED
    BY <1>1, <2>1, <2>2 DEF Compared, Held, ItemOf
<1>3. QED
  BY <1>1, <1>2, QuietAgree

\* A new binding passes on what its channel holds.
LEMMA BindAgree ==
    ASSUME BindInv, AgreeInv, NEW b \in Binding, NEW bd \in Bindable[b], Bind(b, bd)
    PROVE  AgreeInv'
<1> DEFINE o == bd.object
           path == RealProp(bd.channel, bd.blconf_property)
<1>1. bd \in BindingData /\ bd.channel \in Chan /\ o \in Obj /\ path \in Path
  BY DataKinds DEF BindingData
<1>2. /\ Types /\ stack = <<>> /\ MainLoop /\ bindings[b] = Gone
      /\ bindings' = [bindings EXCEPT ![b] = bd]
      /\ object_handler' = object_handler \cup {b} /\ channel_handler' = channel_handler
  BY DEF Bind, BindInv, MainLoop, Unbound
<1>3. PICK w \in Val \cup {Unset} :
         /\ Lookup(bd.channel, path, w)
         /\ \/ /\ w = Unset \/ NewObjectValue(o, w) = Fail
               /\ object' = object /\ stack' = <<Handler("init", b)>>
            \/ /\ w # Unset /\ NewObjectValue(o, w) # Fail
               /\ object' = [object EXCEPT ![o] = NewObjectValue(o, w)]
               /\ stack' = <<Notify(o), Handler("channel_notify", b), Handler("init", b)>>
  BY DEF Bind, Transfer
<1>4. PICK new, si : new = cache' /\ si = silent'
  OBVIOUS
<1>5. /\ Held(bd, new) = w
      /\ \A d \in Chan, p \in Path : d # bd.channel \/ p # path => new[d][p] = cache[d][p]
      /\ \/ new = cache /\ si = silent
         \/ si = silent \cup {<<bd.channel, path>>}
  <2>1. cache \in [Chan -> [Path -> Val \cup {Unset}]]
    BY <1>2 DEF Types
  <2>2. PICK c0 \in Chan, p0 \in Path : c0 = bd.channel /\ p0 = path
    BY <1>1
  <2>3. Lookup(c0, p0, w)
    BY <1>3, <2>2
  <2>4. /\ cache'[c0][p0] = w
        /\ \A d \in Chan, p \in Path : d # c0 \/ p # p0 => cache'[d][p] = cache[d][p]
        /\ \/ cache' = cache /\ silent' = silent
           \/ silent' = silent \cup {<<c0, p0>>}
    BY <2>1, <2>3, LookupKinds
  <2>5. QED
    BY <1>4, <2>2, <2>4 DEF Held
<1> HIDE DEF o, path
<1>6. PICK bs, obj : bs = bindings' /\ obj = object'
  OBVIOUS
<1>7. bs[b] = bd /\ \A d \in Binding : d # b => bs[d] = bindings[d]
  <2>1. bindings \in [Binding -> BindingData \cup {Gone}]
    BY <1>2 DEF Types
  <2>2. QED
    BY <1>2, <1>6, <2>1
<1>8. Bound' = Bound /\ b \notin Bound
  <2>1. b \notin channel_handler
    BY <1>2, QuietIsWhole
  <2>2. QED
    BY <1>2, <2>1 DEF Bound
<1>9. PICK init \in Frame : /\ init = Handler("init", b) /\ init.fn = "init" /\ init.b = b
                            /\ init.fn \in HandlerName
  <2>1. "init" \in HandlerName
    BY DEF HandlerName
  <2>2. Handler("init", b) \in Frame
    BY <2>1, HandlersDiffer
  <2>3. Handler("init", b).fn = "init" /\ Handler("init", b).b = b
    BY DEF Handler
  <2>4. QED
    BY <2>1, <2>2, <2>3
<1>10. Shows(o, w, obj) => Passes(init, w, bs, new, obj)
  BY <1>5, <1>7, <1>9 DEF Passes, o
<1> DEFINE S == {d \in Bound : ItemOf(bs[d]) \notin si}
<1>11. ASSUME NEW d \in S
      PROVE  /\ bs[d] = bindings[d] /\ bindings[d] \in BindingData /\ bindings[d].object \in Obj
             /\ d \in object_handler /\ Agrees(bindings[d], new, object)
  <2>1. d \in Bound /\ d \in Binding /\ d # b
    BY <1>8, BoundIs
  <2>2. /\ bs[d] = bindings[d] /\ bindings[d] \in BindingData /\ bindings[d].object \in Obj
        /\ d \in object_handler /\ bindings[d].channel \in Chan
        /\ RealProp(bindings[d].channel, bindings[d].blconf_property) \in Path
    BY <1>2, <1>7, <2>1, BoundIs, DataKinds
  <2>3. ItemOf(bindings[d]) \notin si
    BY <2>2
  <2>4. d \in Compared /\ Held(bindings[d], new) = Held(bindings[d], cache)
    <3>1. CASE new = cache /\ si = silent
      BY <2>1, <2>3, <3>1 DEF Compared
    <3>2. CASE si = silent \cup {<<bd.channel, path>>}
      <4>1. ItemOf(bindings[d]) \notin silent /\ ItemOf(bindings[d]) # <<bd.channel, path>>
        BY <2>3, <3>2
      <4>2. \/ bindings[d].channel # bd.channel
            \/ RealProp(bindings[d].channel, bindings[d].blconf_property) # path
        BY <4>1 DEF ItemOf
      <4>3. QED
        BY <1>5, <2>1, <2>2, <4>1, <4>2 DEF Compared, Held
    <3>3. QED
      BY <1>5, <3>1, <3>2
  <2>5. Agrees(bindings[d], cache, object)
    BY <1>2, <2>4, QuietAgrees
  <2>6. QED
    BY <2>2, <2>4, <2>5 DEF Agrees
<1>12. Compared' = S
  BY <1>4, <1>6, <1>8 DEF Compared
<1> HIDE DEF S
<1>13. CASE /\ w = Unset \/ NewObjectValue(o, w) = Fail
            /\ object' = object /\ stack' = <<Handler("init", b)>>
  <2>1. Shows(o, w, obj)
    BY <1>4, <1>13, ChannelAssumption DEF Shows, NewObjectValue
  <2>2. AllPass(<<init>>, w, bs, new, obj)
    BY <1>9, <1>10, <2>1, FirstPasses
  <2>3. \A d \in S : Agrees(bs[d], new, obj)
    BY <1>6, <1>11, <1>13
  <2>4. Agreement(<<init>>, bs, new, obj, S)
    BY <2>2, <2>3 DEF Agreement
  <2>5. QED
    BY <1>4, <1>6, <1>9, <1>13, <1>12, <2>4 DEF AgreeInv
<1>14. CASE /\ w # Unset /\ NewObjectValue(o, w) # Fail
            /\ object' = [object EXCEPT ![o] = NewObjectValue(o, w)]
            /\ stack' = <<Notify(o), Handler("channel_notify", b), Handler("init", b)>>
  <2>1. w \in Val /\ ToObject[o][w] # Fail /\ NewObjectValue(o, w) = ToObject[o][w]
    BY <1>4, <1>14 DEF NewObjectValue
  <2>2. \A x \in Obj : obj[x] = IF x = o THEN ToObject[o][w] ELSE object[x]
    <3>1. object \in [Obj -> UNION {ObjVal[x] \cup {Gone} : x \in Obj}]
      BY <1>2 DEF Types
    <3>2. obj = [object EXCEPT ![o] = ToObject[o][w]]
      BY <1>6, <1>14, <2>1
    <3>3. QED
      BY <3>1, <3>2
  <2>3. obj[o] = ToObject[o][w] /\ Shows(o, w, obj)
    BY <1>1, <2>2 DEF Shows
  <2>4. PICK note \in Frame : /\ note = Handler("channel_notify", b) /\ note.fn = "channel_notify"
                              /\ note.b = b /\ note.fn \in HandlerName
    <3>1. "channel_notify" \in HandlerName
      BY DEF HandlerName
    <3>2. Handler("channel_notify", b) \in Frame
      BY <3>1, HandlersDiffer
    <3>3. /\ Handler("channel_notify", b).fn = "channel_notify"
          /\ Handler("channel_notify", b).b = b
      BY DEF Handler
    <3>4. QED
      BY <3>1, <3>2, <3>3
  <2>5. PICK n \in Frame : n = Notify(o) /\ n.fn = "notify" /\ n.o = o
    <3>1. Notify(o) \in Frame
      BY <1>1, <1>2, EmissionKinds
    <3>2. Notify(o).fn = "notify" /\ Notify(o).o = o
      BY DEF Notify
    <3>3. QED
      BY <3>1, <3>2
  <2>6. PICK r \in Seq(Frame) : /\ r = <<init>> /\ Len(r) = 1 /\ r[1] = init /\ r # <<>>
                                /\ AllPass(r, w, bs, new, obj)
    <3>1. AllPass(<<init>>, w, bs, new, obj)
      BY <1>9, <1>10, <2>3, FirstPasses
    <3>2. init \in Frame
      BY <1>9
    <3>3. <<init>> \in Seq(Frame) /\ Len(<<init>>) = 1 /\ <<init>>[1] = init /\ <<init>> # <<>>
      BY <3>2
    <3>4. QED
      BY <3>1, <3>3
  <2>7. PICK t \in Seq(Frame) : /\ t = <<note>> \o r /\ t # <<>>
                                /\ Len(t) = 2 /\ t[1] = note /\ t[2] = init
    <3>1. LET a == <<note>> \o r
          IN  /\ Len(a) = Len(r) + 1 /\ DOMAIN a = 1..Len(a) /\ a[1] = note
              /\ \A i \in DOMAIN a : i # 1 => a[i] = r[i - 1]
      BY ConsAt
    <3>2. PICK u \in Seq(Frame) : u = <<note>> \o r /\ u # <<>>
      BY StackPush
    <3>3. /\ Len(u) = 1 + 1 /\ DOMAIN u = 1..Len(u) /\ u[1] = note
          /\ \A i \in DOMAIN u : i # 1 => u[i] = r[i - 1]
      BY <2>6, <3>1, <3>2
    <3>4. Len(u) = 2 /\ 2 \in DOMAIN u /\ 2 # 1 /\ 2 - 1 = 1
      BY <3>3
    <3>5. u[2] = init
      BY <2>6, <3>3, <3>4
    <3>6. u \in Seq(Frame)
      BY <3>2
    <3>7. QED
      BY <3>2, <3>3, <3>4, <3>5, <3>6
  <2>8. AllPass(t, w, bs, new, obj)
    <3>1. Passes(note, w, bs, new, obj)
      BY <1>7, <1>5, <2>3, <2>4 DEF Passes, o
    <3>2. QED
      BY <2>6, <2>7, <3>1, PassPush
  <2>9. /\ AllPass(<<n>> \o t, w, bs, new, obj)
        /\ \A d : Pending(d, t) \/ Owes(n, d) => Pending(d, <<n>> \o t)
    <3>1. Exact(o) => ToChannel[o][obj[o]] = w
      BY <2>1, <2>3 DEF Exact, Equal
    <3>2. Passes(n, w, bs, new, obj)
      BY <2>5, <3>1 DEF Passes, HandlerName
    <3>3. QED
      BY <2>7, <2>8, <3>2, PassPush
  <2>10. stack' = <<n>> \o t
    <3>1. <<n, note, init>> = <<n>> \o t
      BY <2>7, ThreeCalls
    <3>2. QED
      BY <1>9, <1>14, <2>4, <2>5, <3>1
  <2>11. ASSUME NEW d \in S PROVE Agrees(bs[d], new, obj) \/ Pending(d, <<n>> \o t)
    <3>1. CASE bindings[d].object = o
      <4>1. d \in Notify(o).todo
        BY <1>11, <3>1 DEF Notify
      <4>2. Owes(n, d)
        BY <2>5, <4>1 DEF Owes
      <4>3. QED
        BY <2>9, <4>2
    <3>2. CASE bindings[d].object # o
      <4>1. obj[bindings[d].object] = object[bindings[d].object]
        BY <1>11, <2>2, <3>2
      <4>2. bs[d] = bindings[d] /\ Agrees(bindings[d], new, object)
        BY <1>11
      <4>3. Agrees(bindings[d], new, obj)
        BY <4>1, <4>2 DEF Agrees
      <4>4. QED
        BY <4>2, <4>3
    <3>3. QED
      BY <3>1, <3>2
  <2>12. Agreement(<<n>> \o t, bs, new, obj, S)
    BY <2>9, <2>11 DEF Agreement
  <2>13. QED
    BY <1>4, <1>6, <1>12, <2>10, <2>12 DEF AgreeInv
<1>15. QED
  BY <1>3, <1>13, <1>14

LEMMA InitAgree == Init => AgreeInv
<1> SUFFICES ASSUME Init PROVE AgreeInv
  OBVIOUS
<1>1. stack = <<>> /\ Compared = {}
  BY DEF Init, Bound, Compared
<1>2. AllPass(stack, Unset, bindings, cache, object)
  BY <1>1, NothingToPass
<1>3. QED
  BY <1>1, <1>2 DEF AgreeInv, Agreement

LEMMA NextAgree ==
    ASSUME RoundTrip, OneDefault, BindInv, EchoInv, LevelInv, AgreeInv, [Next]_vars
    PROVE  AgreeInv'
<1>1. CASE Call
  BY <1>1, ObjectNotifyAgree, ChannelNotifyAgree DEF Call
<1>2. CASE Return
  BY <1>2, ReturnAgree
<1>3. CASE Program
  <2>1. CASE \/ InitLibrary \/ Shutdown \/ UnbindAll
             \/ \E c \in Chan : NewChannel(c) \/ FinalizeChannel(c)
             \/ \E o \in Obj : FinalizeObject(o)
    BY <2>1, MainLoopAgree
  <2>2. CASE \E o \in Obj : \E x \in ObjVal[o] : ObjectSet(o, x)
    BY <2>2, ObjectSetAgree
  <2>3. CASE \E b \in Binding : Unbind(b)
    BY <2>3, UnbindAgree
  <2>4. CASE \E b \in Binding : \E bd \in Bindable[b] : Bind(b, bd)
    BY <2>4, BindAgree
  <2>5. QED
    BY <1>3, <2>1, <2>2, <2>3, <2>4 DEF Program
<1>4. CASE Cache
  BY <1>4, CacheChangesAgree, CacheIsSilentAgree DEF Cache
<1>5. CASE UNCHANGED vars
  BY <1>5 DEF vars, chanVars, bindVars, AgreeInv, Bound, Compared
<1>6. QED
  BY <1>1, <1>2, <1>3, <1>4, <1>5 DEF Next

\* Whenever the main loop runs, the object of every binding shows what its
\* channel holds, unless the cache last changed that item without an emission:
\* channel_notify and object_notify, entered in any order by emissions inside
\* emissions, from either side and in the middle of blconf_g_property_bind or
\* of an unbinding, leave no object behind, for any number of bindings between
\* any objects and properties that the three hypotheses allow.
THEOREM BindingsAgree ==
    ASSUME InexactBoundOnce, RoundTrip, OneDefault
    PROVE  Spec => []BoundAgree
<1>1. AgreeInv => BoundAgree
  <2>1. SUFFICES ASSUME AgreeInv, stack = <<>>, NEW b \in Compared
                 PROVE  Agrees(bindings[b], cache, object)
    BY DEF BoundAgree, MainLoop, Agrees, Held, Value, Compared, ItemOf
  <2>2. QED
    BY <2>1, QuietAgrees
<1>2. BindInv /\ EchoInv /\ LevelInv /\ AgreeInv /\ [Next]_vars
        => (BindInv /\ EchoInv /\ LevelInv /\ AgreeInv)'
  <2>1. SUFFICES ASSUME BindInv, EchoInv, LevelInv, AgreeInv, [Next]_vars
                 PROVE  (BindInv /\ EchoInv /\ LevelInv /\ AgreeInv)'
    OBVIOUS
  <2>2. QED
    BY <2>1, NextBind, NextEcho, NextLevel, NextAgree
<1>3. Init => BindInv /\ EchoInv /\ LevelInv /\ AgreeInv
  BY InitBind, InitEcho, InitLevel, InitAgree
<1>4. QED
  BY <1>1, <1>2, <1>3, PTL DEF Spec

=============================================================================
