--------------------------- MODULE LifecycleProofs ---------------------------
(***************************************************************************)
(* For any number of running handlers: the publisher is closed once, what was *)
(* acquired is released at exit, and a handler finds the database closed only *)
(* if the server failed.                                                      *)
(***************************************************************************)
EXTENDS Lifecycle, SequenceTheorems, TLAPS

-----------------------------------------------------------------------------
(* The stacks of deferred calls. *)

Stack0 == <<>>
Stack1 == <<"stop">>
Stack2 == <<"obs.Shutdown", "stop">>
Stack3 == <<"cancel", "obs.Shutdown", "stop">>
Stack4 == <<"sqlDB.Close", "cancel", "obs.Shutdown", "stop">>
Stack5 == <<"closePublisher", "sqlDB.Close", "cancel", "obs.Shutdown", "stop">>

Stacks == {Stack0, Stack1, Stack2, Stack3, Stack4, Stack5}

Deferrable == {"stop", "obs.Shutdown", "cancel", "sqlDB.Close", "closePublisher"}

LEMMA StacksAreTyped == Stacks \subseteq Seq(Deferrable)
BY DEF Stacks, Deferrable, Stack0, Stack1, Stack2, Stack3, Stack4, Stack5

Push(d, s) == <<d>> \o s

\* A stack with one more call on top.
LEMMA OneMore ==
    ASSUME NEW d \in Deferrable, NEW s \in Seq(Deferrable), NEW t \in Seq(Deferrable),
           Len(t) = Len(s) + 1, t[1] = d, \A i \in 1..Len(s) : t[i + 1] = s[i]
    PROVE  Push(d, s) = t /\ Head(t) = d /\ Tail(t) = s
<1>1. <<d>> \in Seq(Deferrable) /\ Len(<<d>>) = 1 /\ <<d>>[1] = d
  OBVIOUS
<1>2. /\ <<d>> \o s \in Seq(Deferrable) /\ Len(<<d>> \o s) = 1 + Len(s)
      /\ \A i \in 1..(1 + Len(s)) :
            (<<d>> \o s)[i] = IF i <= 1 THEN <<d>>[i] ELSE s[i - 1]
  BY <1>1, ConcatProperties
<1>3. \A i \in 1..Len(t) : (<<d>> \o s)[i] = t[i]
  <2>1. SUFFICES ASSUME NEW i \in 1..Len(t) PROVE (<<d>> \o s)[i] = t[i]
    OBVIOUS
  <2>2. CASE i = 1
    BY <1>1, <1>2, <2>2
  <2>3. CASE i # 1
    <3>1. i - 1 \in 1..Len(s) /\ (i - 1) + 1 = i
      BY <2>3
    <3>. QED
      BY <1>2, <2>3, <3>1
  <2>. QED
    BY <2>2, <2>3
<1>4. <<d>> \o s = t
  BY <1>2, <1>3, SeqEqual
<1>5. t # <<>>
  OBVIOUS
<1>6. Tail(t) \in Seq(Deferrable) /\ Len(Tail(t)) = Len(s)
      /\ \A i \in 1..Len(Tail(t)) : Tail(t)[i] = t[i + 1]
  BY <1>5, HeadTailProperties
<1>7. Tail(t) = s
  BY <1>6, SeqEqual
<1>. QED
  BY <1>4, <1>5, <1>7 DEF Push

LEMMA Entries ==
    /\ Len(Stack0) = 0
    /\ Len(Stack1) = 1 /\ Stack1[1] = "stop"
    /\ Len(Stack2) = 2 /\ Stack2[1] = "obs.Shutdown" /\ Stack2[2] = "stop"
    /\ Len(Stack3) = 3 /\ Stack3[1] = "cancel" /\ Stack3[2] = "obs.Shutdown"
       /\ Stack3[3] = "stop"
    /\ Len(Stack4) = 4 /\ Stack4[1] = "sqlDB.Close" /\ Stack4[2] = "cancel"
       /\ Stack4[3] = "obs.Shutdown" /\ Stack4[4] = "stop"
    /\ Len(Stack5) = 5 /\ Stack5[1] = "closePublisher" /\ Stack5[2] = "sqlDB.Close"
       /\ Stack5[3] = "cancel" /\ Stack5[4] = "obs.Shutdown" /\ Stack5[5] = "stop"
BY DEF Stack0, Stack1, Stack2, Stack3, Stack4, Stack5

\* Each stack is its first call on top of the one before.
LEMMA Layered ==
    /\ Push("stop", Stack0) = Stack1
    /\ Head(Stack1) = "stop" /\ Tail(Stack1) = Stack0
    /\ Push("obs.Shutdown", Stack1) = Stack2
    /\ Head(Stack2) = "obs.Shutdown" /\ Tail(Stack2) = Stack1
    /\ Push("cancel", Stack2) = Stack3
    /\ Head(Stack3) = "cancel" /\ Tail(Stack3) = Stack2
    /\ Push("sqlDB.Close", Stack3) = Stack4
    /\ Head(Stack4) = "sqlDB.Close" /\ Tail(Stack4) = Stack3
    /\ Push("closePublisher", Stack4) = Stack5
    /\ Head(Stack5) = "closePublisher" /\ Tail(Stack5) = Stack4
<1>1. \A s \in Stacks : s \in Seq(Deferrable)
  BY StacksAreTyped
<1>2. /\ Push("stop", Stack0) = Stack1
      /\ Head(Stack1) = "stop" /\ Tail(Stack1) = Stack0
  <2>1. \A i \in 1..Len(Stack0) : Stack1[i + 1] = Stack0[i]
    BY Entries
  <2>2. /\ "stop" \in Deferrable /\ Stack0 \in Seq(Deferrable) /\ Stack1 \in Seq(Deferrable)
        /\ Len(Stack1) = Len(Stack0) + 1 /\ Stack1[1] = "stop"
    BY <1>1, Entries DEF Stacks, Deferrable
  <2>. QED
    BY <2>1, <2>2, OneMore
<1>3. /\ Push("obs.Shutdown", Stack1) = Stack2
      /\ Head(Stack2) = "obs.Shutdown" /\ Tail(Stack2) = Stack1
  <2>1. \A i \in 1..Len(Stack1) : Stack2[i + 1] = Stack1[i]
    BY Entries
  <2>2. /\ "obs.Shutdown" \in Deferrable /\ Stack1 \in Seq(Deferrable) /\ Stack2 \in Seq(Deferrable)
        /\ Len(Stack2) = Len(Stack1) + 1 /\ Stack2[1] = "obs.Shutdown"
    BY <1>1, Entries DEF Stacks, Deferrable
  <2>. QED
    BY <2>1, <2>2, OneMore
<1>4. /\ Push("cancel", Stack2) = Stack3
      /\ Head(Stack3) = "cancel" /\ Tail(Stack3) = Stack2
  <2>1. \A i \in 1..Len(Stack2) : Stack3[i + 1] = Stack2[i]
    BY Entries
  <2>2. /\ "cancel" \in Deferrable /\ Stack2 \in Seq(Deferrable) /\ Stack3 \in Seq(Deferrable)
        /\ Len(Stack3) = Len(Stack2) + 1 /\ Stack3[1] = "cancel"
    BY <1>1, Entries DEF Stacks, Deferrable
  <2>. QED
    BY <2>1, <2>2, OneMore
<1>5. /\ Push("sqlDB.Close", Stack3) = Stack4
      /\ Head(Stack4) = "sqlDB.Close" /\ Tail(Stack4) = Stack3
  <2>1. \A i \in 1..Len(Stack3) : Stack4[i + 1] = Stack3[i]
    BY Entries
  <2>2. /\ "sqlDB.Close" \in Deferrable /\ Stack3 \in Seq(Deferrable) /\ Stack4 \in Seq(Deferrable)
        /\ Len(Stack4) = Len(Stack3) + 1 /\ Stack4[1] = "sqlDB.Close"
    BY <1>1, Entries DEF Stacks, Deferrable
  <2>. QED
    BY <2>1, <2>2, OneMore
<1>6. /\ Push("closePublisher", Stack4) = Stack5
      /\ Head(Stack5) = "closePublisher" /\ Tail(Stack5) = Stack4
  <2>1. \A i \in 1..Len(Stack4) : Stack5[i + 1] = Stack4[i]
    BY Entries
  <2>2. /\ "closePublisher" \in Deferrable /\ Stack4 \in Seq(Deferrable) /\ Stack5 \in Seq(Deferrable)
        /\ Len(Stack5) = Len(Stack4) + 1 /\ Stack5[1] = "closePublisher"
    BY <1>1, Entries DEF Stacks, Deferrable
  <2>. QED
    BY <2>1, <2>2, OneMore
<1>. QED
  BY <1>2, <1>3, <1>4, <1>5, <1>6

LEMMA NothingPushed == ASSUME NEW s \in Stacks PROVE <<>> \o s = s
BY StacksAreTyped, ConcatEmptySeq

LEMMA Different ==
    /\ Stack0 # Stack1 /\ Stack0 # Stack2 /\ Stack0 # Stack3 /\ Stack0 # Stack4
    /\ Stack0 # Stack5 /\ Stack1 # Stack2 /\ Stack1 # Stack3 /\ Stack1 # Stack4
    /\ Stack1 # Stack5 /\ Stack2 # Stack3 /\ Stack2 # Stack4 /\ Stack2 # Stack5
    /\ Stack3 # Stack4 /\ Stack3 # Stack5 /\ Stack4 # Stack5
BY Entries

LEMMA Pushed ==
    /\ \A t \in Stacks : <<>> \o t = t
    /\ <<"stop">> \o Stack0 = Stack1
    /\ <<"obs.Shutdown">> \o Stack1 = Stack2
    /\ <<"cancel">> \o Stack2 = Stack3
    /\ <<"sqlDB.Close">> \o Stack3 = Stack4
    /\ <<"closePublisher">> \o Stack4 = Stack5
BY NothingPushed, Layered DEF Push

-----------------------------------------------------------------------------
(* The inductive invariant. *)

\* What is deferred is what the steps taken so far deferred.
StackInv ==
    /\ deferred \in Stacks
    /\ pc \in {"NotifyContext", "exited"} => deferred = Stack0
    /\ pc \in {"tracing.NewProvider", "metrics.NewProvider"} => deferred = Stack1
    /\ pc \in {"config.Load", "PubSub.Validate"} => deferred = Stack2
    /\ pc \in {"gorm.Open", "db.Use", "db.DB"} => deferred = Stack3
    /\ pc \in {"initPublisher", "CreateOrUpdateStream"} => deferred = Stack4
    /\ pc = "ListenAndServe" => deferred = Stack5

\* Whoever closed the publisher went through closePublisherOnce.
OnceInv ==
    /\ closes # 0 => closes = 1 /\ closeOnce
    /\ closeOnce => publisher # "open"
    /\ pc \in Startup => ~closeOnce /\ watcher = "none" /\ failedAt = "nowhere"

\* For what is open its release is still deferred, or the step that was to defer
\* it is ahead or has failed.
HeldInv ==
    pc # "killed" =>
        /\ meter = "open" => deferred \in {Stack2, Stack3, Stack4, Stack5}
        /\ tracer = "open" =>
               \/ deferred \in {Stack2, Stack3, Stack4, Stack5}
               \/ pc = "metrics.NewProvider"
               \/ failedAt = "metrics.NewProvider"
        /\ db = "open" =>
               \/ deferred \in {Stack4, Stack5}
               \/ pc \in {"db.Use", "db.DB"}
               \/ failedAt \in {"db.Use", "db.DB"}
        /\ conn = "open" => pc = "CreateOrUpdateStream"
        /\ publisher = "open" => deferred = Stack5

\* The context of WithCancel is done, and the database closed, only on the way
\* out, which begins when there is no server or the server failed.
ServerInv ==
    /\ pc \in Startup => server = "none"
    /\ pc \in Startup \cup {"ListenAndServe"} => ~cancelled /\ db # "closed"
    /\ pc = "ListenAndServe" => server \in {"listening", "failed"}
    /\ pc \in {"return", "exited"} => server \in {"none", "failed"}
    /\ db = "closed" => server \in {"none", "failed"}
    /\ server = "none" => inFlight = 0

Inv == TypeOK /\ StackInv /\ OnceInv /\ HeldInv /\ ServerInv

LEMMA InitInv == Init => Inv
<1>. SUFFICES ASSUME Init PROVE Inv
  OBVIOUS
<1>1. deferred = Stack0 /\ Stack0 \in Seq(Deferrable)
  BY StacksAreTyped DEF Init, Stacks, Stack0
<1>2. TypeOK
  <2>1. pc \in Startup \cup {"ListenAndServe", "return"} \cup Over
        /\ failedAt \in Startup \cup {"nowhere"}
    BY DEF Init, Startup
  <2>2. deferred \in Seq({"stop", "obs.Shutdown", "cancel", "sqlDB.Close", "closePublisher"})
    BY <1>1 DEF Deferrable
  <2>3. inFlight \in 0..MaxInFlight /\ closes \in Nat /\ status \in {0, 1}
    BY MaxInFlightAssumption DEF Init
  <2>4. /\ tracer \in Resource /\ meter \in Resource /\ db \in Resource /\ conn \in Resource
        /\ publisher \in Resource \cup {"nil"}
        /\ watcher \in {"none", "waiting", "Shutdown", "done"}
        /\ server \in {"none", "listening", "failed", "shutdown"}
    BY DEF Init, Resource
  <2>5. signalled \in BOOLEAN /\ cancelled \in BOOLEAN /\ closeOnce \in BOOLEAN /\ gcloud \in BOOLEAN
    BY DEF Init
  <2>. QED
    BY <2>1, <2>2, <2>3, <2>4, <2>5 DEF TypeOK
<1>3. StackInv
  BY <1>1 DEF Init, StackInv, Stacks
<1>4. OnceInv
  BY DEF Init, OnceInv
<1>5. HeldInv
  BY DEF Init, HeldInv
<1>6. ServerInv
  BY DEF Init, ServerInv
<1>. QED
  BY <1>2, <1>3, <1>4, <1>5, <1>6 DEF Inv

LEMMA NotifyContextStep == Inv /\ NotifyContext => Inv'
<1>. SUFFICES ASSUME Inv, NotifyContext PROVE Inv'
  OBVIOUS
<1>. USE DEF NotifyContext, Continue, heldVars
<1>1. StackInv'
  BY Pushed, Different DEF Inv, StackInv, Stacks, Startup, Over
<1>2. TypeOK'
  BY <1>1, StacksAreTyped, MaxInFlightAssumption
     DEF Inv, StackInv, TypeOK, Startup, Over, Resource, Deferrable
<1>3. OnceInv'
  BY DEF Inv, TypeOK, OnceInv, Startup, Over, Resource
<1>4. HeldInv'
  BY <1>1, Pushed, Different DEF Inv, TypeOK, HeldInv, StackInv, OnceInv, Startup, Over, Resource
<1>5. ServerInv'
  BY MaxInFlightAssumption DEF Inv, TypeOK, ServerInv, Startup, Over, Resource
<1>. QED
  BY <1>1, <1>2, <1>3, <1>4, <1>5 DEF Inv

LEMMA NewTracerProviderStep == Inv /\ NewTracerProvider => Inv'
<1>. SUFFICES ASSUME Inv, NewTracerProvider PROVE Inv'
  OBVIOUS
<1>. USE DEF NewTracerProvider, Continue
<1>1. StackInv'
  BY Pushed, Different DEF Inv, StackInv, Stacks, Startup, Over
<1>2. TypeOK'
  BY <1>1, StacksAreTyped, MaxInFlightAssumption
     DEF Inv, StackInv, TypeOK, Startup, Over, Resource, Deferrable
<1>3. OnceInv'
  BY DEF Inv, TypeOK, OnceInv, Startup, Over, Resource
<1>4. HeldInv'
  BY <1>1, Pushed, Different DEF Inv, TypeOK, HeldInv, StackInv, OnceInv, Startup, Over, Resource
<1>5. ServerInv'
  BY MaxInFlightAssumption DEF Inv, TypeOK, ServerInv, Startup, Over, Resource
<1>. QED
  BY <1>1, <1>2, <1>3, <1>4, <1>5 DEF Inv

LEMMA NewMeterProviderStep == Inv /\ NewMeterProvider => Inv'
<1>. SUFFICES ASSUME Inv, NewMeterProvider PROVE Inv'
  OBVIOUS
<1>. USE DEF NewMeterProvider, Continue
<1>1. StackInv'
  BY Pushed, Different DEF Inv, StackInv, Stacks, Startup, Over
<1>2. TypeOK'
  BY <1>1, StacksAreTyped, MaxInFlightAssumption
     DEF Inv, StackInv, TypeOK, Startup, Over, Resource, Deferrable
<1>3. OnceInv'
  BY DEF Inv, TypeOK, OnceInv, Startup, Over, Resource
<1>4. HeldInv'
  BY <1>1, Pushed, Different DEF Inv, TypeOK, HeldInv, StackInv, OnceInv, Startup, Over, Resource
<1>5. ServerInv'
  BY MaxInFlightAssumption DEF Inv, TypeOK, ServerInv, Startup, Over, Resource
<1>. QED
  BY <1>1, <1>2, <1>3, <1>4, <1>5 DEF Inv

LEMMA LoadConfigStep == Inv /\ LoadConfig => Inv'
<1>. SUFFICES ASSUME Inv, LoadConfig PROVE Inv'
  OBVIOUS
<1>. USE DEF LoadConfig, Continue, heldVars
<1>1. StackInv'
  BY Pushed, Different DEF Inv, StackInv, Stacks, Startup, Over
<1>2. TypeOK'
  BY <1>1, StacksAreTyped, MaxInFlightAssumption
     DEF Inv, StackInv, TypeOK, Startup, Over, Resource, Deferrable
<1>3. OnceInv'
  BY DEF Inv, TypeOK, OnceInv, Startup, Over, Resource
<1>4. HeldInv'
  BY <1>1, Pushed, Different DEF Inv, TypeOK, HeldInv, StackInv, OnceInv, Startup, Over, Resource
<1>5. ServerInv'
  BY MaxInFlightAssumption DEF Inv, TypeOK, ServerInv, Startup, Over, Resource
<1>. QED
  BY <1>1, <1>2, <1>3, <1>4, <1>5 DEF Inv

LEMMA ValidatePubSubStep == Inv /\ ValidatePubSub => Inv'
<1>. SUFFICES ASSUME Inv, ValidatePubSub PROVE Inv'
  OBVIOUS
<1>. USE DEF ValidatePubSub, Continue, heldVars
<1>1. StackInv'
  BY Pushed, Different DEF Inv, StackInv, Stacks, Startup, Over
<1>2. TypeOK'
  BY <1>1, StacksAreTyped, MaxInFlightAssumption
     DEF Inv, StackInv, TypeOK, Startup, Over, Resource, Deferrable
<1>3. OnceInv'
  BY DEF Inv, TypeOK, OnceInv, Startup, Over, Resource
<1>4. HeldInv'
  BY <1>1, Pushed, Different DEF Inv, TypeOK, HeldInv, StackInv, OnceInv, Startup, Over, Resource
<1>5. ServerInv'
  BY MaxInFlightAssumption DEF Inv, TypeOK, ServerInv, Startup, Over, Resource
<1>. QED
  BY <1>1, <1>2, <1>3, <1>4, <1>5 DEF Inv

LEMMA OpenDatabaseStep == Inv /\ OpenDatabase => Inv'
<1>. SUFFICES ASSUME Inv, OpenDatabase PROVE Inv'
  OBVIOUS
<1>. USE DEF OpenDatabase, Continue
<1>1. StackInv'
  BY Pushed, Different DEF Inv, StackInv, Stacks, Startup, Over
<1>2. TypeOK'
  BY <1>1, StacksAreTyped, MaxInFlightAssumption
     DEF Inv, StackInv, TypeOK, Startup, Over, Resource, Deferrable
<1>3. OnceInv'
  BY DEF Inv, TypeOK, OnceInv, Startup, Over, Resource
<1>4. HeldInv'
  BY <1>1, Pushed, Different DEF Inv, TypeOK, HeldInv, StackInv, OnceInv, Startup, Over, Resource
<1>5. ServerInv'
  BY MaxInFlightAssumption DEF Inv, TypeOK, ServerInv, Startup, Over, Resource
<1>. QED
  BY <1>1, <1>2, <1>3, <1>4, <1>5 DEF Inv

LEMMA ConfigureDatabaseStep == Inv /\ ConfigureDatabase => Inv'
<1>. SUFFICES ASSUME Inv, ConfigureDatabase PROVE Inv'
  OBVIOUS
<1>. USE DEF ConfigureDatabase, Continue, heldVars
<1>1. StackInv'
  BY Pushed, Different DEF Inv, StackInv, Stacks, Startup, Over
<1>2. TypeOK'
  BY <1>1, StacksAreTyped, MaxInFlightAssumption
     DEF Inv, StackInv, TypeOK, Startup, Over, Resource, Deferrable
<1>3. OnceInv'
  BY DEF Inv, TypeOK, OnceInv, Startup, Over, Resource
<1>4. HeldInv'
  BY <1>1, Pushed, Different DEF Inv, TypeOK, HeldInv, StackInv, OnceInv, Startup, Over, Resource
<1>5. ServerInv'
  BY MaxInFlightAssumption DEF Inv, TypeOK, ServerInv, Startup, Over, Resource
<1>. QED
  BY <1>1, <1>2, <1>3, <1>4, <1>5 DEF Inv

LEMMA GetSQLDBStep == Inv /\ GetSQLDB => Inv'
<1>. SUFFICES ASSUME Inv, GetSQLDB PROVE Inv'
  OBVIOUS
<1>. USE DEF GetSQLDB, Continue, heldVars
<1>1. StackInv'
  BY Pushed, Different DEF Inv, StackInv, Stacks, Startup, Over
<1>2. TypeOK'
  BY <1>1, StacksAreTyped, MaxInFlightAssumption
     DEF Inv, StackInv, TypeOK, Startup, Over, Resource, Deferrable
<1>3. OnceInv'
  BY DEF Inv, TypeOK, OnceInv, Startup, Over, Resource
<1>4. HeldInv'
  BY <1>1, Pushed, Different DEF Inv, TypeOK, HeldInv, StackInv, OnceInv, Startup, Over, Resource
<1>5. ServerInv'
  BY MaxInFlightAssumption DEF Inv, TypeOK, ServerInv, Startup, Over, Resource
<1>. QED
  BY <1>1, <1>2, <1>3, <1>4, <1>5 DEF Inv

LEMMA NoPublisherStep == Inv /\ NoPublisher => Inv'
<1>. SUFFICES ASSUME Inv, NoPublisher PROVE Inv'
  OBVIOUS
<1>. USE DEF NoPublisher, ServeWith, Continue
<1>1. StackInv'
  BY Pushed, Different DEF Inv, StackInv, Stacks, Startup, Over
<1>2. TypeOK'
  BY <1>1, StacksAreTyped, MaxInFlightAssumption
     DEF Inv, StackInv, TypeOK, Startup, Over, Resource, Deferrable
<1>3. OnceInv'
  BY DEF Inv, TypeOK, OnceInv, Startup, Over, Resource
<1>4. HeldInv'
  BY <1>1, Pushed, Different DEF Inv, TypeOK, HeldInv, StackInv, OnceInv, Startup, Over, Resource
<1>5. ServerInv'
  BY MaxInFlightAssumption DEF Inv, TypeOK, ServerInv, Startup, Over, Resource
<1>. QED
  BY <1>1, <1>2, <1>3, <1>4, <1>5 DEF Inv

LEMMA NewGCloudPublisherStep == Inv /\ NewGCloudPublisher => Inv'
<1>. SUFFICES ASSUME Inv, NewGCloudPublisher PROVE Inv'
  OBVIOUS
<1>. USE DEF NewGCloudPublisher, ServeWith, Continue
<1>1. StackInv'
  BY Pushed, Different DEF Inv, StackInv, Stacks, Startup, Over
<1>2. TypeOK'
  BY <1>1, StacksAreTyped, MaxInFlightAssumption
     DEF Inv, StackInv, TypeOK, Startup, Over, Resource, Deferrable
<1>3. OnceInv'
  BY DEF Inv, TypeOK, OnceInv, Startup, Over, Resource
<1>4. HeldInv'
  BY <1>1, Pushed, Different DEF Inv, TypeOK, HeldInv, StackInv, OnceInv, Startup, Over, Resource
<1>5. ServerInv'
  BY MaxInFlightAssumption DEF Inv, TypeOK, ServerInv, Startup, Over, Resource
<1>. QED
  BY <1>1, <1>2, <1>3, <1>4, <1>5 DEF Inv

LEMMA ConnectNATSStep == Inv /\ ConnectNATS => Inv'
<1>. SUFFICES ASSUME Inv, ConnectNATS PROVE Inv'
  OBVIOUS
<1>. USE DEF ConnectNATS, Continue
<1>1. StackInv'
  BY Pushed, Different DEF Inv, StackInv, Stacks, Startup, Over
<1>2. TypeOK'
  BY <1>1, StacksAreTyped, MaxInFlightAssumption
     DEF Inv, StackInv, TypeOK, Startup, Over, Resource, Deferrable
<1>3. OnceInv'
  BY DEF Inv, TypeOK, OnceInv, Startup, Over, Resource
<1>4. HeldInv'
  BY <1>1, Pushed, Different DEF Inv, TypeOK, HeldInv, StackInv, OnceInv, Startup, Over, Resource
<1>5. ServerInv'
  BY MaxInFlightAssumption DEF Inv, TypeOK, ServerInv, Startup, Over, Resource
<1>. QED
  BY <1>1, <1>2, <1>3, <1>4, <1>5 DEF Inv

LEMMA NewNATSPublisherStep == Inv /\ NewNATSPublisher => Inv'
<1>. SUFFICES ASSUME Inv, NewNATSPublisher PROVE Inv'
  OBVIOUS
<1>. USE DEF NewNATSPublisher, ServeWith, Continue
<1>1. StackInv'
  BY Pushed, Different DEF Inv, StackInv, Stacks, Startup, Over
<1>2. TypeOK'
  BY <1>1, StacksAreTyped, MaxInFlightAssumption
     DEF Inv, StackInv, TypeOK, Startup, Over, Resource, Deferrable
<1>3. OnceInv'
  BY DEF Inv, TypeOK, OnceInv, Startup, Over, Resource
<1>4. HeldInv'
  BY <1>1, Pushed, Different DEF Inv, TypeOK, HeldInv, StackInv, OnceInv, Startup, Over, Resource
<1>5. ServerInv'
  BY MaxInFlightAssumption DEF Inv, TypeOK, ServerInv, Startup, Over, Resource
<1>. QED
  BY <1>1, <1>2, <1>3, <1>4, <1>5 DEF Inv

LEMMA StartupFailsStep == Inv /\ StartupFails => Inv'
<1>. SUFFICES ASSUME Inv, StartupFails PROVE Inv'
  OBVIOUS
<1>. USE DEF StartupFails, MayFail, closeVars
<1>1. StackInv'
  BY Pushed, Different DEF Inv, StackInv, Stacks, Startup, Over
<1>2. TypeOK'
  BY <1>1, StacksAreTyped, MaxInFlightAssumption
     DEF Inv, StackInv, TypeOK, Startup, Over, Resource, Deferrable
<1>3. OnceInv'
  BY DEF Inv, TypeOK, OnceInv, Startup, Over, Resource
<1>4. HeldInv'
  BY <1>1, Pushed, Different DEF Inv, TypeOK, HeldInv, StackInv, OnceInv, Startup, Over, Resource
<1>5. ServerInv'
  BY MaxInFlightAssumption DEF Inv, TypeOK, ServerInv, Startup, Over, Resource
<1>. QED
  BY <1>1, <1>2, <1>3, <1>4, <1>5 DEF Inv

LEMMA ServeReturnsStep == Inv /\ ServeReturns => Inv'
<1>. SUFFICES ASSUME Inv, ServeReturns PROVE Inv'
  OBVIOUS
<1>. USE DEF ServeReturns, Returned, heldVars, closeVars
<1>1. StackInv'
  BY Pushed, Different DEF Inv, StackInv, Stacks, Startup, Over
<1>2. TypeOK'
  BY <1>1, StacksAreTyped, MaxInFlightAssumption
     DEF Inv, StackInv, TypeOK, Startup, Over, Resource, Deferrable
<1>3. OnceInv'
  BY DEF Inv, TypeOK, OnceInv, Startup, Over, Resource
<1>4. HeldInv'
  BY <1>1, Pushed, Different DEF Inv, TypeOK, HeldInv, StackInv, OnceInv, Startup, Over, Resource
<1>5. ServerInv'
  BY MaxInFlightAssumption DEF Inv, TypeOK, ServerInv, Startup, Over, Resource
<1>. QED
  BY <1>1, <1>2, <1>3, <1>4, <1>5 DEF Inv

LEMMA ExitStep == Inv /\ Exit => Inv'
<1>. SUFFICES ASSUME Inv, Exit PROVE Inv'
  OBVIOUS
<1>. USE DEF Exit, heldVars, closeVars
<1>1. StackInv'
  BY Pushed, Different DEF Inv, StackInv, Stacks, Startup, Over
<1>2. TypeOK'
  BY <1>1, StacksAreTyped, MaxInFlightAssumption
     DEF Inv, StackInv, TypeOK, Startup, Over, Resource, Deferrable
<1>3. OnceInv'
  BY DEF Inv, TypeOK, OnceInv, Startup, Over, Resource
<1>4. HeldInv'
  BY <1>1, Pushed, Different DEF Inv, TypeOK, HeldInv, StackInv, OnceInv, Startup, Over, Resource
<1>5. ServerInv'
  BY MaxInFlightAssumption DEF Inv, TypeOK, ServerInv, Startup, Over, Resource
<1>. QED
  BY <1>1, <1>2, <1>3, <1>4, <1>5 DEF Inv

LEMMA WatcherWakesStep == Inv /\ WatcherWakes => Inv'
<1>. SUFFICES ASSUME Inv, WatcherWakes PROVE Inv'
  OBVIOUS
<1>. USE DEF WatcherWakes, ContextDone, Running, heldVars, closeVars
<1>1. StackInv'
  BY Pushed, Different DEF Inv, StackInv, Stacks, Startup, Over
<1>2. TypeOK'
  BY <1>1, StacksAreTyped, MaxInFlightAssumption
     DEF Inv, StackInv, TypeOK, Startup, Over, Resource, Deferrable
<1>3. OnceInv'
  BY DEF Inv, TypeOK, OnceInv, Startup, Over, Resource
<1>4. HeldInv'
  BY <1>1, Pushed, Different DEF Inv, TypeOK, HeldInv, StackInv, OnceInv, Startup, Over, Resource
<1>5. ServerInv'
  BY MaxInFlightAssumption DEF Inv, TypeOK, ServerInv, Startup, Over, Resource
<1>. QED
  BY <1>1, <1>2, <1>3, <1>4, <1>5 DEF Inv

LEMMA WatcherClosesStep == Inv /\ WatcherCloses => Inv'
<1>. SUFFICES ASSUME Inv, WatcherCloses PROVE Inv'
  OBVIOUS
<1>. USE DEF WatcherCloses, ClosePublisher, Running, heldVars
<1>1. StackInv'
  BY Pushed, Different DEF Inv, StackInv, Stacks, Startup, Over
<1>2. TypeOK'
  BY <1>1, StacksAreTyped, MaxInFlightAssumption
     DEF Inv, StackInv, TypeOK, Startup, Over, Resource, Deferrable
<1>3. OnceInv'
  BY DEF Inv, TypeOK, OnceInv, Startup, Over, Resource
<1>4. HeldInv'
  BY <1>1, Pushed, Different DEF Inv, TypeOK, HeldInv, StackInv, OnceInv, Startup, Over, Resource
<1>5. ServerInv'
  BY MaxInFlightAssumption DEF Inv, TypeOK, ServerInv, Startup, Over, Resource
<1>. QED
  BY <1>1, <1>2, <1>3, <1>4, <1>5 DEF Inv

LEMMA SignalStep == Inv /\ Signal => Inv'
<1>. SUFFICES ASSUME Inv, Signal PROVE Inv'
  OBVIOUS
<1>. USE DEF Signal, Running, heldVars, closeVars
<1>1. StackInv'
  BY Pushed, Different DEF Inv, StackInv, Stacks, Startup, Over
<1>2. TypeOK'
  <2>1. pc' \in Startup \cup {"ListenAndServe", "return"} \cup Over
    BY DEF Inv, TypeOK, Over
  <2>2. signalled' \in BOOLEAN
    BY DEF Inv, TypeOK
  <2>. QED
    BY <1>1, <2>1, <2>2, StacksAreTyped DEF Inv, StackInv, TypeOK, Deferrable
<1>3. OnceInv'
  BY DEF Inv, TypeOK, OnceInv, Startup, Over, Resource
<1>4. HeldInv'
  BY <1>1, Pushed, Different DEF Inv, TypeOK, HeldInv, StackInv, OnceInv, Startup, Over, Resource
<1>5. ServerInv'
  BY MaxInFlightAssumption DEF Inv, TypeOK, ServerInv, Startup, Over, Resource
<1>. QED
  BY <1>1, <1>2, <1>3, <1>4, <1>5 DEF Inv

LEMMA HandlerStartsStep == Inv /\ HandlerStarts => Inv'
<1>. SUFFICES ASSUME Inv, HandlerStarts PROVE Inv'
  OBVIOUS
<1>. USE DEF HandlerStarts, Running, heldVars, closeVars
<1>1. StackInv'
  BY Pushed, Different DEF Inv, StackInv, Stacks, Startup, Over
<1>2. TypeOK'
  BY <1>1, StacksAreTyped, MaxInFlightAssumption
     DEF Inv, StackInv, TypeOK, Startup, Over, Resource, Deferrable
<1>3. OnceInv'
  BY DEF Inv, TypeOK, OnceInv, Startup, Over, Resource
<1>4. HeldInv'
  BY <1>1, Pushed, Different DEF Inv, TypeOK, HeldInv, StackInv, OnceInv, Startup, Over, Resource
<1>5. ServerInv'
  BY MaxInFlightAssumption DEF Inv, TypeOK, ServerInv, Startup, Over, Resource
<1>. QED
  BY <1>1, <1>2, <1>3, <1>4, <1>5 DEF Inv

LEMMA HandlerEndsStep == Inv /\ HandlerEnds => Inv'
<1>. SUFFICES ASSUME Inv, HandlerEnds PROVE Inv'
  OBVIOUS
<1>. USE DEF HandlerEnds, Running, heldVars, closeVars
<1>1. StackInv'
  BY Pushed, Different DEF Inv, StackInv, Stacks, Startup, Over
<1>2. TypeOK'
  BY <1>1, StacksAreTyped, MaxInFlightAssumption
     DEF Inv, StackInv, TypeOK, Startup, Over, Resource, Deferrable
<1>3. OnceInv'
  BY DEF Inv, TypeOK, OnceInv, Startup, Over, Resource
<1>4. HeldInv'
  BY <1>1, Pushed, Different DEF Inv, TypeOK, HeldInv, StackInv, OnceInv, Startup, Over, Resource
<1>5. ServerInv'
  BY MaxInFlightAssumption DEF Inv, TypeOK, ServerInv, Startup, Over, Resource
<1>. QED
  BY <1>1, <1>2, <1>3, <1>4, <1>5 DEF Inv

LEMMA ServerFailsStep == Inv /\ ServerFails => Inv'
<1>. SUFFICES ASSUME Inv, ServerFails PROVE Inv'
  OBVIOUS
<1>. USE DEF ServerFails, Running, heldVars, closeVars
<1>1. StackInv'
  BY Pushed, Different DEF Inv, StackInv, Stacks, Startup, Over
<1>2. TypeOK'
  BY <1>1, StacksAreTyped, MaxInFlightAssumption
     DEF Inv, StackInv, TypeOK, Startup, Over, Resource, Deferrable
<1>3. OnceInv'
  BY DEF Inv, TypeOK, OnceInv, Startup, Over, Resource
<1>4. HeldInv'
  BY <1>1, Pushed, Different DEF Inv, TypeOK, HeldInv, StackInv, OnceInv, Startup, Over, Resource
<1>5. ServerInv'
  BY MaxInFlightAssumption DEF Inv, TypeOK, ServerInv, Startup, Over, Resource
<1>. QED
  BY <1>1, <1>2, <1>3, <1>4, <1>5 DEF Inv

LEMMA RunDeferredStep == Inv /\ RunDeferred => Inv'
<1>. SUFFICES ASSUME Inv, RunDeferred PROVE Inv'
  OBVIOUS
<1>. USE DEF RunDeferred, ClosePublisher, ShutdownObservability, closeVars
<1>1. pc = "return" /\ pc' = "return" /\ deferred' = Tail(deferred)
  OBVIOUS
<1>2. deferred \in {Stack1, Stack2, Stack3, Stack4, Stack5}
  BY Different DEF Inv, StackInv, Stacks, Stack0
<1>3. StackInv'
  BY <1>1, <1>2, Layered DEF StackInv, Stacks
<1>4. TypeOK'
  <2>1. cancelled' \in BOOLEAN
    BY Zenon DEF Inv, TypeOK
  <2>2. closeOnce' = TRUE \/ closeOnce' = closeOnce
    BY Zenon
  <2>3. closes' \in Nat
    BY DEF Inv, TypeOK
  <2>4. /\ tracer' \in Resource /\ meter' \in Resource /\ db' \in Resource
        /\ publisher' \in Resource \cup {"nil"}
    BY DEF Inv, TypeOK, Resource
  <2>. QED
    BY <1>1, <1>3, <2>1, <2>2, <2>3, <2>4, StacksAreTyped DEF Inv, StackInv, TypeOK, Deferrable
<1>5. OnceInv'
  BY <1>1 DEF Inv, TypeOK, OnceInv, Startup, Over, Resource
<1>6. HeldInv'
  <2>1. meter' = "open" => deferred' \in {Stack2, Stack3, Stack4, Stack5}
    BY <1>1, <1>2, Layered, Different DEF Inv, HeldInv
  <2>2. tracer' = "open" => \/ deferred' \in {Stack2, Stack3, Stack4, Stack5}
                            \/ failedAt' = "metrics.NewProvider"
    BY <1>1, <1>2, Layered, Different DEF Inv, HeldInv
  <2>3. db' = "open" => deferred' \in {Stack4, Stack5} \/ failedAt' \in {"db.Use", "db.DB"}
    BY <1>1, <1>2, Layered, Different DEF Inv, HeldInv
  <2>4. conn' # "open"
    BY <1>1 DEF Inv, HeldInv
  <2>5. publisher' # "open"
    BY <1>1, <1>2, Layered, Different DEF Inv, HeldInv, OnceInv
  <2>. QED
    BY <2>1, <2>2, <2>3, <2>4, <2>5 DEF HeldInv
<1>7. ServerInv'
  BY <1>1 DEF Inv, TypeOK, ServerInv, Startup, Over, Resource
<1>. QED
  BY <1>3, <1>4, <1>5, <1>6, <1>7 DEF Inv

\* Inv holds in every state run() can be in.
THEOREM Invariance == Spec => []Inv
<1>1. Init => Inv
  BY InitInv
<1>2. Inv /\ [Next]_vars => Inv'
  <2>. SUFFICES ASSUME Inv, [Next]_vars PROVE Inv'
    OBVIOUS
  <2>1. CASE Main
    BY <2>1, NotifyContextStep, NewTracerProviderStep, NewMeterProviderStep, LoadConfigStep,
       ValidatePubSubStep, OpenDatabaseStep, ConfigureDatabaseStep, GetSQLDBStep,
       NoPublisherStep, NewGCloudPublisherStep, ConnectNATSStep, NewNATSPublisherStep,
       StartupFailsStep, ServeReturnsStep, RunDeferredStep, ExitStep
       DEF Main, InitPublisher
  <2>2. CASE Watcher
    BY <2>2, WatcherWakesStep, WatcherClosesStep DEF Watcher
  <2>3. CASE Signal \/ HandlerStarts \/ HandlerEnds \/ ServerFails
    BY <2>3, SignalStep, HandlerStartsStep, HandlerEndsStep, ServerFailsStep
  <2>4. CASE Finished \/ UNCHANGED vars
    BY <2>4 DEF Finished, vars, Inv, TypeOK, StackInv, OnceInv, HeldInv, ServerInv
  <2>. QED
    BY <2>1, <2>2, <2>3, <2>4 DEF Next
<1>. QED
  BY <1>1, <1>2, PTL DEF Spec

\* Type correctness of run().
THEOREM TypeCorrect == Spec => []TypeOK
<1>1. Inv => TypeOK
  BY DEF Inv
<1>. QED
  BY <1>1, Invariance, PTL

\* However the deferred call and the second goroutine interleave, the publisher is
\* closed once.
THEOREM PublisherIsClosedOnce == Spec => []PublisherClosedOnce
<1>1. Inv => PublisherClosedOnce
  BY DEF Inv, TypeOK, OnceInv, PublisherClosedOnce
<1>. QED
  BY <1>1, Invariance, PTL

\* Whatever failed, run() returns with nothing open but what its comment excepts.
THEOREM EverythingIsReleased == Spec => []ReleasedAtExit
<1>1. Inv => ReleasedAtExit
  <2>. SUFFICES ASSUME Inv, pc = "exited" PROVE ReleasedAtExit
    BY DEF ReleasedAtExit
  <2>1. deferred \notin {Stack2, Stack3, Stack4, Stack5}
    BY Different DEF Inv, StackInv
  <2>. QED
    BY <2>1 DEF Inv, HeldInv, ReleasedAtExit
<1>. QED
  BY <1>1, Invariance, PTL

\* With any number of handlers running, none of them finds the database closed
\* unless the server failed.
THEOREM HandlersKeepTheirDatabase == Spec => []DatabaseOutlivesHandlers
<1>1. Inv => DatabaseOutlivesHandlers
  BY DEF Inv, TypeOK, ServerInv, DatabaseOutlivesHandlers
<1>. QED
  BY <1>1, Invariance, PTL

=============================================================================
