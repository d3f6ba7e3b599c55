-------------------------- MODULE RemindModelProofs --------------------------
(***************************************************************************)
(* For any resolution of the clock and of the columns, any bodies, any        *)
(* widths in bounds and any number of throttlings that hold copies: a row     *)
(* stays readable, later answers agree with the first one, updated_at is of   *)
(* the update that wrote it, and 500 stores nothing.                          *)
(***************************************************************************)
EXTENDS RemindModel, TLAPS

-----------------------------------------------------------------------------
(* The inductive invariant. *)

\* What an entity, a row and an answer never change: the columns Updates writes
\* over from a copy that was read before.
Fixed(r) == <<r.time, r.userID, r.taskID, r.devices, r.taskType, r.width, r.createdAt>>

\* A row is there from the creation that succeeded on.
CreatedInv ==
    /\ row = Null <=> created = Null
    /\ row = Null => \A u \in Updaters : copy[u] = Null
    /\ created # Null => Accepted(created)
    /\ row # Null => shown # Null

\* A row can be read, its times fit the clock, and it shows what was answered.
RowInv ==
    row # Null =>
        /\ Readable(row)
        /\ row.time * Micro \in Ticks /\ row.createdAt * Micro \in Ticks
        /\ row.updatedAt <= Stored(clock)
        /\ Kept(Output(ToEntity(row))) = Kept(shown)

\* However old a copy is, what an update writes back of it is what the row has.
CopyInv ==
    \A u \in Updaters :
        copy[u] # Null => row # Null /\ Fixed(FromEntity(copy[u])) = Fixed(row)

\* A call that holds a copy read it, and took the time it writes after that.
StampInv ==
    \A u \in Updaters :
        /\ copy[u] = Null => stamp[u] = Null
        /\ copy[u] # Null => readAt[u] \in Ticks /\ readAt[u] <= clock
        /\ stamp[u] # Null => readAt[u] <= stamp[u] /\ stamp[u] <= clock

\* An answer 500 has a body the column refuses.
ReplyInv == reply = 500 => asked # Null /\ RefusedByColumn(asked)

Inv == TypeOK /\ CreatedInv /\ RowInv /\ CopyInv /\ StampInv /\ ReplyInv /\ RetrySucceeds

-----------------------------------------------------------------------------
(* Arithmetic of the conversions. *)

\* A quotient by a positive number and its remainder.
LEMMA Quotient ==
    ASSUME NEW m \in Nat \ {0}, NEW t \in Nat
    PROVE  /\ t \div m \in Nat
           /\ (t \div m) * m <= t
           /\ t < (t \div m) * m + m
           /\ t \div m <= t
<1>. DEFINE q == t \div m
            r == t % m
<1>1. q \in Int /\ r \in Int /\ t = m * q + r /\ 0 <= r /\ r < m
  OBVIOUS
<1>. HIDE DEF q, r
<1>2. 0 <= q
  <2>1. SUFFICES ASSUME q <= -1 PROVE FALSE
    BY <1>1
  <2>2. m * q <= m * (-1)
    BY <1>1, <2>1
  <2>. QED
    BY <1>1, <2>2
<1>3. q * m <= t /\ t < q * m + m
  BY <1>1
<1>4. q <= q * m
  BY <1>1, <1>2
<1>. QED
  BY <1>1, <1>2, <1>3, <1>4 DEF q

\* The number of whole parts is the only one with the remainder below a part.
LEMMA QuotientUnique ==
    ASSUME NEW m \in Nat \ {0}, NEW t \in Nat, NEW s \in Nat,
           s * m <= t, t < s * m + m
    PROVE  t \div m = s
<1>. DEFINE q == t \div m
<1>1. q \in Nat /\ q * m <= t /\ t < q * m + m
  BY Quotient
<1>. HIDE DEF q
<1>2. ~(q < s)
  <2>1. SUFFICES ASSUME q + 1 <= s PROVE FALSE
    BY <1>1
  <2>2. (q + 1) * m <= s * m
    BY <1>1, <2>1
  <2>. QED
    BY <1>1, <2>2
<1>3. ~(s < q)
  <2>1. SUFFICES ASSUME s + 1 <= q PROVE FALSE
    BY <1>1
  <2>2. (s + 1) * m <= q * m
    BY <1>1, <2>1
  <2>. QED
    BY <1>1, <2>2
<1>. QED
  BY <1>1, <1>2, <1>3 DEF q

\* What a column keeps of a point of time is in range, and comes back as it is.
LEMMA StoredTime ==
    ASSUME NEW t \in Ticks
    PROVE  /\ Stored(t) \in Ticks /\ Stored(t) * Micro \in Ticks
           /\ Stored(t) * Micro <= t
<1>. USE ScaleAssumption, ClockAssumption DEF Ticks
<1>1. /\ t \div Micro \in Nat /\ t \div Micro <= t /\ (t \div Micro) * Micro <= t
  BY Quotient
<1>. DEFINE q == t \div Micro
<1>2. q \in Nat /\ q <= t /\ q * Micro <= t
  BY <1>1
<1>. HIDE DEF q
<1>3. q * Micro \in Nat
  BY <1>2
<1>4. Stored(t) = q
  BY DEF Stored, q
<1>. QED
  BY <1>2, <1>3, <1>4

LEMMA StoredAgain ==
    ASSUME NEW s \in Nat
    PROVE  Stored(s * Micro) = s
<1>. USE ScaleAssumption
<1>1. s * Micro \in Nat /\ s * Micro < s * Micro + Micro
  OBVIOUS
<1>2. (s * Micro) \div Micro = s
  BY <1>1, QuotientUnique
<1>. QED
  BY <1>2 DEF Stored

\* Cutting keeps the order of two points of time.
LEMMA StoredInOrder ==
    ASSUME NEW t \in Nat, NEW later \in Nat, t <= later
    PROVE  Stored(t) \in Nat /\ Stored(later) \in Nat /\ Stored(t) <= Stored(later)
<1>. USE ScaleAssumption
<1>. DEFINE q == t \div Micro
            p == later \div Micro
<1>1. q \in Nat /\ q * Micro <= t
  BY Quotient
<1>2. p \in Nat /\ later < p * Micro + Micro
  BY Quotient
<1>3. Stored(t) = q /\ Stored(later) = p
  BY DEF Stored
<1>. HIDE DEF q, p
<1>4. ~(p < q)
  <2>1. SUFFICES ASSUME p + 1 <= q PROVE FALSE
    BY <1>1, <1>2
  <2>2. (p + 1) * Micro <= q * Micro
    BY <1>1, <1>2, <2>1
  <2>. QED
    BY <1>1, <1>2, <2>2
<1>. QED
  BY <1>1, <1>2, <1>3, <1>4

\* A width in bounds is in bounds again when it is read back, and its seconds are
\* the ones that were written.
LEMMA WidthReadBack ==
    ASSUME NEW w \in Nat, InBounds(w)
    PROVE  /\ Seconds(w) \in Nat
           /\ InBounds(FromSeconds(Seconds(w)))
           /\ Seconds(FromSeconds(Seconds(w))) = Seconds(w)
<1>. USE ScaleAssumption
<1>. DEFINE s == w \div Second
<1>1. s \in Nat /\ s * Second <= w /\ w < s * Second + Second
  BY Quotient
<1>2. Seconds(w) = s
  BY DEF Seconds
<1>. HIDE DEF s
<1>3. 60 * Second <= w /\ w <= 600 * Second
  BY DEF InBounds
<1>4. 60 <= s
  <2>1. SUFFICES ASSUME s + 1 <= 60 PROVE FALSE
    BY <1>1
  <2>2. (s + 1) * Second <= 60 * Second
    BY <1>1, <2>1
  <2>. QED
    BY <1>1, <1>3, <2>2
<1>5. 60 * Second <= s * Second /\ s * Second <= 600 * Second
  BY <1>1, <1>3, <1>4
<1>6. (s * Second) \div Second = s
  <2>1. s * Second \in Nat /\ s * Second < s * Second + Second
    BY <1>1
  <2>. QED
    BY <1>1, <2>1, QuotientUnique
<1>. QED
  BY <1>1, <1>2, <1>5, <1>6 DEF InBounds, FromSeconds, Seconds

-----------------------------------------------------------------------------
(* The conversions. *)

\* The checks of a row look only at what no update changes.
LEMMA ReadableIsFixed ==
    ASSUME NEW r, NEW s, Fixed(r) = Fixed(s), Readable(r)
    PROVE  Readable(s)
BY DEF Fixed, Readable, IDsOK, DevicesOK, DeviceOK

\* The fields of an entity, a row or an answer, with any integers for its times:
\* what the conversions do is independent of the bounds of the clock.
Wide ==
    [time : Int, userID : UUIDs, taskID : UUIDs, devices : Devices,
     taskType : TaskTypes \cup {"unspecified"}, throttled : BOOLEAN,
     width : Int, createdAt : Int, updatedAt : Int]

LEMMA FieldsAreWide == Fields \subseteq Wide
BY ClockAssumption DEF Fields, Wide, Ticks

LEMMA SameFields ==
    ASSUME NEW r \in Wide, NEW s \in Wide, Fixed(r) = Fixed(s),
           r.throttled = s.throttled, r.updatedAt = s.updatedAt
    PROVE  r = s
BY DEF Wide, Fixed

\* The conversions, field by field.
LEMMA FromEntityFields ==
    ASSUME NEW e \in Wide
    PROVE  /\ FromEntity(e) \in Wide
           /\ Fixed(FromEntity(e)) =
                <<Stored(e.time), e.userID, e.taskID, e.devices, e.taskType,
                  Seconds(e.width), Stored(e.createdAt)>>
           /\ FromEntity(e).throttled = e.throttled
           /\ FromEntity(e).updatedAt = Stored(e.updatedAt)
<1>1. Stored(e.time) \in Int /\ Stored(e.createdAt) \in Int /\ Stored(e.updatedAt) \in Int
      /\ Seconds(e.width) \in Int
  BY ScaleAssumption DEF Wide, Stored, Seconds
<1>. QED
  BY <1>1 DEF FromEntity, Wide, Fixed

LEMMA ToEntityFields ==
    ASSUME NEW r \in Wide
    PROVE  /\ ToEntity(r) \in Wide
           /\ Fixed(ToEntity(r)) =
                <<r.time * Micro, r.userID, r.taskID, r.devices, r.taskType,
                  FromSeconds(r.width), r.createdAt * Micro>>
           /\ ToEntity(r).throttled = r.throttled
           /\ ToEntity(r).updatedAt = r.updatedAt * Micro
<1>1. r.time * Micro \in Int /\ r.createdAt * Micro \in Int /\ r.updatedAt * Micro \in Int
      /\ FromSeconds(r.width) \in Int
  BY ScaleAssumption DEF Wide, FromSeconds
<1>. QED
  BY <1>1 DEF ToEntity, Wide, Fixed

LEMMA OutputFields ==
    ASSUME NEW e \in Wide
    PROVE  /\ Output(e) \in Wide
           /\ Fixed(Output(e)) =
                <<e.time, e.userID, e.taskID, e.devices, e.taskType, Seconds(e.width),
                  e.createdAt>>
<1>1. Seconds(e.width) \in Int
  BY ScaleAssumption DEF Wide, Seconds
<1>. QED
  BY <1>1 DEF Output, Wide, Fixed

LEMMA KeptFields ==
    ASSUME NEW a \in Wide
    PROVE  /\ Kept(a) \in Wide
           /\ Fixed(Kept(a)) =
                <<Stored(a.time), a.userID, a.taskID, a.devices, a.taskType, a.width,
                  Stored(a.createdAt)>>
           /\ Kept(a).throttled = FALSE
           /\ Kept(a).updatedAt = 0
<1>1. Stored(a.time) \in Int /\ Stored(a.createdAt) \in Int
  BY ScaleAssumption DEF Wide, Stored
<1>2. Kept(a) \in Wide
  <2>. DEFINE K(z, b) ==
                [a EXCEPT !.time = Stored(@), !.createdAt = Stored(@), !.updatedAt = z,
                          !.throttled = b]
  <2>1. ASSUME NEW b \in BOOLEAN, NEW z \in Int
        PROVE  K(z, b) \in Wide
    BY <1>1 DEF Wide
  <2>2. Kept(a) = K(0, FALSE)
    BY DEF Kept
  <2>. HIDE DEF K
  <2>3. FALSE \in BOOLEAN /\ 0 \in Int
    OBVIOUS
  <2>. QED
    BY <2>1, <2>2, <2>3
<1>3. Fixed(Kept(a)) =
        <<Stored(a.time), a.userID, a.taskID, a.devices, a.taskType, a.width,
          Stored(a.createdAt)>>
  BY DEF Kept, Wide, Fixed
<1>4. Kept(a).throttled = FALSE
  BY DEF Kept, Wide
<1>5. Kept(a).updatedAt = 0
  BY DEF Kept, Wide
<1>. QED
  BY <1>2, <1>3, <1>4, <1>5

\* What a later answer shows of a row, but for what updates change.
LEMMA ShownOfRow ==
    ASSUME NEW r \in Wide
    PROVE  /\ Kept(Output(ToEntity(r))) \in Wide
           /\ Fixed(Kept(Output(ToEntity(r)))) =
                <<Stored(r.time * Micro), r.userID, r.taskID, r.devices, r.taskType,
                  Seconds(FromSeconds(r.width)), Stored(r.createdAt * Micro)>>
           /\ Kept(Output(ToEntity(r))).throttled = FALSE
           /\ Kept(Output(ToEntity(r))).updatedAt = 0
<1>. DEFINE e == ToEntity(r)
            o == Output(e)
<1>1. /\ e \in Wide
      /\ Fixed(e) = <<r.time * Micro, r.userID, r.taskID, r.devices, r.taskType,
                       FromSeconds(r.width), r.createdAt * Micro>>
  BY ToEntityFields
<1>. HIDE DEF e
<1>2. /\ o \in Wide
      /\ Fixed(o) = <<e.time, e.userID, e.taskID, e.devices, e.taskType, Seconds(e.width),
                       e.createdAt>>
  BY <1>1, OutputFields
<1>. HIDE DEF o
<1>3. /\ Kept(o) \in Wide
      /\ Fixed(Kept(o)) = <<Stored(o.time), o.userID, o.taskID, o.devices, o.taskType, o.width,
                             Stored(o.createdAt)>>
      /\ Kept(o).throttled = FALSE /\ Kept(o).updatedAt = 0
  BY <1>2, KeptFields
<1>. QED
  BY <1>1, <1>2, <1>3 DEF Fixed, e, o

LEMMA ShownIsFixed ==
    ASSUME NEW r \in Wide, NEW s \in Wide, Fixed(r) = Fixed(s)
    PROVE  Kept(Output(ToEntity(r))) = Kept(Output(ToEntity(s)))
<1>1. /\ r.time = s.time /\ r.userID = s.userID /\ r.taskID = s.taskID
      /\ r.devices = s.devices /\ r.taskType = s.taskType /\ r.width = s.width
      /\ r.createdAt = s.createdAt
  BY DEF Fixed
<1>2. Fixed(Kept(Output(ToEntity(r)))) = Fixed(Kept(Output(ToEntity(s))))
  BY <1>1, ShownOfRow
<1>. QED
  BY <1>2, ShownOfRow, SameFields

\* The row of a new remind: readable, of its type, and showing what the answer
\* to the creation shows.
LEMMA NewRow ==
    ASSUME NEW b \in Bodies, NEW w \in Widths, clock \in Ticks, Accepted(b)
    PROVE  LET e == NewRemind(b, w)
               m == FromEntity(e)
           IN  /\ m \in Fields /\ Output(e) \in Fields
               /\ Readable(m)
               /\ m.time * Micro \in Ticks /\ m.createdAt * Micro \in Ticks
               /\ m.updatedAt = Stored(clock)
               /\ m.devices = b.devices
               /\ Kept(Output(ToEntity(m))) = Kept(Output(e))
<1>. DEFINE e == NewRemind(b, w)
            m == FromEntity(e)
<1>1. /\ b.time \in Ticks /\ b.userID \in UUIDs /\ b.taskID \in UUIDs /\ b.devices \in Devices
      /\ b.taskType \in TaskTypes
  BY BodiesAssumption DEF AllBodies, Accepted
<1>2. w \in Nat /\ InBounds(w)
  BY WidthsAssumption
<1>3. /\ e \in Wide
      /\ e.time = b.time /\ e.userID = b.userID /\ e.taskID = b.taskID
      /\ e.devices = b.devices /\ e.taskType = b.taskType /\ e.width = w
      /\ e.createdAt = clock /\ e.updatedAt = clock /\ e.throttled = FALSE
  BY <1>1, <1>2, ClockAssumption DEF NewRemind, Wide, Ticks
<1>. HIDE DEF e
<1>4. /\ m \in Wide
      /\ m.time = Stored(b.time) /\ m.userID = b.userID /\ m.taskID = b.taskID
      /\ m.devices = b.devices /\ m.taskType = b.taskType /\ m.width = Seconds(w)
      /\ m.createdAt = Stored(clock) /\ m.updatedAt = Stored(clock) /\ m.throttled = FALSE
  BY <1>3, FromEntityFields DEF Fixed
<1>5. /\ Output(e) \in Wide
      /\ Fixed(Output(e)) = <<b.time, b.userID, b.taskID, b.devices, b.taskType, Seconds(w), clock>>
  BY <1>3, OutputFields
<1>. HIDE DEF m
<1>6. /\ Stored(b.time) \in Ticks /\ Stored(b.time) * Micro \in Ticks
      /\ Stored(clock) \in Ticks /\ Stored(clock) * Micro \in Ticks
  BY <1>1, StoredTime
<1>7. Seconds(w) \in Nat /\ InBounds(FromSeconds(Seconds(w)))
      /\ Seconds(FromSeconds(Seconds(w))) = Seconds(w)
  BY <1>2, WidthReadBack
<1>8. m \in Fields
  BY <1>1, <1>4, <1>6, <1>7 DEF Fields, Wide
<1>9. Output(e) \in Fields
  BY <1>1, <1>3, <1>7 DEF Output, Fields, Wide
<1>10. Readable(m)
  BY <1>4, <1>7 DEF Readable, Accepted, IDsOK
<1>11. Kept(Output(ToEntity(m))) = Kept(Output(e))
  <2>1. Stored(Stored(b.time) * Micro) = Stored(b.time)
        /\ Stored(Stored(clock) * Micro) = Stored(clock)
    BY <1>6, StoredAgain, ClockAssumption DEF Ticks
  <2>. DEFINE x == Kept(Output(ToEntity(m)))
              y == Kept(Output(e))
  <2>2. /\ x \in Wide /\ x.throttled = FALSE /\ x.updatedAt = 0
        /\ Fixed(x) = <<Stored(b.time), b.userID, b.taskID, b.devices, b.taskType, Seconds(w),
                         Stored(clock)>>
    <3>1. /\ x \in Wide /\ x.throttled = FALSE /\ x.updatedAt = 0
          /\ Fixed(x) = <<Stored(m.time * Micro), m.userID, m.taskID, m.devices, m.taskType,
                           Seconds(FromSeconds(m.width)), Stored(m.createdAt * Micro)>>
      BY <1>4, ShownOfRow
    <3>. HIDE DEF x
    <3>. QED
      BY <1>4, <1>7, <2>1, <3>1
  <2>3. /\ y \in Wide /\ y.throttled = FALSE /\ y.updatedAt = 0
        /\ Fixed(y) = <<Stored(b.time), b.userID, b.taskID, b.devices, b.taskType, Seconds(w),
                         Stored(clock)>>
    <3>. DEFINE o == Output(e)
    <3>1. /\ o \in Wide
          /\ Fixed(o) = <<b.time, b.userID, b.taskID, b.devices, b.taskType, Seconds(w), clock>>
      BY <1>5
    <3>. HIDE DEF o
    <3>2. /\ Kept(o) \in Wide
          /\ Fixed(Kept(o)) = <<Stored(o.time), o.userID, o.taskID, o.devices, o.taskType,
                                 o.width, Stored(o.createdAt)>>
          /\ Kept(o).throttled = FALSE /\ Kept(o).updatedAt = 0
      BY <3>1, KeptFields
    <3>3. y = Kept(o)
      BY DEF o
    <3>. HIDE DEF y
    <3>. QED
      BY <3>1, <3>2, <3>3 DEF Fixed
  <2>. HIDE DEF x, y
  <2>4. x = y
    BY <2>2, <2>3, SameFields
  <2>. QED
    BY <2>4 DEF x, y
<1>12. /\ m.time * Micro \in Ticks /\ m.createdAt * Micro \in Ticks
       /\ m.updatedAt = Stored(clock) /\ m.devices = b.devices
  BY <1>4, <1>6
<1>. QED
  BY <1>8, <1>9, <1>10, <1>11, <1>12 DEF e, m

\* The entity of a row is of its type, throttled or not, and what is written of
\* it is what the row has.
LEMMA EntityOfRow ==
    ASSUME NEW r \in Fields, Readable(r), clock \in Ticks,
           r.time * Micro \in Ticks, r.createdAt * Micro \in Ticks, r.updatedAt <= Stored(clock),
           NEW e \in {ToEntity(r), MarkAsThrottled(ToEntity(r))}
    PROVE  e \in Fields /\ Fixed(FromEntity(e)) = Fixed(r)
<1>. USE ScaleAssumption, ClockAssumption
<1>1. /\ r.time \in Nat /\ r.createdAt \in Nat /\ r.updatedAt \in Nat /\ r.width \in Nat
      /\ r.throttled \in BOOLEAN
  BY DEF Fields, Ticks
<1>2. r.updatedAt * Micro \in Ticks
  <2>1. Stored(clock) \in Nat /\ Stored(clock) * Micro <= clock /\ clock \in Nat
        /\ Stored(clock) * Micro \in Nat /\ clock <= MaxClock
    BY StoredTime DEF Ticks
  <2>. DEFINE s == Stored(clock)
              d == r.updatedAt
  <2>2. s \in Nat /\ d \in Nat /\ d <= s
    BY <1>1, <2>1
  <2>. HIDE DEF s, d
  <2>3. d * Micro \in Nat /\ d * Micro <= s * Micro
    BY <2>2
  <2>. QED
    BY <2>1, <2>3 DEF s, d, Ticks
<1>3. FromSeconds(r.width) \in Nat
  BY <1>1 DEF FromSeconds
<1>4. ToEntity(r) \in Fields
  BY <1>1, <1>2, <1>3 DEF ToEntity, Fields
<1>5. e \in Fields
  BY <1>4 DEF MarkAsThrottled, Fields
<1>6. /\ e.time = r.time * Micro /\ e.createdAt = r.createdAt * Micro
      /\ e.userID = r.userID /\ e.taskID = r.taskID /\ e.devices = r.devices
      /\ e.taskType = r.taskType /\ e.width = FromSeconds(r.width)
  <2>1. CASE e = ToEntity(r)
    BY <2>1 DEF ToEntity, Fields
  <2>2. CASE e = MarkAsThrottled(ToEntity(r))
    BY <2>2 DEF MarkAsThrottled, ToEntity, Fields
  <2>. QED
    BY <2>1, <2>2
<1>7. Fixed(FromEntity(e)) =
        <<Stored(e.time), e.userID, e.taskID, e.devices, e.taskType, Seconds(e.width),
          Stored(e.createdAt)>>
  BY <1>5 DEF Fixed, FromEntity, Fields
<1>8. Stored(e.time) = r.time /\ Stored(e.createdAt) = r.createdAt
  BY <1>1, <1>6, StoredAgain
<1>9. Seconds(e.width) = r.width
  <2>1. r.width * Second \in Nat /\ r.width * Second < r.width * Second + Second
    BY <1>1
  <2>2. (r.width * Second) \div Second = r.width
    BY <1>1, <2>1, QuotientUnique
  <2>. QED
    BY <1>6, <2>2 DEF Seconds, FromSeconds
<1>. QED
  BY <1>5, <1>6, <1>7, <1>8, <1>9 DEF Fixed

\* What an update makes of a row: only throttled and updated_at may change.
LEMMA UpdatedRow ==
    ASSUME NEW r \in Fields, NEW e \in Fields, Fixed(FromEntity(e)) = Fixed(r),
           NEW now \in Ticks
    PROVE  LET n == Updates(r, FromEntity(e), now)
           IN  n \in Fields /\ Fixed(n) = Fixed(r) /\ n.updatedAt = Stored(now)
<1>. DEFINE m == FromEntity(e)
            n == Updates(r, m, now)
<1>1. m \in Wide /\ Fixed(m) = Fixed(r)
  BY FieldsAreWide, FromEntityFields
<1>2. Stored(now) \in Ticks
  BY StoredTime
<1>. HIDE DEF m
<1>3. n \in Wide /\ Fixed(n) = Fixed(m) /\ n.updatedAt = Stored(now)
  <2>1. Stored(now) \in Int /\ (m.throttled \/ r.throttled) \in BOOLEAN
    BY <1>2, ClockAssumption DEF Ticks
  <2>. QED
    BY <1>1, <2>1 DEF Updates, Wide, Fixed
<1>. HIDE DEF n
<1>4. n \in Fields
  BY <1>1, <1>2, <1>3 DEF Fields, Wide, Fixed
<1>. QED
  BY <1>1, <1>3, <1>4 DEF n, m

-----------------------------------------------------------------------------
(* The invariant holds at first and is kept. *)

LEMMA InitInv == Init => Inv
<1>. SUFFICES ASSUME Init PROVE Inv
  OBVIOUS
<1>1. TypeOK
  BY DEF Init, TypeOK
<1>2. CreatedInv /\ RowInv /\ CopyInv /\ StampInv /\ ReplyInv /\ RetrySucceeds
  BY DEF Init, CreatedInv, RowInv, CopyInv, StampInv, ReplyInv, RetrySucceeds
<1>. QED
  BY <1>1, <1>2 DEF Inv

\* What an answer without a new row disturbs is asked and reply only.
LEMMA AnsweredOnly ==
    ASSUME Inv, UNCHANGED <<clock, row, updateVars, created, shown>>,
           asked' \in Bodies \cup {Null}, reply' \in {200, 201, 400, 404, 500},
           ReplyInv', RetrySucceeds'
    PROVE  Inv'
BY DEF Inv, TypeOK, CreatedInv, RowInv, CopyInv, StampInv, updateVars

\* A creation that is refused is not one that succeeded before: it would be
\* accepted, and the time no longer matters once there is a row.
LEMMA CreateRefusedInv ==
    ASSUME Inv, NEW b \in Bodies, CreateRefused(b), UNCHANGED <<clock, updateVars>>
    PROVE  Inv'
<1>1. asked' = b /\ reply' = 400 /\ UNCHANGED <<row, created, shown>>
  BY DEF CreateRefused, Answer, Unstored
<1>2. ReplyInv'
  BY <1>1 DEF ReplyInv
<1>3. created # Null => b # created
  BY DEF CreateRefused, Inv, CreatedInv
<1>4. RetrySucceeds'
  BY <1>1, <1>3 DEF RetrySucceeds
<1>. QED
  BY <1>1, <1>2, <1>4, AnsweredOnly

LEMMA CreateRepeatedInv ==
    ASSUME Inv, NEW b \in Bodies, CreateRepeated(b), UNCHANGED <<clock, updateVars>>
    PROVE  Inv'
<1>1. Readable(row)
  BY DEF Inv, RowInv, CreateRepeated
<1>2. asked' = b /\ reply' = 201 /\ UNCHANGED <<row, created, shown>>
  BY <1>1 DEF CreateRepeated, Answer, Unstored
<1>3. ReplyInv' /\ RetrySucceeds'
  BY <1>2 DEF ReplyInv, RetrySucceeds
<1>. QED
  BY <1>2, <1>3, AnsweredOnly

\* A new remind: a row as NewRow has it, or an answer 500 without one.
LEMMA CreateNewInv ==
    ASSUME Inv, NEW b \in Bodies, CreateNew(b), UNCHANGED <<clock, updateVars>>
    PROVE  Inv'
<1>1. Accepted(b) /\ row = Null /\ created = Null /\ clock \in Ticks
  BY DEF CreateNew, Inv, CreatedInv, TypeOK
<1>2. PICK w \in Widths :
        LET m == FromEntity(NewRemind(b, w))
        IN  IF RefusedByColumn(m)
            THEN Answer(b, 500) /\ Unstored
            ELSE Answer(b, 201) /\ row' = m /\ created' = b /\ shown' = Output(NewRemind(b, w))
  BY DEF CreateNew
<1>. DEFINE e == NewRemind(b, w)
            m == FromEntity(e)
<1>3. /\ m \in Fields /\ Output(e) \in Fields /\ Readable(m)
      /\ m.time * Micro \in Ticks /\ m.createdAt * Micro \in Ticks
      /\ m.updatedAt = Stored(clock) /\ m.devices = b.devices
      /\ Kept(Output(ToEntity(m))) = Kept(Output(e))
  BY <1>1, NewRow
<1>4. IF RefusedByColumn(m)
      THEN Answer(b, 500) /\ Unstored
      ELSE Answer(b, 201) /\ row' = m /\ created' = b /\ shown' = Output(e)
  BY <1>2
<1>. HIDE DEF e, m
<1>5. CASE RefusedByColumn(m)
  <2>1. asked' = b /\ reply' = 500 /\ UNCHANGED <<row, created, shown>>
    BY <1>4, <1>5 DEF Answer, Unstored
  <2>2. b # Null /\ RefusedByColumn(b)
    BY <1>3, <1>5, NullAssumption DEF RefusedByColumn
  <2>3. ReplyInv' /\ RetrySucceeds'
    BY <1>1, <2>1, <2>2 DEF ReplyInv, RetrySucceeds
  <2>. QED
    BY <2>1, <2>3, AnsweredOnly
<1>6. CASE ~RefusedByColumn(m)
  <2>1. /\ asked' = b /\ reply' = 201 /\ row' = m /\ created' = b /\ shown' = Output(e)
        /\ clock' = clock /\ copy' = copy /\ stamp' = stamp /\ readAt' = readAt
    BY <1>4, <1>6 DEF Answer, updateVars
  <2>2. TypeOK'
    BY <1>3, <2>1 DEF Inv, TypeOK
  <2>3. row' # Null /\ created' # Null /\ shown' # Null
    BY <1>3, <2>1, NullAssumption
  <2>4. CreatedInv'
    BY <1>1, <2>1, <2>3 DEF CreatedInv
  <2>5. Stored(clock) \in Nat
    BY <1>1, StoredTime DEF Ticks
  <2>6. RowInv'
    BY <1>3, <2>1, <2>5 DEF RowInv
  <2>7. CopyInv' /\ StampInv'
    BY <1>1, <2>1 DEF Inv, CreatedInv, CopyInv, StampInv
  <2>8. ReplyInv' /\ RetrySucceeds'
    BY <2>1 DEF ReplyInv, RetrySucceeds
  <2>. QED
    BY <2>2, <2>4, <2>6, <2>7, <2>8 DEF Inv
<1>. QED
  BY <1>5, <1>6

LEMMA ReadInv == Inv /\ Read => Inv'
<1>. SUFFICES ASSUME Inv, Read PROVE Inv'
  OBVIOUS
<1>1. asked' = Null /\ reply' = 200
  BY DEF Inv, RowInv, Read, Answer
<1>2. ReplyInv' /\ RetrySucceeds'
  BY <1>1 DEF ReplyInv, RetrySucceeds, Read
<1>. QED
  BY <1>1, <1>2, AnsweredOnly DEF Read

\* The first statement of a throttling: the copy is the row's entity.
LEMMA FindByIDInv ==
    ASSUME Inv, NEW u \in Updaters, FindByID(u)
    PROVE  Inv'
<1>1. CASE row # Null /\ Readable(row)
  <2>1. /\ UNCHANGED <<clock, row, stamp, asked, reply, created, shown>>
        /\ copy[u] = Null /\ readAt' = [readAt EXCEPT ![u] = clock]
        /\ \E e \in {ToEntity(row), MarkAsThrottled(ToEntity(row))} :
              copy' = [copy EXCEPT ![u] = e]
    BY <1>1 DEF FindByID
  <2>2. PICK e \in {ToEntity(row), MarkAsThrottled(ToEntity(row))} :
          copy' = [copy EXCEPT ![u] = e]
    BY <2>1
  <2>3. row \in Fields /\ clock \in Ticks /\ copy \in [Updaters -> Fields \cup {Null}]
    BY <1>1 DEF Inv, TypeOK
  <2>4. /\ row.time * Micro \in Ticks /\ row.createdAt * Micro \in Ticks
        /\ row.updatedAt <= Stored(clock)
    BY <1>1 DEF Inv, RowInv
  <2>5. e \in Fields /\ Fixed(FromEntity(e)) = Fixed(row)
    BY <1>1, <2>3, <2>4, EntityOfRow
  <2>6. /\ copy' \in [Updaters -> Fields \cup {Null}]
        /\ copy'[u] = e /\ \A v \in Updaters \ {u} : copy'[v] = copy[v]
    BY <2>2, <2>3, <2>5
  <2>7. /\ readAt' \in [Updaters -> Ticks \cup {Null}]
        /\ readAt'[u] = clock /\ \A v \in Updaters \ {u} : readAt'[v] = readAt[v]
    BY <2>1, <2>3 DEF Inv, TypeOK
  <2>8. TypeOK'
    BY <2>1, <2>6, <2>7 DEF Inv, TypeOK
  <2>9. CopyInv'
    <3>. SUFFICES ASSUME NEW v \in Updaters, copy'[v] # Null
                  PROVE  row' # Null /\ Fixed(FromEntity(copy'[v])) = Fixed(row')
      BY DEF CopyInv
    <3>1. CASE v = u
      BY <1>1, <2>1, <2>5, <2>6, <3>1
    <3>2. CASE v # u
      BY <1>1, <2>1, <2>6, <3>2 DEF Inv, CopyInv
    <3>. QED
      BY <3>1, <3>2
  <2>10. StampInv'
    <3>. SUFFICES ASSUME NEW v \in Updaters
                  PROVE  /\ copy'[v] = Null => stamp'[v] = Null
                         /\ copy'[v] # Null => readAt'[v] \in Ticks /\ readAt'[v] <= clock'
                         /\ stamp'[v] # Null => readAt'[v] <= stamp'[v] /\ stamp'[v] <= clock'
      BY DEF StampInv
    <3>1. CASE v = u
      <4>1. stamp'[u] = Null /\ clock <= clock
        BY <2>1, <2>3, ClockAssumption DEF Inv, StampInv, Ticks
      <4>. QED
        BY <2>1, <2>3, <2>7, <3>1, <4>1
    <3>2. CASE v # u
      BY <2>1, <2>6, <2>7, <3>2 DEF Inv, StampInv
    <3>. QED
      BY <3>1, <3>2
  <2>11. CreatedInv' /\ RowInv' /\ ReplyInv' /\ RetrySucceeds'
    BY <1>1, <2>1 DEF Inv, CreatedInv, RowInv, ReplyInv, RetrySucceeds
  <2>. QED
    BY <2>8, <2>9, <2>10, <2>11 DEF Inv
<1>2. CASE ~(row # Null /\ Readable(row))
  <2>1. asked' = Null /\ reply' = 404 /\ UNCHANGED <<clock, row, updateVars, created, shown>>
    BY <1>2 DEF FindByID, Answer, updateVars
  <2>2. ReplyInv' /\ RetrySucceeds'
    BY <2>1 DEF ReplyInv, RetrySucceeds
  <2>. QED
    BY <2>1, <2>2, AnsweredOnly
<1>. QED
  BY <1>1, <1>2

\* gorm takes the time it writes after the read of the same call.
LEMMA StampStepInv ==
    ASSUME Inv, NEW u \in Updaters, Stamp(u)
    PROVE  Inv'
<1>1. /\ copy[u] # Null /\ stamp[u] = Null /\ stamp' = [stamp EXCEPT ![u] = clock]
      /\ UNCHANGED <<clock, row, copy, asked, reply, created, shown, readAt>>
  BY DEF Stamp
<1>2. clock \in Ticks
  BY DEF Inv, TypeOK
<1>3. /\ stamp' \in [Updaters -> Ticks \cup {Null}]
      /\ stamp'[u] = clock /\ \A v \in Updaters \ {u} : stamp'[v] = stamp[v]
  BY <1>1, <1>2 DEF Inv, TypeOK
<1>4. TypeOK'
  BY <1>1, <1>3 DEF Inv, TypeOK
<1>5. clock <= clock
  BY <1>2, ClockAssumption DEF Ticks
<1>6. StampInv'
  BY <1>1, <1>3, <1>5 DEF Inv, StampInv
<1>7. CreatedInv' /\ RowInv' /\ CopyInv' /\ ReplyInv' /\ RetrySucceeds'
  BY <1>1 DEF Inv, CreatedInv, RowInv, CopyInv, ReplyInv, RetrySucceeds
<1>. QED
  BY <1>4, <1>6, <1>7 DEF Inv

\* What the second statement of a throttling does to the row.
LEMMA UpdateWrites ==
    ASSUME Inv, NEW u \in Updaters, Update(u)
    PROVE  /\ row \in Fields /\ row' \in Fields
           /\ Fixed(row') = Fixed(row)
           /\ row'.updatedAt = Stored(stamp[u])
           /\ stamp[u] \in Ticks /\ readAt[u] \in Ticks /\ clock \in Ticks
           /\ readAt[u] <= stamp[u] /\ stamp[u] <= clock
<1>1. /\ stamp[u] \in Ticks /\ readAt[u] \in Ticks /\ clock \in Ticks
      /\ copy[u] # Null /\ readAt[u] <= stamp[u] /\ stamp[u] <= clock
  BY DEF Inv, TypeOK, StampInv, Update
<1>2. copy[u] \in Fields /\ row \in Fields /\ Fixed(FromEntity(copy[u])) = Fixed(row)
  BY <1>1 DEF Inv, TypeOK, CopyInv
<1>3. row' = Updates(row, FromEntity(copy[u]), stamp[u])
  BY DEF Update
<1>. QED
  BY <1>1, <1>2, <1>3, UpdatedRow

\* The second statement of a throttling, however old its copy and its time are.
LEMMA UpdateInv ==
    ASSUME Inv, NEW u \in Updaters, Update(u)
    PROVE  Inv'
<1>1. /\ row \in Fields /\ row' \in Fields
      /\ Fixed(row') = Fixed(row) /\ row'.updatedAt = Stored(stamp[u])
      /\ stamp[u] \in Ticks /\ clock \in Ticks /\ stamp[u] <= clock
  BY UpdateWrites
<1>2. /\ asked' = Null /\ reply' = 200 /\ UNCHANGED <<clock, created, shown>>
      /\ copy' = [copy EXCEPT ![u] = Null]
      /\ stamp' = [stamp EXCEPT ![u] = Null]
      /\ readAt' = [readAt EXCEPT ![u] = Null]
  BY DEF Update, Answer
<1>3. row # Null /\ row' # Null
  BY <1>1, NullAssumption
<1>4. /\ copy' \in [Updaters -> Fields \cup {Null}]
      /\ stamp' \in [Updaters -> Ticks \cup {Null}]
      /\ readAt' \in [Updaters -> Ticks \cup {Null}]
      /\ copy'[u] = Null /\ stamp'[u] = Null
      /\ \A v \in Updaters \ {u} :
            copy'[v] = copy[v] /\ stamp'[v] = stamp[v] /\ readAt'[v] = readAt[v]
  BY <1>2 DEF Inv, TypeOK
<1>5. TypeOK'
  BY <1>1, <1>2, <1>4 DEF Inv, TypeOK
<1>6. CreatedInv'
  BY <1>2, <1>3 DEF Inv, CreatedInv
<1>7. CopyInv'
  BY <1>1, <1>3, <1>4 DEF Inv, CopyInv
<1>8. StampInv'
  BY <1>2, <1>4 DEF Inv, StampInv
<1>9. RowInv'
  <2>1. Readable(row')
    BY <1>1, <1>3, ReadableIsFixed DEF Inv, RowInv
  <2>2. row'.time = row.time /\ row'.createdAt = row.createdAt
    BY <1>1 DEF Fixed
  <2>3. row'.time * Micro \in Ticks /\ row'.createdAt * Micro \in Ticks
    BY <1>3, <2>2 DEF Inv, RowInv
  <2>4. row'.updatedAt <= Stored(clock')
    BY <1>1, <1>2, StoredInOrder, ClockAssumption DEF Ticks
  <2>5. Kept(Output(ToEntity(row'))) = Kept(Output(ToEntity(row)))
    BY <1>1, ShownIsFixed, FieldsAreWide
  <2>. QED
    BY <1>2, <1>3, <2>1, <2>3, <2>4, <2>5 DEF Inv, RowInv
<1>10. ReplyInv' /\ RetrySucceeds'
  BY <1>2 DEF Inv, ReplyInv, RetrySucceeds
<1>. QED
  BY <1>5, <1>6, <1>7, <1>8, <1>9, <1>10 DEF Inv

\* The clock goes on, and what it was is still below it.
LEMMA TickInv == Inv /\ Tick => Inv'
<1>. SUFFICES ASSUME Inv, Tick PROVE Inv'
  OBVIOUS
<1>1. clock \in Ticks /\ clock' \in Ticks /\ clock <= clock'
      /\ UNCHANGED <<row, copy, stamp, readAt, asked, reply, created, shown>>
  BY ClockAssumption DEF Inv, TypeOK, Ticks, Tick, updateVars
<1>2. Stored(clock) \in Nat /\ Stored(clock') \in Nat /\ Stored(clock) <= Stored(clock')
  BY <1>1, StoredInOrder DEF Ticks
<1>3. row # Null => row.updatedAt \in Int
  BY ClockAssumption DEF Inv, TypeOK, Fields, Ticks
<1>4. RowInv'
  BY <1>1, <1>2, <1>3 DEF Inv, RowInv
<1>5. StampInv'
  <2>. SUFFICES ASSUME NEW u \in Updaters
                PROVE  /\ copy[u] = Null => stamp[u] = Null
                       /\ copy[u] # Null => readAt[u] \in Ticks /\ readAt[u] <= clock'
                       /\ stamp[u] # Null => readAt[u] <= stamp[u] /\ stamp[u] <= clock'
    BY <1>1 DEF StampInv
  <2>1. stamp[u] \in Ticks \cup {Null}
    BY DEF Inv, TypeOK
  <2>. QED
    BY <1>1, <2>1 DEF Inv, StampInv, Ticks
<1>6. TypeOK'
  BY <1>1 DEF Inv, TypeOK
<1>7. CreatedInv' /\ CopyInv' /\ ReplyInv' /\ RetrySucceeds'
  BY <1>1 DEF Inv, CreatedInv, CopyInv, ReplyInv, RetrySucceeds
<1>. QED
  BY <1>4, <1>5, <1>6, <1>7 DEF Inv

LEMMA StutterInv == Inv /\ UNCHANGED vars => Inv'
BY DEF Inv, vars, TypeOK, CreatedInv, RowInv, CopyInv, StampInv, ReplyInv, RetrySucceeds

LEMMA StepInv == Inv /\ [Next]_vars => Inv'
<1>. SUFFICES ASSUME Inv, [Next]_vars PROVE Inv'
  OBVIOUS
<1>1. ASSUME NEW b \in Bodies, Create(b) PROVE Inv'
  BY <1>1, CreateRefusedInv, CreateRepeatedInv, CreateNewInv DEF Create
<1>. QED
  BY <1>1, ReadInv, FindByIDInv, StampStepInv, UpdateInv, TickInv, StutterInv DEF Next

\* Every step of the creation, the updates and the clock keeps what Inv says of
\* the row, of the copies and of the answers.
THEOREM Invariance == Spec => []Inv
BY InitInv, StepInv, PTL DEF Spec

-----------------------------------------------------------------------------
(* The properties. *)

\* Every variable keeps its type: no conversion makes a value out of range.
THEOREM TypeCorrect == Spec => []TypeOK
<1>1. Inv => TypeOK
  BY DEF Inv
<1>. QED
  BY <1>1, Invariance, PTL

\* No creation and no mix of updates writes a row that cannot be read back.
THEOREM RowsStayReadable == Spec => []RowsAreReadable
<1>1. Inv => RowsAreReadable
  BY DEF Inv, RowInv, RowsAreReadable
<1>. QED
  BY <1>1, Invariance, PTL

\* What is read back shows the remind as the answer to its creation did.
THEOREM LaterAnswersAgree == Spec => []AnswersAgree
<1>1. Inv => AnswersAgree
  BY DEF Inv, RowInv, AnswersAgree
<1>. QED
  BY <1>1, Invariance, PTL

\* A creation that succeeded can be repeated at any time.
THEOREM RetriesSucceed == Spec => []RetrySucceeds
<1>1. Inv => RetrySucceeds
  BY DEF Inv
<1>. QED
  BY <1>1, Invariance, PTL

\* A step that writes a row that was there is an update.
LEMMA RowWrites ==
    ASSUME Inv, [Next]_vars, row # Null, row' # row
    PROVE  reply' = 200 /\ \E u \in Updaters : Update(u)
BY DEF Next, vars, Create, CreateRefused, CreateRepeated, CreateNew, Unstored, Read, FindByID,
       Stamp, Update, Answer, Tick

\* updated_at is a moment between the read and the write of the update that wrote
\* it, whatever time its copy brought along and whoever wrote in between.
THEOREM UpdatedAtIsOfItsUpdate == Spec => UpdatedAtOfItsUpdate
<1>1. ASSUME Inv, NEW u \in Updaters, Update(u)
      PROVE  Stored(readAt[u]) <= row'.updatedAt /\ row'.updatedAt <= Stored(clock)
  <2>1. /\ row'.updatedAt = Stored(stamp[u])
        /\ stamp[u] \in Nat /\ readAt[u] \in Nat /\ clock \in Nat
        /\ readAt[u] <= stamp[u] /\ stamp[u] <= clock
    BY <1>1, UpdateWrites, ClockAssumption DEF Ticks
  <2>2. Stored(readAt[u]) <= Stored(stamp[u]) /\ Stored(stamp[u]) <= Stored(clock)
    BY <2>1, StoredInOrder
  <2>. QED
    BY <2>1, <2>2
<1>2. Inv => [\A u \in Updaters :
        Update(u) => Stored(readAt[u]) <= row'.updatedAt /\ row'.updatedAt <= Stored(clock)]_vars
  BY <1>1
<1>. QED
  BY <1>2, Invariance, PTL DEF UpdatedAtOfItsUpdate

\* 500 is answered to a body the column refuses only, and stores nothing.
THEOREM InternalErrorsStoreNothing == Spec => InternalErrorStoresNothing
<1>1. ASSUME Inv, Inv', [Next]_vars, reply' = 500
      PROVE  asked' # Null /\ RefusedByColumn(asked') /\ row' = row
  <2>1. asked' # Null /\ RefusedByColumn(asked')
    BY <1>1 DEF Inv, ReplyInv
  <2>2. row' = row
    <3>1. CASE row # Null
      BY <1>1, <3>1, RowWrites
    <3>2. CASE row = Null
      <4>1. \A u \in Updaters : ~Update(u)
        BY <1>1, <3>2 DEF Inv, CreatedInv, StampInv, Update
      <4>. QED
        BY <1>1, <3>2, <4>1
           DEF Next, vars, Create, CreateRefused, CreateRepeated, CreateNew, Unstored, Read,
               FindByID, Stamp, Answer, Tick
    <3>. QED
      BY <3>1, <3>2
  <2>. QED
    BY <2>1, <2>2
<1>2. Inv /\ Inv' /\ [Next]_vars
        => [reply' = 500 => asked' # Null /\ RefusedByColumn(asked') /\ row' = row]_vars
  BY <1>1
<1>. QED
  BY <1>2, Invariance, PTL DEF Spec, InternalErrorStoresNothing

=============================================================================
