-------------------------- MODULE ConnectionProofs --------------------------
(***************************************************************************)
(* The safety invariants of Connection for any transport limit and any     *)
(* number of requests, lost saves and interleavings of the four tasks.     *)
(***************************************************************************)
EXTENDS Connection, SequenceTheorems, FiniteSetTheorems, TLAPS

Kinds == {"equip", "login", "bag", "info", "teleport", "time", "aoi", "items"}

TypeOK ==
    /\ up \in BOOLEAN /\ closed \in BOOLEAN /\ alive \in BOOLEAN /\ in_world \in BOOLEAN
    /\ inbox \in Seq(Requests) /\ wire \in Seq(Kinds) /\ seen \in SUBSET Kinds
    /\ conn \in {"read", "drain", "done"}
    /\ time_task \in {"none", "push", "sleep", "drain", "done"}
    /\ combat_task \in {"none", "sleep", "done"}
    /\ spawn_task \in {"none", "sleep", "population", "inventory", "done"}
    /\ sent \in Nat /\ faults \in Nat

\* The client has a frame of kind g, or will have read one when it has read w.
Has(w, s, g) == g \in s \/ \E i \in DOMAIN w : w[i] = g

\* It reads no frame of kind f before one of kind g.
Ahead(w, s, f, g) == \A j \in DOMAIN w : w[j] = f =>
    g \in s \/ \E i \in 1..(j - 1) : w[i] = g

\* The next frame to be read.
LEMMA ReadNext ==
    ASSUME NEW w \in Seq(Kinds), w # <<>>, NEW s, NEW f, NEW g, f # g,
           Ahead(w, s, f, g), f \in s => g \in s
    PROVE  /\ Ahead(Tail(w), s \cup {Head(w)}, f, g)
           /\ f \in s \cup {Head(w)} => g \in s \cup {Head(w)}
           /\ \A k : Has(w, s, k) => Has(Tail(w), s \cup {Head(w)}, k)
<1>1. /\ Len(w) \in Nat \ {0} /\ Head(w) = w[1] /\ Tail(w) \in Seq(Kinds)
      /\ DOMAIN w = 1..Len(w) /\ DOMAIN Tail(w) = 1..(Len(w) - 1)
      /\ \A i \in 1..(Len(w) - 1) : Tail(w)[i] = w[i + 1]
    BY HeadTailProperties, LenProperties, EmptySeq
<1>2. Ahead(Tail(w), s \cup {Head(w)}, f, g)
    <2> SUFFICES ASSUME NEW j \in 1..(Len(w) - 1), Tail(w)[j] = f, g \notin s \cup {Head(w)}
                 PROVE  \E i \in 1..(j - 1) : Tail(w)[i] = g
        BY <1>1 DEF Ahead
    <2>1. j + 1 \in DOMAIN w /\ w[j + 1] = f
        BY <1>1
    <2>2. PICK i \in 1..((j + 1) - 1) : w[i] = g
        BY <2>1 DEF Ahead
    <2>3. i # 1 /\ i - 1 \in 1..(j - 1) /\ i - 1 \in 1..(Len(w) - 1) /\ (i - 1) + 1 = i
        BY <1>1, <2>2
    <2>4. Tail(w)[i - 1] = w[(i - 1) + 1]
        BY <1>1, <2>3
    <2> QED BY <2>2, <2>3, <2>4
<1>3. f \in s \cup {Head(w)} => g \in s \cup {Head(w)}
    <2>1. w[1] = f => g \in s
        BY <1>1 DEF Ahead
    <2> QED BY <1>1, <2>1
<1>4. ASSUME NEW k, Has(w, s, k) PROVE Has(Tail(w), s \cup {Head(w)}, k)
    <2>1. ASSUME NEW i \in DOMAIN w, w[i] = k, i # 1
          PROVE  i - 1 \in DOMAIN Tail(w) /\ Tail(w)[i - 1] = k
        <3>1. i - 1 \in 1..(Len(w) - 1) /\ (i - 1) + 1 = i
            BY <1>1, <2>1
        <3>2. Tail(w)[i - 1] = w[(i - 1) + 1]
            BY <1>1, <3>1
        <3> QED BY <1>1, <2>1, <3>1, <3>2
    <2> QED BY <1>1, <1>4, <2>1 DEF Has
<1> QED BY <1>2, <1>3, <1>4

\* Frames written at the end.
LEMMA Written ==
    ASSUME NEW w \in Seq(Kinds), NEW fs \in Seq(Kinds), NEW s
    PROVE  /\ w \o fs \in Seq(Kinds)
           /\ \A k : Has(w, s, k) \/ (\E i \in DOMAIN fs : fs[i] = k) => Has(w \o fs, s, k)
           /\ \A f, g : Ahead(w, s, f, g)
                  /\ (\A j \in DOMAIN fs : fs[j] = f =>
                          Has(w, s, g) \/ \E i \in 1..(j - 1) : fs[i] = g)
                  => Ahead(w \o fs, s, f, g)
<1> DEFINE v == w \o fs
           n == Len(w)
           m == Len(fs)
<1>1. /\ v \in Seq(Kinds) /\ n \in Nat /\ m \in Nat
      /\ DOMAIN v = 1..(n + m) /\ DOMAIN w = 1..n /\ DOMAIN fs = 1..m
      /\ \A i \in 1..n : v[i] = w[i]
      /\ \A i \in 1..m : v[n + i] = fs[i]
    <2>1. v \in Seq(Kinds) /\ Len(v) = n + m
        BY ConcatProperties
    <2>2. n \in Nat /\ m \in Nat /\ DOMAIN w = 1..n /\ DOMAIN fs = 1..m /\ DOMAIN v = 1..Len(v)
        BY <2>1, LenProperties
    <2>3. \A i \in 1..(n + m) : v[i] = IF i <= n THEN w[i] ELSE fs[i - n]
        BY ConcatProperties
    <2>4. ASSUME NEW i \in 1..m PROVE v[n + i] = fs[i]
        <3>1. n + i \in 1..(n + m) /\ ~(n + i <= n) /\ (n + i) - n = i
            BY <2>2
        <3> QED BY <2>3, <3>1
    <2>5. ASSUME NEW i \in 1..n PROVE v[i] = w[i]
        BY <2>2, <2>3
    <2> QED BY <2>1, <2>2, <2>4, <2>5
<1> HIDE DEF v, n, m
<1>2. ASSUME NEW k, Has(w, s, k) \/ (\E i \in DOMAIN fs : fs[i] = k) PROVE Has(v, s, k)
    <2>1. CASE Has(w, s, k)
        <3>1. \A i \in 1..n : i \in 1..(n + m)
            BY <1>1
        <3> QED BY <1>1, <2>1, <3>1 DEF Has
    <2>2. ASSUME NEW i \in DOMAIN fs, fs[i] = k PROVE Has(v, s, k)
        <3>1. n + i \in 1..(n + m)
            BY <1>1
        <3> QED BY <1>1, <2>2, <3>1 DEF Has
    <2> QED BY <1>2, <2>1, <2>2
<1>3. ASSUME NEW f, NEW g, Ahead(w, s, f, g),
             \A j \in DOMAIN fs : fs[j] = f => Has(w, s, g) \/ \E i \in 1..(j - 1) : fs[i] = g
      PROVE  Ahead(v, s, f, g)
    <2> SUFFICES ASSUME NEW j \in 1..(n + m), v[j] = f, g \notin s
                 PROVE  \E i \in 1..(j - 1) : v[i] = g
        BY <1>1 DEF Ahead
    <2>1. CASE j <= n
        <3>1. j \in 1..n
            BY <2>1, <1>1
        <3>2. w[j] = f
            BY <3>1, <1>1
        <3>3. PICK i \in 1..(j - 1) : w[i] = g
            BY <1>1, <1>3, <3>1, <3>2 DEF Ahead
        <3>4. i \in 1..n
            BY <1>1, <3>1
        <3> QED BY <1>1, <3>3, <3>4
    <2>2. CASE j > n
        <3>1. j - n \in 1..m /\ n + (j - n) = j
            BY <1>1, <2>2
        <3>2. v[n + (j - n)] = fs[j - n]
            BY <1>1, <3>1
        <3>3. fs[j - n] = f
            BY <3>1, <3>2
        <3>4. Has(w, s, g) \/ \E i \in 1..((j - n) - 1) : fs[i] = g
            BY <1>1, <1>3, <3>1, <3>3
        <3>5. CASE Has(w, s, g)
            <4>1. PICK i \in 1..n : w[i] = g
                BY <1>1, <3>5 DEF Has
            <4>2. i \in 1..(j - 1)
                BY <1>1, <2>2
            <4> QED BY <1>1, <4>1, <4>2
        <3>6. ASSUME NEW i \in 1..((j - n) - 1), fs[i] = g PROVE \E l \in 1..(j - 1) : v[l] = g
            <4>1. n + i \in 1..(j - 1) /\ i \in 1..m
                BY <1>1
            <4> QED BY <1>1, <3>6, <4>1
        <3> QED BY <3>4, <3>5, <3>6
    <2> QED BY <2>1, <2>2, <1>1
<1> QED BY <1>1, <1>2, <1>3 DEF v
-----------------------------------------------------------------------------
\* The order of what the client reads.
Ordered ==
    /\ Ahead(wire, seen, "info", "equip") /\ Ahead(wire, seen, "items", "bag")
    /\ SeededFirst

\* Only a login starts what pushes items, and it has sent the bag.
Seeded ==
    /\ spawn_task # "none" => in_world
    /\ \A i \in DOMAIN inbox : inbox[i] = "teleport" => in_world
    /\ in_world /\ up /\ ~closed => Has(wire, seen, "bag")

SInv == TypeOK /\ Ordered /\ Seeded /\ (closed => conn = "done")

LEMMA SInvInit == Init => SInv
<1> SUFFICES ASSUME Init PROVE SInv
    OBVIOUS
<1>1. <<>> \in Seq(Kinds) /\ <<>> \in Seq(Requests) /\ DOMAIN <<>> = {}
    BY EmptySeq
<1>2. TypeOK
    BY <1>1 DEF Init, TypeOK
<1>3. Ordered
    BY <1>1 DEF Init, Ordered, Ahead, SeededFirst
<1>4. Seeded
    BY <1>1 DEF Init, Seeded
<1> QED BY <1>2, <1>3, <1>4 DEF Init, SInv

\* What is written, and that it does not come too early.
Safe(fs) ==
    /\ fs \in Seq(Kinds)
    /\ \A j \in DOMAIN fs : fs[j] = "info" => \E i \in 1..(j - 1) : fs[i] = "equip"
    /\ \A j \in DOMAIN fs : fs[j] = "items" => Has(wire, seen, "bag")

LEMMA WriteSafe ==
    ASSUME SInv, NEW fs, Safe(fs), Write(fs), UNCHANGED <<up, closed, seen>>
    PROVE  /\ wire' \in Seq(Kinds) /\ Ordered'
           /\ up /\ ~closed => \A k : Has(wire, seen, k) \/ (\E i \in DOMAIN fs : fs[i] = k)
                                          => Has(wire', seen', k)
<1>1. wire \in Seq(Kinds) /\ Ordered
    BY DEF SInv, TypeOK
<1>2. CASE closed \/ ~up
    <2>1. wire' = wire
        BY <1>2 DEF Write
    <2> QED BY <1>1, <1>2, <2>1 DEF Ordered, SeededFirst
<1>3. CASE ~(closed \/ ~up)
    <2>1. wire' = wire \o fs
        BY <1>3 DEF Write
    <2>2. Ahead(wire, seen, "info", "equip") /\ Ahead(wire, seen, "items", "bag")
        BY <1>1 DEF Ordered
    <2>3. /\ wire \o fs \in Seq(Kinds)
          /\ \A k : Has(wire, seen, k) \/ (\E i \in DOMAIN fs : fs[i] = k)
                        => Has(wire \o fs, seen, k)
          /\ Ahead(wire \o fs, seen, "info", "equip") /\ Ahead(wire \o fs, seen, "items", "bag")
        BY <1>1, <2>2, Written DEF Safe
    <2> QED BY <1>1, <2>1, <2>3 DEF Ordered, SeededFirst
<1> QED BY <1>2, <1>3

\* What a login answers, and the frames that are written one at a time.
Reply == <<"equip", "login", "bag", "info">>

LEMMA ReplySafe ==
    Safe(Reply) /\ Len(Reply) = 4 /\ \E i \in DOMAIN Reply : Reply[i] = "bag"
<1>1. Reply \in Seq(Kinds) /\ Len(Reply) = 4 /\ DOMAIN Reply = 1..4
    BY DEF Reply, Kinds
<1>2. Reply[1] = "equip" /\ Reply[2] = "login" /\ Reply[3] = "bag" /\ Reply[4] = "info"
    BY DEF Reply
<1>3. 1 \in 1..(4 - 1) /\ 3 \in 1..4
    OBVIOUS
<1>4. \A j \in 1..4 : j = 1 \/ j = 2 \/ j = 3 \/ j = 4
    OBVIOUS
<1> QED BY <1>1, <1>2, <1>3, <1>4 DEF Safe

LEMMA OneSafe ==
    ASSUME NEW k \in {"time", "teleport", "aoi", "items"}, k = "items" => Has(wire, seen, "bag")
    PROVE  Safe(<<k>>) /\ Len(<<k>>) = 1
<1>1. <<k>> \in Seq(Kinds) /\ Len(<<k>>) = 1 /\ DOMAIN <<k>> = {1} /\ <<k>>[1] = k
    BY DEF Kinds
<1> QED BY <1>1 DEF Safe

\* A step that writes nothing and does not make the world or the tasks appear.
LEMMA SInvQuiet ==
    ASSUME SInv, TypeOK', UNCHANGED <<wire, seen, in_world>>, closed' => conn' = "done",
           up' => up, ~closed' => ~closed, spawn_task' # "none" => spawn_task # "none",
           \A i \in DOMAIN inbox' : inbox'[i] = "teleport" => in_world
    PROVE  SInv'
BY DEF SInv, Ordered, SeededFirst, Seeded

\* A step that writes fs.
LEMMA SInvWrites ==
    ASSUME SInv, NEW fs, Safe(fs), Write(fs), wire' \in Seq(Kinds) => TypeOK',
           UNCHANGED <<up, closed, seen>>, closed' => conn' = "done",
           spawn_task' # "none" => in_world',
           \A i \in DOMAIN inbox' : inbox'[i] = "teleport" => in_world',
           in_world' => in_world \/ \E i \in DOMAIN fs : fs[i] = "bag"
    PROVE  SInv'
<1>1. wire' \in Seq(Kinds) /\ Ordered'
    BY WriteSafe
<1>2. in_world' /\ up /\ ~closed => Has(wire', seen', "bag")
    BY WriteSafe DEF SInv, Seeded
<1> QED BY <1>1, <1>2 DEF SInv, Seeded

\* Requests are read in turn.
LEMMA InboxTail ==
    ASSUME TypeOK, inbox # <<>>
    PROVE  /\ Tail(inbox) \in Seq(Requests) /\ Head(inbox) \in Requests
           /\ \A i \in DOMAIN Tail(inbox) : \E j \in DOMAIN inbox : Tail(inbox)[i] = inbox[j]
           /\ \E j \in DOMAIN inbox : Head(inbox) = inbox[j]
<1>1. /\ Len(inbox) \in Nat \ {0} /\ Head(inbox) = inbox[1] /\ Tail(inbox) \in Seq(Requests)
      /\ DOMAIN inbox = 1..Len(inbox) /\ DOMAIN Tail(inbox) = 1..(Len(inbox) - 1)
      /\ \A i \in 1..(Len(inbox) - 1) : Tail(inbox)[i] = inbox[i + 1]
    BY HeadTailProperties, LenProperties, EmptySeq DEF TypeOK
<1>2. \A i \in 1..(Len(inbox) - 1) : i + 1 \in 1..Len(inbox)
    BY <1>1
<1>3. 1 \in 1..Len(inbox) /\ inbox[1] \in Requests
    BY <1>1 DEF TypeOK
<1> QED BY <1>1, <1>2, <1>3

LEMMA SInvServe == ASSUME SInv, Serve PROVE SInv'
<1>1. /\ TypeOK /\ conn = "read" /\ inbox' = Tail(inbox) /\ inbox' \in Seq(Requests)
      /\ conn' = "drain" /\ UNCHANGED <<up, closed, alive, client, sent, faults>> /\ ~closed
      /\ \A i \in DOMAIN inbox' : inbox'[i] = "teleport" => in_world
      /\ Head(inbox) = "teleport" => in_world
    BY InboxTail DEF Serve, SInv, Seeded
<1>2. CASE LoginGateway
    <2>1. /\ Write(Reply) /\ in_world' = TRUE /\ spawn_task' = "sleep"
          /\ time_task' \in {time_task, "push"} /\ combat_task' \in {combat_task, "sleep"}
        BY <1>2 DEF LoginGateway, Reply
    <2>2. wire' \in Seq(Kinds) => TypeOK'
        BY <1>1, <2>1 DEF TypeOK, client
    <2> QED BY <1>1, <2>1, <2>2, ReplySafe, SInvWrites DEF client
<1>3. CASE Head(inbox) = "teleport" /\ Teleport
    <2>1. /\ Write(<<"teleport">>) /\ spawn_task' = "sleep" /\ in_world
          /\ UNCHANGED <<in_world, time_task, combat_task>>
        BY <1>1, <1>3 DEF Teleport
    <2>2. wire' \in Seq(Kinds) => TypeOK'
        BY <1>1, <2>1 DEF TypeOK, client
    <2>3. Safe(<<"teleport">>)
        BY OneSafe
    <2> HIDE DEF Safe
    <2> QED BY <1>1, <2>1, <2>2, <2>3, SInvWrites DEF client
<1>4. CASE Heartbeat
    <2>1. Write(<<"time">>) /\ UNCHANGED <<in_world, time_task, combat_task, spawn_task>>
        BY <1>4 DEF Heartbeat
    <2>2. wire' \in Seq(Kinds) => TypeOK'
        BY <1>1, <2>1 DEF TypeOK, client
    <2>3. Safe(<<"time">>)
        BY OneSafe
    <2>4. spawn_task' # "none" => in_world'
        BY <2>1 DEF SInv, Seeded
    <2> QED BY <1>1, <2>1, <2>2, <2>3, <2>4, SInvWrites DEF client
<1>5. CASE Ignored
    <2>1. UNCHANGED <<wire, in_world, time_task, combat_task, spawn_task>>
        BY <1>5 DEF Ignored
    <2>2. TypeOK'
        BY <1>1, <2>1 DEF TypeOK, client
    <2> QED BY <1>1, <2>1, <2>2, SInvQuiet DEF client
<1> QED BY <1>2, <1>3, <1>4, <1>5 DEF Serve

LEMMA SInvSend == ASSUME SInv, NEW r \in Requests, Send(r) PROVE SInv'
<1>1. /\ inbox \in Seq(Requests) /\ inbox' = Append(inbox, r) /\ (r = "teleport" => in_world)
      /\ sent' = sent + 1
      /\ UNCHANGED <<up, wire, closed, conn, alive, in_world, time_task, combat_task,
                   spawn_task, client, faults>>
    BY DEF Send, SInv, TypeOK
<1>2. /\ inbox' \in Seq(Requests) /\ DOMAIN inbox' = 1..(Len(inbox) + 1) /\ Len(inbox) \in Nat
      /\ DOMAIN inbox = 1..Len(inbox)
      /\ \A i \in 1..Len(inbox) : inbox'[i] = inbox[i]
      /\ inbox'[Len(inbox) + 1] = r
    BY <1>1, AppendProperties, LenProperties
<1>3. TypeOK'
    BY <1>1, <1>2 DEF SInv, TypeOK, client
<1>4. ASSUME NEW i \in DOMAIN inbox', inbox'[i] = "teleport" PROVE in_world
    <2>1. CASE i = Len(inbox) + 1
        BY <1>1, <1>2, <1>4, <2>1
    <2>2. CASE i # Len(inbox) + 1
        <3>1. i \in 1..Len(inbox)
            BY <1>2, <2>2
        <3> QED BY <1>2, <1>4, <3>1 DEF SInv, Seeded
    <2> QED BY <2>1, <2>2
<1> QED BY <1>1, <1>3, <1>4, SInvQuiet DEF SInv, client

LEMMA SInvReceive == ASSUME SInv, Receive PROVE SInv'
<1>1. /\ wire \in Seq(Kinds) /\ wire # <<>> /\ wire' = Tail(wire) /\ seen' = seen \cup {Head(wire)}
      /\ UNCHANGED <<up, inbox, closed, conn, alive, in_world, time_task, combat_task,
                     spawn_task, sent, faults>>
    BY DEF Receive, SInv, TypeOK
<1>2. Tail(wire) \in Seq(Kinds) /\ Head(wire) \in Kinds
    BY <1>1, HeadTailProperties
<1>3. TypeOK'
    BY <1>1, <1>2 DEF SInv, TypeOK
<1>4. /\ Ahead(wire, seen, "info", "equip") /\ Ahead(wire, seen, "items", "bag")
      /\ "info" \in seen => "equip" \in seen
      /\ "items" \in seen => "bag" \in seen
    BY DEF SInv, Ordered, SeededFirst
<1>5. "info" # "equip" /\ "items" # "bag"
    OBVIOUS
<1>6. /\ Ahead(wire', seen', "info", "equip") /\ ("info" \in seen' => "equip" \in seen')
      /\ \A k : Has(wire, seen, k) => Has(wire', seen', k)
    BY <1>1, <1>4, <1>5, ReadNext
<1>7. Ahead(wire', seen', "items", "bag") /\ ("items" \in seen' => "bag" \in seen')
    BY <1>1, <1>4, <1>5, ReadNext
<1> QED BY <1>1, <1>3, <1>6, <1>7 DEF SInv, Ordered, SeededFirst, Seeded

LEMMA SInvTasks == ASSUME SInv, TimePusher \/ CombatLoop \/ SpawnWorld PROVE SInv'
<1>1. /\ TypeOK /\ UNCHANGED <<up, inbox, closed, conn, alive, in_world, client, sent, faults>>
    BY DEF SInv, TimePusher, CombatLoop, SpawnWorld
<1>2. /\ time_task' \in {"none", "push", "sleep", "drain", "done"}
      /\ combat_task' \in {"none", "sleep", "done"}
      /\ spawn_task' \in {"none", "sleep", "population", "inventory", "done"}
      /\ spawn_task' # "none" => spawn_task # "none"
    BY DEF SInv, TypeOK, TimePusher, PushTime, PushDrained, CombatLoop, SpawnWorld, Spawn, SpawnDrained
<1>3. wire' \in Seq(Kinds) => TypeOK'
    BY <1>1, <1>2 DEF TypeOK, client
<1>4. CASE UNCHANGED wire
    <2>1. TypeOK'
        BY <1>1, <1>3, <1>4 DEF TypeOK
    <2> QED BY <1>1, <1>2, <1>4, <2>1, SInvQuiet DEF SInv, Seeded, client
<1>5. ASSUME NEW k \in {"time", "aoi", "items"}, Write(<<k>>),
             k = "items" => spawn_task = "population"
      PROVE  SInv'
    <2>1. CASE closed \/ ~up
        <3>1. wire' = wire
            BY <1>5, <2>1 DEF Write
        <3> QED BY <1>4, <3>1
    <2>2. CASE ~(closed \/ ~up)
        <3>1. k = "items" => Has(wire, seen, "bag")
            BY <1>5, <2>2 DEF SInv, Seeded
        <3>2. Safe(<<k>>)
            BY <3>1, OneSafe
        <3> QED BY <1>1, <1>2, <1>3, <1>5, <3>2, SInvWrites DEF SInv, Seeded, client
    <2> QED BY <2>1, <2>2
<1>6. \/ UNCHANGED wire \/ Write(<<"time">>) \/ Write(<<"aoi">>)
      \/ Write(<<"items">>) /\ spawn_task = "population"
    BY DEF TimePusher, PushTime, PushDrained, CombatLoop, SpawnWorld, Spawn, SpawnDrained
<1> QED BY <1>4, <1>5, <1>6

LEMMA SInvEnds == ASSUME SInv, NEW ok \in BOOLEAN, ServeEnds(ok) PROVE SInv'
<1>1. /\ UNCHANGED <<up, inbox, wire, in_world, spawn_task, client, sent>>
      /\ alive' = FALSE /\ conn' = "done" /\ (closed' = TRUE \/ closed' = closed)
      /\ (time_task' = time_task \/ time_task' = "done")
      /\ (combat_task' = combat_task \/ combat_task' = "done")
      /\ (faults' = faults \/ faults' = faults + 1)
    BY DEF ServeEnds, Finally, Cancelled
<1>2. closed' \in BOOLEAN /\ (~closed' => ~closed)
    <2>1. closed \in BOOLEAN
        BY DEF SInv, TypeOK
    <2>2. CASE closed' = TRUE
        BY <2>2
    <2>3. CASE closed' = closed
        BY <2>1, <2>3
    <2> QED BY <1>1, <2>2, <2>3
<1>3. TypeOK'
    <2>1. alive' \in BOOLEAN
        BY <1>1
    <2>2. /\ time_task' \in {"none", "push", "sleep", "drain", "done"}
          /\ combat_task' \in {"none", "sleep", "done"}
        BY <1>1 DEF SInv, TypeOK
    <2>3. faults' \in Nat
        BY <1>1 DEF SInv, TypeOK
    <2>4. conn' \in {"read", "drain", "done"}
        BY <1>1
    <2>5. /\ up' \in BOOLEAN /\ in_world' \in BOOLEAN /\ inbox' \in Seq(Requests)
          /\ wire' \in Seq(Kinds) /\ seen' \in SUBSET Kinds /\ sent' \in Nat
          /\ spawn_task' \in {"none", "sleep", "population", "inventory", "done"}
        BY <1>1 DEF SInv, TypeOK, client
    <2> QED BY <1>2, <2>1, <2>2, <2>3, <2>4, <2>5 DEF TypeOK
<1> QED BY <1>1, <1>2, <1>3, SInvQuiet DEF SInv, Seeded, client

LEMMA SInvNext == SInv /\ [Next]_vars => SInv'
<1> SUFFICES ASSUME SInv, [Next]_vars PROVE SInv'
    OBVIOUS
<1>1. CASE Watch \/ Leave \/ SeeClose \/ ServeDrained \/ UNCHANGED vars
    <2>1. /\ UNCHANGED <<inbox, wire, closed, alive, in_world, time_task, combat_task,
                         spawn_task, seen, sent, faults>>
          /\ (conn' = conn \/ (conn' = "read" /\ conn = "drain"))
        BY <1>1 DEF Watch, Leave, SeeClose, ServeDrained, vars, client
    <2>2. up' = up \/ up' = FALSE
        BY <1>1 DEF Watch, Leave, SeeClose, ServeDrained, vars, client
    <2>3. up' \in BOOLEAN /\ (up' => up)
        <3>1. up \in BOOLEAN
            BY DEF SInv, TypeOK
        <3>2. CASE up' = FALSE
            BY <3>2
        <3>3. CASE up' = up
            BY <3>1, <3>3
        <3> QED BY <2>2, <3>2, <3>3
    <2>4. conn' \in {"read", "drain", "done"} /\ (closed' => conn' = "done")
        BY <2>1 DEF SInv, TypeOK
    <2>5. TypeOK'
        BY <2>1, <2>3, <2>4 DEF SInv, TypeOK
    <2> QED BY <2>1, <2>3, <2>4, <2>5, SInvQuiet DEF SInv, Seeded
<1> QED BY <1>1, SInvServe, SInvSend, SInvReceive, SInvTasks, SInvEnds DEF Next

\* The client has the equipment state before the first level update and an
\* initialized bag before the first item, in whatever order the handlers and the
\* tasks write (on_login_gateway, push_equip_info, spawn_world).
THEOREM SeededInOrder == Spec => []SeededFirst
<1>1. SInv => SeededFirst
    BY DEF SInv, Ordered
<1> QED BY <1>1, SInvInit, SInvNext, PTL DEF Spec

\* The types of the state of a connection.
THEOREM TypeCorrect == Spec => []TypeOK
<1>1. SInv => TypeOK
    BY DEF SInv
<1> QED BY <1>1, SInvInit, SInvNext, PTL DEF Spec
-----------------------------------------------------------------------------
\* The frames of w that its reader has still to take in, those of the map apart.
Rest(w) == {i \in DOMAIN w : w[i] # "aoi"}

LEMMA RestFinite ==
    ASSUME NEW w \in Seq(Kinds)
    PROVE  /\ IsFiniteSet(Rest(w)) /\ Cardinality(Rest(w)) \in Nat
           /\ Cardinality(Rest(w)) <= Len(w)
<1>1. Len(w) \in Nat /\ DOMAIN w = 1..Len(w)
    BY LenProperties
<1>2. IsFiniteSet(1..Len(w))
    BY <1>1, FS_Interval
<1>3. Cardinality(1..Len(w)) = IF 1 > Len(w) THEN 0 ELSE Len(w) - 1 + 1
    BY <1>1, FS_Interval
<1>4. Rest(w) \in SUBSET (1..Len(w))
    BY <1>1 DEF Rest
<1>5. IsFiniteSet(Rest(w)) /\ Cardinality(Rest(w)) <= Cardinality(1..Len(w))
    BY <1>2, <1>4, FS_Subset
<1>6. Cardinality(Rest(w)) \in Nat
    BY <1>5, FS_CardinalityType
<1> QED BY <1>1, <1>3, <1>5, <1>6

\* Reading leaves no more to read.
LEMMA RestRead ==
    ASSUME NEW w \in Seq(Kinds), w # <<>>
    PROVE  Cardinality(Rest(Tail(w))) <= Cardinality(Rest(w))
<1>1. /\ Len(w) \in Nat \ {0} /\ Tail(w) \in Seq(Kinds)
      /\ DOMAIN w = 1..Len(w) /\ DOMAIN Tail(w) = 1..(Len(w) - 1)
      /\ \A i \in 1..(Len(w) - 1) : Tail(w)[i] = w[i + 1]
    BY HeadTailProperties, LenProperties, EmptySeq
<1> DEFINE A == Rest(Tail(w))
           B == Rest(w)
           f == [i \in A |-> i + 1]
<1>2. \A i \in A : i \in Int /\ i + 1 \in B
    <2> SUFFICES ASSUME NEW i \in A PROVE i \in Int /\ i + 1 \in B
        OBVIOUS
    <2>1. i \in 1..(Len(w) - 1) /\ Tail(w)[i] # "aoi"
        BY <1>1 DEF Rest
    <2>2. i + 1 \in 1..Len(w) /\ i \in Int
        BY <1>1, <2>1
    <2> QED BY <1>1, <2>1, <2>2 DEF Rest
<1>3. f \in [A -> B] /\ \A i, j \in A : f[i] = f[j] => i = j
    BY <1>2
<1>4. IsFiniteSet(B)
    BY RestFinite
<1> HIDE DEF A, B, f
<1>5. f \in Injection(A, B)
    BY <1>3 DEF Injection, IsInjective
<1>6. Cardinality(A) <= Cardinality(B)
    BY <1>4, <1>5, FS_Injection
<1> QED BY <1>6 DEF A, B

\* Writing adds what is written, a frame of the map nothing.
LEMMA RestWritten ==
    ASSUME NEW w \in Seq(Kinds), NEW fs \in Seq(Kinds)
    PROVE  /\ Cardinality(Rest(w \o fs)) <= Cardinality(Rest(w)) + Len(fs)
           /\ (\A i \in DOMAIN fs : fs[i] = "aoi")
                => Cardinality(Rest(w \o fs)) <= Cardinality(Rest(w))
<1> DEFINE v == w \o fs
           n == Len(w)
           m == Len(fs)
           R == (n + 1)..(n + m)
<1>1. /\ v \in Seq(Kinds) /\ n \in Nat /\ m \in Nat
      /\ DOMAIN v = 1..(n + m) /\ DOMAIN w = 1..n /\ DOMAIN fs = 1..m
    BY ConcatProperties, LenProperties
<1>2. \A i \in 1..(n + m) : v[i] = IF i <= n THEN w[i] ELSE fs[i - n]
    BY ConcatProperties
<1>3. IsFiniteSet(R)
    BY <1>1, FS_Interval
<1>4. Cardinality(R) = IF n + 1 > n + m THEN 0 ELSE (n + m) - (n + 1) + 1
    <2>1. n + 1 \in Int /\ n + m \in Int
        BY <1>1
    <2> QED BY <2>1, FS_Interval
<1>5. Cardinality(R) = m
    BY <1>1, <1>4
<1> HIDE DEF v, n, m, R
<1>6. Rest(v) \subseteq Rest(w) \cup R
    <2> SUFFICES ASSUME NEW i \in Rest(v), i \notin R PROVE i \in Rest(w)
        OBVIOUS
    <2>1. i \in 1..(n + m) /\ v[i] # "aoi"
        BY <1>1 DEF Rest
    <2>2. i <= n /\ i \in 1..n
        BY <1>1, <2>1 DEF R
    <2>3. v[i] = w[i]
        BY <1>2, <2>1, <2>2
    <2> QED BY <1>1, <2>1, <2>2, <2>3 DEF Rest
<1>7. Cardinality(Rest(v)) <= Cardinality(Rest(w)) + m
    <2>1. IsFiniteSet(Rest(w)) /\ Cardinality(Rest(w)) \in Nat
        BY RestFinite
    <2>2. /\ IsFiniteSet(Rest(w) \cup R)
          /\ Cardinality(Rest(w) \cup R)
                = Cardinality(Rest(w)) + Cardinality(R) - Cardinality(Rest(w) \cap R)
        BY <1>3, <2>1, FS_Union
    <2>3. Rest(w) \cap R \in SUBSET R
        OBVIOUS
    <2>4. IsFiniteSet(Rest(w) \cap R)
        BY <1>3, <2>3, FS_Subset
    <2>5. Cardinality(Rest(w) \cap R) \in Nat
        BY <2>4, FS_CardinalityType
    <2>6. Cardinality(Rest(v)) <= Cardinality(Rest(w) \cup R)
        BY <1>6, <2>2, FS_Subset
    <2>7. Cardinality(Rest(v)) \in Nat
        BY <1>1, RestFinite
    <2> QED BY <1>1, <1>5, <2>1, <2>2, <2>5, <2>6, <2>7
<1>8. ASSUME \A i \in DOMAIN fs : fs[i] = "aoi"
      PROVE  Cardinality(Rest(v)) <= Cardinality(Rest(w))
    <2>1. Rest(v) \subseteq Rest(w)
        <3> SUFFICES ASSUME NEW i \in Rest(v), i \in R PROVE FALSE
            BY <1>6
        <3>1. i \in 1..(n + m) /\ v[i] # "aoi" /\ ~(i <= n) /\ i - n \in 1..m
            BY <1>1 DEF Rest, R
        <3>2. v[i] = fs[i - n]
            BY <1>2, <3>1
        <3> QED BY <1>1, <1>8, <3>1, <3>2
    <2>2. IsFiniteSet(Rest(w))
        BY RestFinite
    <2> QED BY <2>1, <2>2, FS_Subset
<1> QED BY <1>7, <1>8 DEF v, m
-----------------------------------------------------------------------------
\* While frames still go out: every writer that waits has added one answer or one
\* frame since the transport had room.  A login or a teleport may take the place of
\* a population whose inventory was never drained, hence 5 and not 4.
Owed == (IF conn = "drain" THEN 5 ELSE IF spawn_task = "inventory" THEN 1 ELSE 0)
        + (IF time_task = "drain" THEN 1 ELSE 0)
Open == up /\ ~closed
UInv ==
    /\ SInv
    /\ Cardinality(Unread) <= HighWater + 6
    /\ Open => Cardinality(Unread) <= HighWater + Owed

LEMMA UnreadIs == Unread = Rest(wire) /\ Unread' = Rest(wire')
BY DEF Unread, Rest

LEMMA UInvInit == Init => UInv
<1> SUFFICES ASSUME Init PROVE UInv
    OBVIOUS
<1>1. SInv
    BY SInvInit
<1>2. Unread = {}
    BY DEF Init, Unread
<1>3. Cardinality(Unread) = 0
    BY <1>2, FS_EmptySet
<1>4. Owed = 0
    BY DEF Init, Owed
<1> QED BY <1>1, <1>3, <1>4, ConnectionAssumption DEF UInv

\* A step that writes nothing, and ends no wait unless the transport has room.
LEMMA UInvQuiet ==
    ASSUME UInv, SInv', UNCHANGED wire, Open' => Open,
           Open' => (Owed' >= Owed \/ Len(wire) <= HighWater)
    PROVE  UInv'
<1>1. wire \in Seq(Kinds)
    BY DEF UInv, SInv, TypeOK
<1>2. Unread' = Unread /\ Cardinality(Unread) \in Nat /\ Cardinality(Unread) <= Len(wire)
      /\ Len(wire) \in Nat
    BY <1>1, UnreadIs, RestFinite, LenProperties
<1>3. Owed' \in Nat /\ Owed \in Nat
    BY DEF Owed
<1> QED BY <1>2, <1>3, ConnectionAssumption DEF UInv

\* A step that writes fs, of which n frames count.
LEMMA UInvWrites ==
    ASSUME UInv, SInv', NEW fs \in Seq(Kinds), Write(fs), NEW n \in Nat, UNCHANGED <<up, closed>>,
           n = Len(fs) \/ (n = 0 /\ \A i \in DOMAIN fs : fs[i] = "aoi"),
           Owed' >= Owed + n \/ (Len(wire) <= HighWater /\ Owed' >= n)
    PROVE  UInv'
<1>1. wire \in Seq(Kinds)
    BY DEF UInv, SInv, TypeOK
<1>2. Owed' \in 0..6 /\ Owed \in 0..6
    BY DEF Owed
<1>3. CASE ~Open
    <2>1. Unread' = Unread /\ ~Open'
        BY <1>3, UnreadIs DEF Write, Open
    <2> QED BY <2>1 DEF UInv
<1>4. CASE Open
    <2>1. wire' = wire \o fs
        BY <1>4 DEF Write, Open
    <2>2. Cardinality(Rest(wire \o fs)) <= Cardinality(Rest(wire)) + n
        <3>1. CASE n = Len(fs)
            BY <1>1, <3>1, RestWritten
        <3>2. CASE n = 0 /\ \A i \in DOMAIN fs : fs[i] = "aoi"
            <4>1. Cardinality(Rest(wire)) \in Nat
                BY <1>1, RestFinite
            <4>2. Cardinality(Rest(wire \o fs)) <= Cardinality(Rest(wire))
                BY <1>1, <3>2, RestWritten
            <4>3. wire \o fs \in Seq(Kinds)
                BY <1>1, ConcatProperties
            <4>4. Cardinality(Rest(wire \o fs)) \in Nat
                BY <4>3, RestFinite
            <4> QED BY <3>2, <4>1, <4>2, <4>4
        <3> QED BY <3>1, <3>2
    <2>3. /\ Cardinality(Unread) \in Nat /\ Cardinality(Unread') \in Nat
          /\ Cardinality(Unread) <= Len(wire) /\ Len(wire) \in Nat
        <3>1. wire' \in Seq(Kinds)
            BY DEF SInv, TypeOK
        <3> QED BY <1>1, <3>1, UnreadIs, RestFinite, LenProperties
    <2>4. Cardinality(Unread') <= Cardinality(Unread) + n
        BY <2>1, <2>2, UnreadIs
    <2>5. Cardinality(Unread') <= HighWater + Owed'
        BY <1>2, <1>4, <2>3, <2>4, ConnectionAssumption DEF UInv
    <2> QED BY <1>2, <2>3, <2>5, ConnectionAssumption DEF UInv
<1> QED BY <1>3, <1>4

LEMMA UInvServe == ASSUME UInv, Serve, SInv' PROVE UInv'
<1>1. conn = "read" /\ conn' = "drain" /\ UNCHANGED <<up, closed>>
    BY DEF Serve
<1>2. Len(Reply) = 4 /\ Reply \in Seq(Kinds)
    BY ReplySafe DEF Safe
<1>3. \A k \in {"time", "teleport"} : Len(<<k>>) = 1 /\ <<k>> \in Seq(Kinds)
    BY DEF Kinds
<1>4. CASE LoginGateway
    <2>1. Write(Reply) /\ (time_task' = "drain" <=> time_task = "drain")
        BY <1>4 DEF LoginGateway, Reply
    <2>2. Owed' >= Owed + 4
        BY <1>1, <2>1 DEF Owed
    <2> QED BY <1>1, <1>2, <2>1, <2>2, UInvWrites
<1>5. ASSUME NEW k \in {"time", "teleport"}, Write(<<k>>), UNCHANGED time_task PROVE UInv'
    <2>1. Owed' >= Owed + 1
        BY <1>1, <1>5 DEF Owed
    <2> QED BY <1>1, <1>3, <1>5, <2>1, UInvWrites
<1>6. CASE Ignored
    <2>1. UNCHANGED wire /\ Owed' >= Owed
        BY <1>1, <1>6 DEF Ignored, Owed
    <2> QED BY <1>1, <2>1, UInvQuiet DEF Open
<1> QED BY <1>4, <1>5, <1>6 DEF Serve, Teleport, Heartbeat

LEMMA UInvReceive == ASSUME UInv, Receive, SInv' PROVE UInv'
<1>1. /\ wire \in Seq(Kinds) /\ wire # <<>> /\ wire' = Tail(wire)
      /\ UNCHANGED <<up, closed, conn, time_task, spawn_task>>
    BY DEF Receive, UInv, SInv, TypeOK
<1>2. Cardinality(Unread') <= Cardinality(Unread)
    BY <1>1, RestRead, UnreadIs
<1>3. wire' \in Seq(Kinds)
    BY DEF SInv, TypeOK
<1>4. Cardinality(Unread) \in Nat /\ Cardinality(Unread') \in Nat
    BY <1>1, <1>3, UnreadIs, RestFinite
<1>5. Owed' = Owed /\ Owed \in Nat /\ (Open' <=> Open)
    BY <1>1 DEF Owed, Open
<1> QED BY <1>2, <1>4, <1>5, ConnectionAssumption DEF UInv

LEMMA UInvTasks == ASSUME UInv, TimePusher \/ CombatLoop \/ SpawnWorld, SInv' PROVE UInv'
<1>1. \A k \in {"time", "aoi", "items"} : Len(<<k>>) = 1 /\ <<k>> \in Seq(Kinds)
    BY DEF Kinds
<1>2. \A i \in DOMAIN <<"aoi">> : <<"aoi">>[i] = "aoi"
    OBVIOUS
<1>3. ASSUME UNCHANGED <<up, closed, conn, time_task, spawn_task>>,
             UNCHANGED wire \/ Write(<<"aoi">>)
      PROVE  UInv'
    <2>1. Owed' = Owed /\ Owed \in Nat /\ (Open' => Open)
        BY <1>3 DEF Owed, Open
    <2>2. CASE UNCHANGED wire
        BY <2>1, <2>2, UInvQuiet
    <2>3. CASE Write(<<"aoi">>)
        <3>1. Owed' >= Owed + 0
            BY <2>1
        <3> QED BY <1>1, <1>2, <1>3, <2>3, <3>1, UInvWrites
    <2> QED BY <1>3, <2>2, <2>3
<1>4. CASE CombatLoop
    BY <1>3, <1>4 DEF CombatLoop
<1>5. CASE TimePusher
    <2>1. UNCHANGED <<up, closed, conn, spawn_task>>
        BY <1>5 DEF TimePusher
    <2>2. CASE Write(<<"time">>) /\ time_task = "push" /\ time_task' = "drain"
        <3>1. Owed' >= Owed + 1
            BY <2>1, <2>2 DEF Owed
        <3> QED BY <1>1, <2>1, <2>2, <3>1, UInvWrites
    <2>3. CASE UNCHANGED wire /\ time_task # "drain"
        <3>1. Owed' >= Owed
            BY <2>1, <2>3 DEF Owed
        <3> QED BY <2>1, <2>3, <3>1, UInvQuiet DEF Open
    <2>4. CASE UNCHANGED wire /\ (Drained \/ ~up)
        BY <2>1, <2>4, UInvQuiet DEF Open, Drained
    <2> QED BY <1>5, <2>2, <2>3, <2>4 DEF TimePusher, PushTime, PushDrained
<1>6. CASE SpawnWorld
    <2>1. UNCHANGED <<up, closed, conn, time_task>>
        BY <1>6 DEF SpawnWorld
    <2>2. CASE Spawn
        <3>1. spawn_task = "sleep" /\ (UNCHANGED wire \/ Write(<<"aoi">>))
            BY <2>2 DEF Spawn
        <3>2. Owed' >= Owed /\ Owed' >= Owed + 0
            BY <2>1, <3>1 DEF Owed
        <3>3. CASE UNCHANGED wire
            BY <2>1, <3>2, <3>3, UInvQuiet DEF Open
        <3>4. CASE Write(<<"aoi">>)
            BY <1>1, <1>2, <2>1, <3>2, <3>4, UInvWrites
        <3> QED BY <3>1, <3>3, <3>4
    <2>3. CASE SpawnDrained
        <3>1. Drained \/ ~up
            BY <2>3 DEF SpawnDrained
        <3>2. CASE UNCHANGED wire
            BY <2>1, <3>1, <3>2, UInvQuiet DEF Open, Drained
        <3>3. CASE up /\ Write(<<"items">>) /\ spawn_task' = "inventory"
            <4>1. Owed' >= 1
                BY <3>3 DEF Owed
            <4> QED BY <1>1, <2>1, <3>1, <3>3, <4>1, UInvWrites DEF Drained
        <3> QED BY <2>3, <3>2, <3>3 DEF SpawnDrained
    <2> QED BY <1>6, <2>2, <2>3 DEF SpawnWorld
<1> QED BY <1>4, <1>5, <1>6

LEMMA UInvEnds == ASSUME UInv, NEW ok \in BOOLEAN, ServeEnds(ok), SInv' PROVE UInv'
<1>1. UNCHANGED <<up, wire, spawn_task>> /\ (conn = "drain" => ~up)
    BY DEF ServeEnds
<1>2. (closed' = TRUE) \/ (UNCHANGED closed /\ UNCHANGED time_task)
    BY DEF ServeEnds, Finally
<1>3. CASE closed' = TRUE
    BY <1>1, <1>3, UInvQuiet DEF Open
<1>4. CASE UNCHANGED closed /\ UNCHANGED time_task
    <2>1. Open' => Owed' >= Owed
        BY <1>1, <1>4 DEF Open, Owed
    <2> QED BY <1>1, <1>4, <2>1, UInvQuiet DEF Open
<1> QED BY <1>2, <1>3, <1>4

LEMMA UInvNext == UInv /\ [Next]_vars => UInv'
<1> SUFFICES ASSUME UInv, [Next]_vars PROVE UInv'
    OBVIOUS
<1>1. SInv'
    BY SInvNext DEF UInv
<1>2. ASSUME UNCHANGED <<wire, closed, time_task, spawn_task>>, up' => up,
             Open' => (conn' = conn \/ Len(wire) <= HighWater)
      PROVE  UInv'
    <2>1. conn' = conn => Owed' >= Owed
        BY <1>2 DEF Owed
    <2> QED BY <1>1, <1>2, <2>1, UInvQuiet DEF Open
<1>3. CASE Watch \/ Leave \/ SeeClose \/ ServeDrained \/ UNCHANGED vars
    BY <1>2, <1>3 DEF Watch, Leave, SeeClose, ServeDrained, Drained, vars
<1>4. ASSUME NEW r \in Requests, Send(r) PROVE UInv'
    BY <1>2, <1>4 DEF Send
<1> QED BY <1>1, <1>3, <1>4, UInvServe, UInvReceive, UInvTasks, UInvEnds DEF Next

\* What a client leaves unread keeps under the transport's limit and one turn of each
\* writer, whatever the tasks push and however often a login or a teleport cancels a
\* population that waits (handle_conn, time_pusher, spawn_world, _start_spawn).
THEOREM UnreadStaysBounded == Spec => []UnreadBounded
<1>1. UInv => UnreadBounded
    BY DEF UInv, UnreadBounded
<1> QED BY <1>1, UInvInit, UInvNext, PTL DEF Spec
=============================================================================
