---- MODULE BusProofs ----
(***************************************************************************)
(* Proofs about the drivers of the two buses.  The SDIO slave (SdioSlave): *)
(* for every number and size of its buffers and every load, with handler   *)
(* and callback between the steps of a load, each buffer stays in one      *)
(* place of one of the two lists, and the host reads the bytes that were   *)
(* loaded, in order and once, unless they meet within a step (torn).  The  *)
(* I2C master (I2cMaster): for every width of a byte, the slave hears of   *)
(* every call that call and nothing else, and i2c_master_init frees the    *)
(* bus from whatever a reset interrupted.                                  *)
(***************************************************************************)
EXTENDS SdioSlave, I2cMaster, ModArith, SequenceTheorems

---------------------------------------------------------------------------
(* The SDIO slave: the inductive invariant.                                *)

\* The two lists as one.
Lists == tosend \o sended

\* The first buffer is still to be read, unless the host has read it and the
\* handler has not freed it since.
ToCome == ~sdio_read

\* How many bytes that buffer has to come, and the place of buffer i in what the
\* host has still to read: behind the first every buffer of the queue is full.
First == IF ToCome THEN Len(buffer[Lists[1]]) ELSE 0

Place(i) == IF i = 1 THEN 0 ELSE First + (i - 2) * BufSize

\* What is in the buffer that is being filled, and all that is still to be read.
Filling == IF sended = <<>> THEN 0 ELSE Len(buffer[sended[1]])

Total == Place(Len(tosend) + 1) + Filling

\* A load has filled a buffer and not put it behind the others yet.
Chaining == \E w \in Loaders : load[w].at = "chains"

\* Loads fill the free buffers from the first on, and a full one leaves them
\* with the next step of its load.
Shape ==
    /\ \A i \in 2..Len(tosend) : Len(buffer[tosend[i]]) = BufSize
    /\ sended # <<>> /\ ~Chaining => Len(buffer[sended[1]]) < BufSize
    /\ \A i \in 2..Len(sended) : Len(buffer[sended[i]]) = 0

\* Between two steps of a load nothing needs the lists to stay as they are;
\* within one it relies on them.
Idle(w) == load[w].at \in {"none", "between", "offers"}

\* What the steps of a load rely on.
Relies(w) ==
    /\ load[w].at \in {"copies", "chains"} => sended # <<>>
    /\ load[w].at = "chains" => Len(buffer[sended[1]]) = BufSize
    /\ load[w].at = "closes" => tosend = <<>>

\* The callback loads in the handler only, and between the steps of the task.
Loading ==
    /\ load["callback"].at # "none" => sdio_at = "callback" /\ Idle("task")
    /\ \A w \in Loaders : Relies(w)

\* What the host may read is the head of the queue, with the length it is told;
\* while RX_EOF waits the host has read the head, which stays where it is until
\* the handler frees it.
Links ==
    /\ rxlink => /\ tosend # <<>> /\ ~sdio_read
                 /\ sdio_status.rx_length = Len(buffer[tosend[1]])
    /\ "RX_EOF" \in sdio_int_st => sdio_read
    /\ sdio_read => tosend # <<>>

\* Every buffer is in some place of the lists, and they have no other place.
Complete ==
    /\ Len(tosend) + Len(sended) = Bufs
    /\ \A b \in 1..Bufs : \E i \in 1..Bufs : Lists[i] = b

\* No buffer is in two places.
Apart == \A i, j \in 1..Bufs : Lists[i] = Lists[j] => i = j

\* Each buffer holds the numbers of its place.
Bytes ==
    \A i \in 1..Bufs : (i = 1 => ToCome) =>
        \A k \in 1..Len(buffer[Lists[i]]) :
            buffer[Lists[i]][k] = Number(sdio_due + (Place(i) + (k - 1)))

\* The inductive invariant: LoadedInOrder, said of each buffer at its place in
\* the lists, with what handler and loads take for granted about the lists.
SdioInv ==
    /\ SdioTypeOK /\ sdio_told
    /\ DOMAIN buffer = 1..Bufs
    /\ Complete /\ Apart
    /\ Links /\ Loading /\ Shape /\ Bytes
    /\ sdio_taken = Number(sdio_due + Total)

---------------------------------------------------------------------------
(* Numbers.                                                                *)

LEMMA NumberType ==
    ASSUME SdioAssumption, NEW a \in Int
    PROVE  Number(a) \in 0..(Count - 1) /\ Number(a) \in Int
<1>1. Count \in Nat \ {0}
    BY DEF SdioAssumption
<1> QED
    BY <1>1, DivMod DEF Number

\* Numbers are counted on from a number as from what it stands for.
LEMMA NumberOn ==
    ASSUME SdioAssumption, NEW a \in Int, NEW b \in Int
    PROVE  Number(Number(a) + b) = Number(a + b)
<1> DEFINE r == a % Count
           q == a \div Count
           s == (r + b) % Count
           p == (r + b) \div Count
<1>1. Count \in Nat \ {0}
    BY DEF SdioAssumption
<1>2. r \in 0..(Count - 1) /\ q \in Int /\ a = Count * q + r
    BY <1>1, DivMod
<1> HIDE DEF r, q
<1>3. r + b \in Int
    BY <1>2
<1>4. s \in 0..(Count - 1) /\ p \in Int /\ r + b = Count * p + s
    BY <1>1, <1>3, DivMod
<1> HIDE DEF s, p
<1>5. a + b = Count * (q + p) + s
    BY <1>1, <1>2, <1>4
<1>6. (Count * (q + p) + s) % Count = s
    <2>1. q + p \in Int
        BY <1>2, <1>4
    <2> QED  BY <2>1, <1>1, <1>4, RemainderIs
<1> QED
    BY <1>5, <1>6 DEF Number, s, r

LEMMA Times ==
    ASSUME NEW B \in Nat, NEW i \in Int
    PROVE  /\ i * B \in Int
           /\ (i + 1) * B = i * B + B
           /\ i >= 0 => i * B >= 0
           /\ 0 * B = 0 /\ 1 * B = B
OBVIOUS

---------------------------------------------------------------------------
\* What FlattenSeq counts up to its result.
Flattens(f, s, n) ==
    /\ f = [i \in 1..n |-> f[i]]
    /\ \A i \in 1..n : f[i] = IF i = 1 THEN s[i] ELSE f[i - 1] \o s[i]

LEMMA FlattenIs ==
    ASSUME NEW s, NEW n \in Nat \ {0}, Len(s) = n, NEW f, Flattens(f, s, n)
    PROVE  FlattenSeq(s) = f[n]
<1> DEFINE Is(g) == g = [i \in 1..n |-> IF i = 1 THEN s[i] ELSE g[i-1] \o s[i]]
           G == CHOOSE g : Is(g)
<1>1. Is(f)
    BY DEF Flattens
<1>2. Is(G)
    BY <1>1, Zenon
<1>3. FlattenSeq(s) = G[n]
    <2>1. FlattenSeq(s) = (LET flatten[i \in 1..Len(s)] == IF i = 1 THEN s[i] ELSE flatten[i-1] \o s[i] IN flatten[Len(s)])
        BY DEF FlattenSeq
    <2> QED BY <2>1, Zenon
<1> HIDE DEF G
<1>4. \A i \in 1..n : f[i] = IF i = 1 THEN s[i] ELSE f[i - 1] \o s[i]
    BY DEF Flattens
<1>5. \A i \in 1..n : G[i] = IF i = 1 THEN s[i] ELSE G[i - 1] \o s[i]
    BY <1>2, Zenon
<1> DEFINE Bad == {k \in 1..n : G[k] # f[k]}
<1>6. Bad = {}
    <2>1. SUFFICES ASSUME Bad # {} PROVE FALSE
        OBVIOUS
    <2>2. Bad \in SUBSET Nat
        OBVIOUS
    <2>3. PICK u \in Bad : \A v \in Bad : v >= u
        <3> HIDE DEF Bad
        <3> QED  BY <2>1, <2>2, LeastNatural
    <2>4. u \in 1..n /\ G[u] # f[u]
        OBVIOUS
    <2>5. u # 1
        BY <2>4, <1>4, <1>5
    <2>6. u - 1 \in 1..n /\ u - 1 \notin Bad
        BY <2>3, <2>4, <2>5
    <2>7. G[u - 1] = f[u - 1]
        BY <2>6
    <2>8. G[u] = G[u - 1] \o s[u] /\ f[u] = f[u - 1] \o s[u]
        BY <2>4, <2>5, <1>4, <1>5
    <2> QED  BY <2>4, <2>7, <2>8
<1>7. G[n] = f[n]
    <2>1. SUFFICES ASSUME G[n] # f[n] PROVE n \in Bad
        BY <1>6
    <2> QED  BY <2>1
<1> QED
    BY <1>3, <1>7

\* The start of a numbering, as a sequence.
Stretch(V, n) == [k \in 1..n |-> V[k]]

LEMMA RunValues ==
    ASSUME NEW V, NEW n \in Nat, NEW R, \A k \in 1..n : V[k] \in R
    PROVE  /\ Stretch(V, n) \in Seq(R)
           /\ Len(Stretch(V, n)) = n
           /\ \A k \in 1..n : Stretch(V, n)[k] = V[k]
BY DEF Stretch

\* A sequence that goes on where the numbering stopped takes it further.
LEMMA RunOn ==
    ASSUME NEW V, NEW p \in Nat, NEW T, NEW b \in Seq(T),
           \A k \in 1..Len(b) : b[k] = V[p + k]
    PROVE  Stretch(V, p) \o b = Stretch(V, p + Len(b))
<1> DEFINE a == Stretch(V, p)
           c == Stretch(V, p + Len(b))
           R == {V[k] : k \in 1..(p + Len(b))} \cup T
<1>0. Len(b) \in Nat /\ p + Len(b) \in Nat
    OBVIOUS
<1>1. /\ \A k \in 1..p : V[k] \in R
      /\ \A k \in 1..(p + Len(b)) : V[k] \in R
    BY <1>0
<1>2. T \subseteq R
    OBVIOUS
<1>3. b \in Seq(R)
    <2> HIDE DEF R
    <2> QED  BY <1>2, SeqMonotonic
<1>4. a \in Seq(R) /\ Len(a) = p
    <2> HIDE DEF R
    <2> QED  BY <1>1, RunValues
<1>5. c \in Seq(R) /\ Len(c) = p + Len(b)
    <2> HIDE DEF R
    <2> QED  BY <1>1, <1>0, RunValues
<1>6. \A k \in 1..p : a[k] = V[k]
    BY DEF Stretch
<1>7. \A k \in 1..(p + Len(b)) : c[k] = V[k]
    BY DEF Stretch
<1> HIDE DEF a, c, R
<1>8. /\ a \o b \in Seq(R) /\ Len(a \o b) = p + Len(b)
      /\ \A k \in 1..(p + Len(b)) : (a \o b)[k] = IF k <= p THEN a[k] ELSE b[k - p]
    BY <1>3, <1>4, ConcatProperties
<1>9. ASSUME NEW k \in 1..(p + Len(b))
      PROVE  (a \o b)[k] = c[k]
    <2>0. k \in Int /\ p \in Int
        BY <1>0
    <2>1. CASE k <= p
        BY <2>1, <1>6, <1>7, <1>8, <1>0
    <2>2. CASE k > p
        <3>1. k - p \in 1..Len(b) /\ p + (k - p) = k
            BY <2>2, <1>0
        <3>2. b[k - p] = V[p + (k - p)]
            BY <3>1
        <3> QED  BY <3>1, <3>2, <2>2, <1>7, <1>8
    <2>3. k <= p \/ k > p
        BY <2>0
    <2> QED  BY <2>1, <2>2, <2>3, Zenon
<1>10. a \o b = c
    BY <1>5, <1>8, <1>9, SeqEqual
<1> QED
    BY <1>10 DEF a, c

\* Each of the sequences goes on where the numbering stopped at the one before.
GoesOn(s, T, P, V) ==
    /\ s \in Seq(Seq(T)) /\ P[1] = 0
    /\ \A i \in 1..Len(s) :
          /\ P[i] \in Nat /\ P[i + 1] = P[i] + Len(s[i])
          /\ \A k \in 1..Len(s[i]) : s[i][k] = V[P[i] + k]

LEMMA FlattenRun ==
    ASSUME NEW s, NEW n \in Nat, n = Len(s), NEW P, NEW V, NEW T, GoesOn(s, T, P, V)
    PROVE  FlattenSeq(s) = Stretch(V, P[n + 1])
<1> DEFINE f == [i \in 1..n |-> Stretch(V, P[i + 1])]
<1>1. CASE n = 0
    <2>1. FlattenSeq(s) = s
        BY <1>1 DEF FlattenSeq
    <2>2. s \in Seq(Seq(T)) /\ P[1] = 0
        BY DEF GoesOn
    <2>5. Len(s) = 0
        BY <1>1
    <2>3. s = <<>>
        BY ONLY <2>2, <2>5, EmptySeq
    <2>4. Stretch(V, 0) = <<>>
        BY DEF Stretch
    <2> QED  BY <2>1, <2>2, <2>3, <2>4, <1>1
<1>2. CASE n # 0
    <2>1. ASSUME NEW i \in 1..n
          PROVE  f[i] = IF i = 1 THEN s[i] ELSE f[i - 1] \o s[i]
        <3>0. /\ s[i] \in Seq(T) /\ Len(s[i]) \in Nat /\ P[i] \in Nat
              /\ P[i + 1] = P[i] + Len(s[i]) /\ P[1] = 0
            BY DEF GoesOn
        <3>1. f[i] = Stretch(V, P[i + 1])
            OBVIOUS
        <3>2. \A k \in 1..Len(s[i]) : s[i][k] = V[P[i] + k]
            BY Zenon DEF GoesOn
        <3>3. Stretch(V, P[i]) \o s[i] = Stretch(V, P[i] + Len(s[i]))
            <4>1. P[i] \in Nat /\ s[i] \in Seq(T)
                BY <3>0
            <4> QED  BY ONLY <4>1, <3>2, RunOn, Zenon
        <3>4. CASE i = 1
            <4>1. f[i] = Stretch(V, 0) \o s[i]
                <5> HIDE DEF f
                <5> QED  BY <3>0, <3>1, <3>3, <3>4
            <4>2. Stretch(V, 0) = <<>>
                BY DEF Stretch
            <4>3. <<>> \o s[i] = s[i]
                BY <3>0, ConcatEmptySeq
            <4> HIDE DEF f
            <4> QED  BY <3>4, <4>1, <4>2, <4>3
        <3>5. CASE i # 1
            <4>1. i - 1 \in 1..n /\ (i - 1) + 1 = i
                BY <3>5
            <4>2. f[i - 1] = Stretch(V, P[i])
                BY <4>1
            <4> HIDE DEF f
            <4> QED  BY <3>0, <3>1, <3>3, <3>5, <4>2
        <3> QED  BY <3>4, <3>5
    <2>2. f = [i \in 1..n |-> f[i]]
        OBVIOUS
    <2>3. n \in Nat \ {0} /\ Len(s) = n
        BY <1>2
    <2>4. FlattenSeq(s) = f[n]
        <3> HIDE DEF f
        <3>1. Flattens(f, s, n)
            BY <2>1, <2>2 DEF Flattens
        <3> QED  BY ONLY <3>1, <2>3, FlattenIs
    <2>5. n \in 1..n
        BY <2>3
    <2> QED  BY <2>4, <2>5
<1> QED
    BY <1>1, <1>2
---------------------------------------------------------------------------
(* The lists, and the buffers in them.                                     *)

Longer(a, q, e, n, T) ==
    /\ a \in Seq(T) /\ Len(a) = n + 1 /\ a # <<>>
    /\ \A i \in 1..n : a[i] = q[i]
    /\ a[n + 1] = e

LEMMA Appended ==
    ASSUME NEW T, NEW q \in Seq(T), NEW e \in T, NEW n, Len(q) = n
    PROVE  Longer(Append(q, e), q, e, n, T)
    BY AppendProperties DEF Longer

LEMMA Joined ==
    ASSUME NEW N \in Nat, NEW t \in Seq(1..N), NEW s \in Seq(1..N), Len(t) + Len(s) = N
    PROVE  /\ t \o s \in Seq(1..N) /\ Len(t \o s) = N
           /\ \A i \in 1..Len(t) : i \in 1..N /\ (t \o s)[i] = t[i]
           /\ \A i \in 1..Len(s) : Len(t) + i \in 1..N /\ (t \o s)[Len(t) + i] = s[i]
           /\ \A i \in 1..N : (t \o s)[i] \in 1..N
<1>1. /\ t \o s \in Seq(1..N) /\ Len(t \o s) = Len(t) + Len(s)
      /\ \A i \in 1..(Len(t) + Len(s)) : (t \o s)[i] = IF i <= Len(t) THEN t[i] ELSE s[i - Len(t)]
    BY ConcatProperties
<1>2. Len(t) \in Nat /\ Len(s) \in Nat
    OBVIOUS
<1>3. ASSUME NEW i \in 1..Len(t)
      PROVE  i \in 1..N /\ (t \o s)[i] = t[i]
    BY <1>1, <1>2
<1>4. ASSUME NEW i \in 1..Len(s)
      PROVE  Len(t) + i \in 1..N /\ (t \o s)[Len(t) + i] = s[i]
    <2>1. Len(t) + i \in 1..N /\ ~(Len(t) + i <= Len(t)) /\ (Len(t) + i) - Len(t) = i
        BY <1>2
    <2> QED  BY <2>1, <1>1
<1>5. ASSUME NEW i \in 1..N
      PROVE  (t \o s)[i] \in 1..N
    BY <1>1, ElementOfSeq
<1> QED
    BY <1>1, <1>3, <1>4, <1>5

LEMMA ListsType ==
    ASSUME SdioAssumption, SdioInv
    PROVE  /\ Bufs \in Nat \ {0} /\ BufSize \in Nat \ {0} /\ Count \in Nat \ {0}
           /\ tosend \in Seq(1..Bufs) /\ sended \in Seq(1..Bufs)
           /\ Len(tosend) \in Nat /\ Len(sended) \in Nat /\ Len(tosend) + Len(sended) = Bufs
           /\ \A i \in 1..Len(tosend) : i \in 1..Bufs /\ Lists[i] = tosend[i] /\ tosend[i] \in 1..Bufs
           /\ \A i \in 1..Len(sended) : /\ Len(tosend) + i \in 1..Bufs
                                         /\ Lists[Len(tosend) + i] = sended[i] /\ sended[i] \in 1..Bufs
           /\ \A i \in 1..Bufs : Lists[i] \in 1..Bufs
<1>1. /\ Bufs \in Nat \ {0} /\ BufSize \in Nat \ {0} /\ Count \in Nat \ {0}
    BY DEF SdioAssumption
<1>2. tosend \in Seq(1..Bufs) /\ sended \in Seq(1..Bufs)
    BY DEF SdioInv, SdioTypeOK
<1>3. Len(tosend) + Len(sended) = Bufs
    BY DEF SdioInv, Complete
<1>4. Len(tosend) \in Nat /\ Len(sended) \in Nat
    BY <1>2
<1>5. /\ \A i \in 1..Len(tosend) : i \in 1..Bufs /\ Lists[i] = tosend[i]
      /\ \A i \in 1..Len(sended) : Len(tosend) + i \in 1..Bufs /\ Lists[Len(tosend) + i] = sended[i]
      /\ \A i \in 1..Bufs : Lists[i] \in 1..Bufs
    <2>1. Bufs \in Nat
        BY <1>1
    <2>2. Lists = tosend \o sended
        BY Zenon DEF Lists
    <2> QED  BY ONLY <1>2, <1>3, <2>1, <2>2, Joined
<1>6. /\ \A i \in 1..Len(tosend) : tosend[i] \in 1..Bufs
      /\ \A i \in 1..Len(sended) : sended[i] \in 1..Bufs
    BY <1>2, ElementOfSeq
<1> QED
    BY <1>1, <1>2, <1>3, <1>4, <1>5, <1>6

LEMMA BufferType ==
    ASSUME SdioAssumption, SdioInv, NEW b \in 1..Bufs
    PROVE  /\ b \in DOMAIN buffer /\ buffer[b] \in Seq(0..(Count - 1))
           /\ Len(buffer[b]) \in Nat /\ Len(buffer[b]) <= BufSize
<1>1. buffer[b] \in Seq(0..(Count - 1)) /\ Len(buffer[b]) <= BufSize /\ DOMAIN buffer = 1..Bufs
    BY DEF SdioInv, SdioTypeOK
<1> QED
    BY <1>1

\* Every buffer is in one place of the lists, of one of them.
LEMMA ListsApart ==
    ASSUME SdioAssumption, SdioInv
    PROVE  /\ \A i, j \in 1..Len(sended) : sended[i] = sended[j] => i = j
           /\ \A i, j \in 1..Len(tosend) : tosend[i] = tosend[j] => i = j
           /\ \A i \in 1..Len(tosend), j \in 1..Len(sended) : tosend[i] # sended[j]
           /\ \A b \in 1..Bufs : \/ \E i \in 1..Len(tosend) : tosend[i] = b
                                 \/ \E i \in 1..Len(sended) : sended[i] = b
<1>1. Apart /\ Complete
    BY DEF SdioInv
<1>2. /\ Len(tosend) \in Nat /\ Len(sended) \in Nat /\ Len(tosend) + Len(sended) = Bufs
      /\ \A i \in 1..Len(tosend) : i \in 1..Bufs /\ Lists[i] = tosend[i]
      /\ \A i \in 1..Len(sended) : Len(tosend) + i \in 1..Bufs /\ Lists[Len(tosend) + i] = sended[i]
    BY ListsType
<1>3. ASSUME NEW i \in 1..Len(sended), NEW j \in 1..Len(sended), sended[i] = sended[j]
      PROVE  i = j
    <2>1. Len(tosend) + i = Len(tosend) + j
        BY <1>1, <1>2, <1>3 DEF Apart
    <2> QED  BY <1>2, <2>1
<1>4. ASSUME NEW i \in 1..Len(tosend), NEW j \in 1..Len(tosend), tosend[i] = tosend[j]
      PROVE  i = j
    BY <1>1, <1>2, <1>4 DEF Apart
<1>5. ASSUME NEW i \in 1..Len(tosend), NEW j \in 1..Len(sended), tosend[i] = sended[j]
      PROVE  FALSE
    <2>1. i = Len(tosend) + j
        BY <1>1, <1>2, <1>5 DEF Apart
    <2> QED  BY <1>2, <2>1
<1>6. ASSUME NEW b \in 1..Bufs
      PROVE  \/ \E i \in 1..Len(tosend) : tosend[i] = b
             \/ \E i \in 1..Len(sended) : sended[i] = b
    <2>1. PICK i \in 1..Bufs : Lists[i] = b
        BY <1>1 DEF Complete
    <2>2. CASE i <= Len(tosend)
        BY <1>2, <2>1, <2>2
    <2>3. CASE i > Len(tosend)
        <3>1. i - Len(tosend) \in 1..Len(sended) /\ Len(tosend) + (i - Len(tosend)) = i
            BY <1>2, <2>3
        <3> QED  BY <1>2, <2>1, <3>1
    <2> QED  BY <1>2, <2>2, <2>3
<1> QED
    BY <1>3, <1>4, <1>5, <1>6

\* Places follow one another.
LEMMA PlaceType ==
    ASSUME SdioAssumption, SdioInv
    PROVE  /\ First \in Nat /\ First <= BufSize
           /\ Place(1) = 0 /\ Place(2) = First
           /\ \A i \in Nat \ {0} : Place(i) \in Nat
           /\ \A i \in Nat \ {0, 1} : Place(i + 1) = Place(i) + BufSize
<1>1. /\ Bufs \in Nat \ {0} /\ BufSize \in Nat \ {0}
      /\ \A i \in 1..Bufs : Lists[i] \in 1..Bufs
    BY ListsType
<1>2. 1 \in 1..Bufs /\ Lists[1] \in 1..Bufs
    BY <1>1
<1>3. First \in Nat /\ First <= BufSize
    BY <1>1, <1>2, BufferType DEF First
<1>4. Place(1) = 0
    BY DEF Place
<1>5. 0 * BufSize = 0 /\ 2 - 2 = 0
    BY <1>1
<1>6. Place(2) = First
    BY <1>3, <1>5 DEF Place
<1>7. ASSUME NEW i \in Nat \ {0}
      PROVE  Place(i) \in Nat
    <2>1. CASE i = 1
        BY <2>1, <1>4
    <2>2. CASE i # 1
        <3>1. i - 2 \in Int /\ i - 2 >= 0
            BY <2>2
        <3>2. (i - 2) * BufSize \in Int /\ (i - 2) * BufSize >= 0
            BY <3>1, <1>1, Times
        <3> QED  BY <3>2, <1>3, <2>2 DEF Place
    <2> QED  BY <2>1, <2>2
<1>8. ASSUME NEW i \in Nat \ {0, 1}
      PROVE  Place(i + 1) = Place(i) + BufSize
    <2>1. i - 2 \in Int /\ (i + 1) - 2 = (i - 2) + 1 /\ i # 1 /\ i + 1 # 1
        OBVIOUS
    <2>2. ((i - 2) + 1) * BufSize = (i - 2) * BufSize + BufSize /\ (i - 2) * BufSize \in Int
        BY <2>1, <1>1, Times
    <2> QED  BY <1>1, <1>3, <2>1, <2>2 DEF Place
<1> QED
    BY <1>3, <1>4, <1>6, <1>7, <1>8
---------------------------------------------------------------------------
(* The steps that leave the lists alone.                                   *)

ListsKept == UNCHANGED <<tosend, sended, buffer, sdio_taken, sdio_due, sdio_told, sdio_read>>

LEMMA KeptStep ==
    ASSUME SdioInv, ListsKept, Chaining => Chaining', SdioTypeOK', Links', Loading'
    PROVE  SdioInv'
<1>1. /\ tosend' = tosend /\ sended' = sended /\ buffer' = buffer /\ sdio_read' = sdio_read
      /\ sdio_taken' = sdio_taken /\ sdio_due' = sdio_due /\ sdio_told' = sdio_told
    BY DEF ListsKept
<1>2. Lists' = Lists
    BY <1>1 DEF Lists
<1>3. First' = First
    BY <1>1, <1>2, Zenon DEF First, ToCome
<1>4. Complete' /\ Apart'
    BY <1>1, <1>2, Zenon DEF SdioInv, Complete, Apart
<1>5. Shape'
    BY <1>1, Zenon DEF SdioInv, Shape
<1>6. Bytes'
    <2>1. Bytes
        BY DEF SdioInv
    <2> QED  BY <1>1, <1>2, <1>3, <2>1, Zenon DEF Bytes, Place, ToCome
<1>7. sdio_taken' = Number(sdio_due' + Total')
    <2>1. sdio_taken = Number(sdio_due + Total)
        BY DEF SdioInv
    <2> QED  BY <1>1, <1>3, <2>1, Zenon DEF Total, Place, Filling
<1>8. sdio_told' /\ DOMAIN buffer' = 1..Bufs
    BY <1>1, Zenon DEF SdioInv
<1> QED
    BY <1>4, <1>5, <1>6, <1>7, <1>8, Zenon DEF SdioInv

\* The load and the handler stay where they are, or the handler goes on and the
\* callback does not load.
LoadKept ==
    /\ UNCHANGED <<load, tosend, sended, buffer>>
    /\ sdio_at' = sdio_at \/ load["callback"].at = "none"

LEMMA LoadingKept ==
    ASSUME SdioInv, LoadKept
    PROVE  Loading' /\ (Chaining => Chaining')
<1>1. load' = load /\ tosend' = tosend /\ sended' = sended /\ buffer' = buffer
    BY DEF LoadKept
<1>2. Loading
    BY DEF SdioInv
<1>3. \A w \in Loaders : Relies(w)'
    BY <1>1, <1>2, Zenon DEF Loading, Relies
<1>4. load'["callback"].at # "none" => sdio_at' = "callback" /\ Idle("task")'
    BY <1>1, <1>2, Zenon DEF Loading, Idle, LoadKept
<1>5. Chaining => Chaining'
    BY <1>1, Zenon DEF Chaining
<1> QED
    BY <1>3, <1>4, <1>5, Zenon DEF Loading

LEMMA HostWritesStep ==
    ASSUME SdioAssumption, SdioInv, HostWrites
    PROVE  SdioInv'
<1>1. ListsKept /\ LoadKept
    BY Zenon DEF HostWrites, ListsKept, LoadKept, lists, history
<1>2. SdioTypeOK'
    BY DEF SdioInv, SdioTypeOK, HostWrites, lists, history
<1>3. Links'
    <2>1. Links
        BY DEF SdioInv
    <2> QED  BY <2>1 DEF Links, HostWrites, lists, history
<1> QED
    BY <1>1, <1>2, <1>3, KeptStep, LoadingKept

LEMMA HandleDoneStep ==
    ASSUME SdioAssumption, SdioInv, HandleDone
    PROVE  SdioInv'
<1>1. ListsKept /\ LoadKept
    BY Zenon DEF HandleDone, ListsKept, LoadKept, lists, history
<1>2. SdioTypeOK'
    BY DEF SdioInv, SdioTypeOK, HandleDone, lists, history
<1>3. Links'
    <2>1. Links /\ SdioTypeOK
        BY DEF SdioInv
    <2>2. sdio_status'.rx_length = sdio_status.rx_length
        BY <2>1 DEF SdioTypeOK, HandleDone
    <2> QED  BY <2>1, <2>2 DEF Links, HandleDone, lists, history
<1> QED
    BY <1>1, <1>2, <1>3, KeptStep, LoadingKept

LEMMA IsrEndStep ==
    ASSUME SdioAssumption, SdioInv, IsrEnd
    PROVE  SdioInv'
<1>1. ListsKept /\ LoadKept
    <2>1. load["callback"].at = "none"
        BY DEF SdioInv, Loading, IsrEnd
    <2> QED  BY <2>1, Zenon DEF IsrEnd, ListsKept, LoadKept, lists, history
<1>2. SdioTypeOK'
    BY DEF SdioInv, SdioTypeOK, IsrEnd, lists, history
<1>3. Links'
    <2>1. Links
        BY DEF SdioInv
    <2> QED  BY <2>1 DEF Links, IsrEnd, lists, history
<1> QED
    BY <1>1, <1>2, <1>3, KeptStep, LoadingKept

LEMMA TearsStep ==
    ASSUME SdioAssumption, SdioInv, Tears
    PROVE  SdioInv'
<1>1. ListsKept /\ LoadKept
    BY Zenon DEF Tears, ListsKept, LoadKept, lists, history
<1>2. SdioTypeOK'
    BY DEF SdioInv, SdioTypeOK, Tears, lists, history
<1>3. Links'
    <2>1. Links
        BY DEF SdioInv
    <2> QED  BY <2>1 DEF Links, Tears, lists, history
<1> QED
    BY <1>1, <1>2, <1>3, KeptStep, LoadingKept

LEMMA Stutter ==
    ASSUME SdioInv, UNCHANGED sdioVars
    PROVE  SdioInv'
<1>1. ListsKept /\ LoadKept
    BY Zenon DEF sdioVars, ListsKept, LoadKept, lists, history
<1>2. SdioTypeOK' /\ Links'
    BY DEF SdioInv, SdioTypeOK, Links, sdioVars, lists, history
<1> QED
    BY <1>1, <1>2, KeptStep, LoadingKept

---------------------------------------------------------------------------
(* The start.                                                              *)

LEMMA InitHolds ==
    ASSUME SdioAssumption, SdioInit
    PROVE  SdioInv
<1>1. /\ Bufs \in Nat \ {0} /\ BufSize \in Nat \ {0} /\ Count \in Nat \ {0}
    BY DEF SdioAssumption
<1>2. /\ tosend = <<>> /\ sended = [i \in 1..Bufs |-> i]
      /\ buffer = [i \in 1..Bufs |-> <<>>]
    BY DEF SdioInit
<1>3. /\ sended \in Seq(1..Bufs) /\ Len(sended) = Bufs /\ tosend \in Seq(1..Bufs) /\ Len(tosend) = 0
      /\ \A i \in 1..Bufs : sended[i] = i
    BY <1>1, <1>2
<1>4. \A b \in 1..Bufs : buffer[b] = <<>>
    BY <1>2
<1>5. /\ \A i \in 1..Bufs : Lists[i] = i
    <2>1. Lists = sended
        BY <1>2, <1>3, ConcatEmptySeq DEF Lists
    <2> QED  BY <2>1, <1>3
<1>6. SdioTypeOK
    <2>1. <<>> \in Seq(0..(Count - 1)) /\ Len(<<>>) = 0
        OBVIOUS
    <2>2. /\ tosend \in Seq(1..Bufs) /\ sended \in Seq(1..Bufs)
          /\ \A b \in 1..Bufs : buffer[b] \in Seq(0..(Count - 1)) /\ Len(buffer[b]) <= BufSize
        <3>1. ASSUME NEW b \in 1..Bufs
              PROVE  buffer[b] \in Seq(0..(Count - 1)) /\ Len(buffer[b]) <= BufSize
            <4>1. buffer[b] = <<>>
                BY <1>4
            <4>2. Len(buffer[b]) <= BufSize
                BY <1>1, <2>1, <4>1
            <4> QED  BY <2>1, <4>1, <4>2, Zenon
        <3> QED  BY <1>3, <3>1
    <2>3. /\ has_read \in BOOLEAN /\ rxlink \in BOOLEAN /\ txlink \in BOOLEAN
          /\ sdio_told \in BOOLEAN /\ sdio_at \in {"none", "callback", "end"}
          /\ sdio_int_st \subseteq {"RX_EOF", "TX_EOF"}
          /\ sdio_read \in BOOLEAN /\ stopped \in BOOLEAN /\ torn \in BOOLEAN
        BY DEF SdioInit
    <2>4. sdio_status \in [wr_busy : BOOLEAN, rx_length : 0..BufSize,
                     intr_no : SUBSET {"RX_AVAILIBLE", "TX_AVAILIBLE"}]
        BY <1>1 DEF SdioInit
    <2>5. sdio_taken \in 0..(Count - 1) /\ sdio_due \in 0..(Count - 1)
        BY <1>1 DEF SdioInit
    <2>6. load \in [Loaders -> [at : {"none", "between", "copies", "chains", "closes", "offers"},
                               todo : 0..MaxLoad]]
        BY DEF SdioInit, SdioAssumption
    <2> QED  BY <2>2, <2>3, <2>4, <2>5, <2>6, Zenon DEF SdioTypeOK
<1>7. Complete /\ Apart
    BY <1>1, <1>3, <1>5 DEF Complete, Apart
<1>8. Links /\ Loading
    <2>1. \A w \in Loaders : load[w].at = "none"
        BY DEF SdioInit
    <2> QED  BY <1>3, <2>1 DEF Links, SdioInit, Loading, Relies, Loaders
<1>9. Shape
    BY <1>1, <1>3, <1>4 DEF Shape
<1>10. Bytes
    BY <1>4, <1>5 DEF Bytes
<1>11. sdio_taken = Number(sdio_due + Total)
    <2>1. 0 % Count = 0
        <3>1. 0 = Count * 0 + 0 /\ 0 \in 0..(Count - 1)
            BY <1>1
        <3> QED  BY <3>1, <1>1, RemainderIs
    <2>2. Filling = 0 /\ Place(Len(tosend) + 1) = 0
        BY <1>1, <1>3, <1>4 DEF Filling, Place
    <2>3. sdio_taken = 0 /\ sdio_due = 0
        BY DEF SdioInit
    <2> QED  BY <2>1, <2>2, <2>3 DEF Total, Number
<1>12. sdio_told /\ DOMAIN buffer = 1..Bufs
    BY <1>2 DEF SdioInit
<1> QED
    BY <1>6, <1>7, <1>8, <1>9, <1>10, <1>11, <1>12, Zenon DEF SdioInv
---------------------------------------------------------------------------
(* The host reads.                                                         *)

LEMMA HostReadsStep ==
    ASSUME SdioAssumption, SdioInv, HostReads
    PROVE  SdioInv'
<1> DEFINE L == Len(buffer[tosend[1]])
<1>1. /\ rxlink /\ rxlink' = FALSE /\ sdio_int_st' = sdio_int_st \union {"RX_EOF"} /\ sdio_read' = TRUE
      /\ tosend' = tosend /\ sended' = sended /\ buffer' = buffer /\ has_read' = has_read /\ load' = load
      /\ txlink' = txlink /\ sdio_status' = sdio_status /\ sdio_at' = sdio_at /\ sdio_taken' = sdio_taken
      /\ stopped' = stopped /\ torn' = torn
    BY DEF HostReads, lists
<1>2. /\ tosend # <<>> /\ ~sdio_read /\ sdio_status.rx_length = L
    BY <1>1 DEF SdioInv, Links
<1>3. Len(tosend) \in Nat /\ Len(tosend) >= 1
    BY <1>2, ListsType, EmptySeq
<1>4. Lists[1] = tosend[1] /\ tosend[1] \in 1..Bufs /\ 1 \in 1..Bufs
    BY <1>3, ListsType
<1>5. buffer[tosend[1]] \in Seq(0..(Count - 1)) /\ L \in Nat /\ L <= BufSize
    BY <1>4, BufferType
<1>6. ToCome /\ First = L
    BY <1>2, <1>4, Zenon DEF ToCome, First
<1>7. SubSeq(buffer[Head(tosend)], 1, sdio_status.rx_length) = buffer[tosend[1]]
    <2>1. Head(tosend) = tosend[1]
        OBVIOUS
    <2> QED  BY <1>2, <1>5, <2>1, SubSeqFull
<1>8. sdio_due \in Int /\ sdio_due \in 0..(Count - 1) /\ sdio_told
    BY DEF SdioInv, SdioTypeOK
<1>9. \A k \in 1..L : buffer[tosend[1]][k] = Number(sdio_due + k - 1)
    <2>1. ASSUME NEW k \in 1..L
          PROVE  buffer[tosend[1]][k] = Number(sdio_due + k - 1)
        <3>1. Bytes
            BY DEF SdioInv
        <3>2. buffer[tosend[1]][k] = Number(sdio_due + (Place(1) + (k - 1)))
            BY <1>4, <1>6, <3>1 DEF Bytes
        <3>3. sdio_due + (Place(1) + (k - 1)) = sdio_due + k - 1
            BY <1>8 DEF Place
        <3> QED  BY <3>2, <3>3
    <2> QED  BY <2>1
<1>10. buffer[tosend[1]] = Run(sdio_due, L)
    <2>1. buffer[tosend[1]] = [k \in 1..L |-> buffer[tosend[1]][k]]
        BY <1>5
    <2> QED  BY <1>9, <2>1 DEF Run
<1>11. sdio_due' = Number(sdio_due + L) /\ sdio_told'
    BY <1>7, <1>8, <1>10 DEF HostReads
<1>12. sdio_due' \in 0..(Count - 1) /\ sdio_due' \in Int
    <2>1. sdio_due + L \in Int
        BY <1>5, <1>8
    <2>2. Number(sdio_due + L) \in 0..(Count - 1) /\ Number(sdio_due + L) \in Int
        BY <2>1, NumberType, Zenon
    <2> QED  BY <2>2, <1>11, Zenon
<1> HIDE DEF L
<1>13. ~ToCome' /\ First' = 0
    BY <1>1, <1>2, Zenon DEF ToCome, First
<1>14. \A i \in Nat \ {0, 1} : /\ Place(i) \in Nat /\ Place(i)' \in Int
                                /\ Place(i) = L + Place(i)'
    <2>1. ASSUME NEW i \in Nat \ {0, 1}
          PROVE  /\ Place(i) \in Nat /\ Place(i)' \in Int /\ Place(i) = L + Place(i)'
        <3>1. (i - 2) * BufSize \in Int
            BY ListsType
        <3>2. Place(i)' = 0 + (i - 2) * BufSize
            BY <1>13 DEF Place
        <3>3. Place(i) = L + (i - 2) * BufSize
            BY <1>6 DEF Place
        <3>4. Place(i) \in Nat
            BY PlaceType
        <3> QED  BY <1>5, <3>1, <3>2, <3>3, <3>4
    <2> QED  BY <2>1
<1>15. Lists' = Lists
    BY <1>1 DEF Lists
<1>16. Complete' /\ Apart' /\ Shape'
    BY <1>1, <1>15, Zenon DEF SdioInv, Complete, Apart, Shape, Chaining
<1>17. Links' /\ Loading'
    <2>1. LoadKept
        BY <1>1, Zenon DEF LoadKept
    <2> QED  BY <1>1, <1>2, <2>1, LoadingKept DEF Links
<1>18. Bytes'
    <2>1. ASSUME NEW i \in 1..Bufs, i # 1, NEW k \in 1..Len(buffer[Lists[i]])
          PROVE  buffer[Lists[i]][k] = Number(sdio_due' + (Place(i)' + (k - 1)))
        <3>1. buffer[Lists[i]][k] = Number(sdio_due + (Place(i) + (k - 1)))
            BY <2>1, Zenon DEF SdioInv, Bytes
        <3>2. i \in Nat \ {0, 1} /\ k - 1 \in Int
            BY <2>1, ListsType
        <3>3. Place(i)' \in Int /\ Place(i) = L + Place(i)'
            BY <3>2, <1>14
        <3>4. sdio_due + L \in Int /\ Place(i)' + (k - 1) \in Int
            BY <1>5, <1>8, <3>2, <3>3
        <3>5. Number(Number(sdio_due + L) + (Place(i)' + (k - 1))) = Number((sdio_due + L) + (Place(i)' + (k - 1)))
            BY <3>4, NumberOn
        <3>6. (sdio_due + L) + (Place(i)' + (k - 1)) = sdio_due + (Place(i) + (k - 1))
            BY <1>5, <1>8, <3>2, <3>3
        <3> QED  BY <1>11, <3>1, <3>5, <3>6
    <2> QED  BY <1>1, <1>13, <1>15, <2>1, Zenon DEF Bytes
<1>19. sdio_taken' = Number(sdio_due' + Total')
    <2>1. sdio_taken = Number(sdio_due + Total)
        BY DEF SdioInv
    <2>4. PICK e \in Nat \ {0, 1} : e = Len(tosend) + 1
        BY <1>3
    <2>2. Filling' = Filling /\ Total' = Place(e)' + Filling' /\ Total = Place(e) + Filling
        BY <1>1, <2>4, Zenon DEF Filling, Total, Place
    <2>3. Filling \in Int
        BY ListsType, BufferType, EmptySeq DEF Filling
    <2>5. Place(e)' \in Int /\ Place(e) = L + Place(e)'
        BY <1>14, <2>4
    <2>6. Number(Number(sdio_due + L) + Total') = Number((sdio_due + L) + Total')
        BY <1>5, <1>8, <2>2, <2>3, <2>5, NumberOn
    <2>7. (sdio_due + L) + Total' = sdio_due + Total
        BY <1>5, <1>8, <2>2, <2>3, <2>5
    <2> QED  BY <1>1, <1>11, <2>1, <2>6, <2>7
<1>20. SdioTypeOK'
    BY <1>1, <1>11, <1>12, Zenon DEF SdioInv, SdioTypeOK
<1>21. DOMAIN buffer' = 1..Bufs
    BY <1>1, Zenon DEF SdioInv
<1> QED
    BY <1>11, <1>16, <1>17, <1>18, <1>19, <1>20, <1>21, Zenon DEF SdioInv
---------------------------------------------------------------------------
(* A buffer has been read: it goes behind the free ones.                   *)

Register == [wr_busy : BOOLEAN, rx_length : 0..BufSize,
             intr_no : SUBSET {"RX_AVAILIBLE", "TX_AVAILIBLE"}]

\* The first of the lists has become their last.
Turned == \A i \in 1..Bufs : Lists'[i] = IF i < Bufs THEN Lists[i + 1] ELSE Lists[1]

LEMMA Offered ==
    ASSUME NEW before \in Register, NEW n \in 0..BufSize, n # 0, rx_buff_load_done(before, n)
    PROVE  sdio_status' \in Register /\ sdio_status'.rx_length = n /\ rxlink'
<1>1. sdio_status' = [before EXCEPT !.intr_no = @ \union {"RX_AVAILIBLE"}, !.rx_length = n] /\ rxlink' = TRUE
    BY DEF rx_buff_load_done
<1> QED
    BY <1>1 DEF Register

LEMMA TurnedKept ==
    ASSUME SdioAssumption, SdioInv, Len(tosend') + Len(sended') = Bufs, Turned
    PROVE  Complete' /\ Apart'
<1>1. Bufs \in Nat \ {0}
    BY ListsType
<1>2. Apart /\ \A b \in 1..Bufs : \E i \in 1..Bufs : Lists[i] = b
    BY DEF SdioInv, Complete
<1>3. ASSUME NEW b \in 1..Bufs
      PROVE  \E i \in 1..Bufs : Lists'[i] = b
    <2>1. PICK i \in 1..Bufs : Lists[i] = b
        BY <1>2
    <2>2. CASE i = 1
        BY <1>1, <2>1, <2>2 DEF Turned
    <2>3. CASE i # 1
        <3>1. i - 1 \in 1..Bufs /\ i - 1 < Bufs /\ (i - 1) + 1 = i
            BY <1>1, <2>3
        <3> QED  BY <2>1, <3>1 DEF Turned
    <2> QED  BY <2>2, <2>3
<1>4. ASSUME NEW i \in 1..Bufs, NEW j \in 1..Bufs, Lists'[i] = Lists'[j]
      PROVE  i = j
    <2>1. /\ i < Bufs => i + 1 \in 1..Bufs /\ i + 1 # 1
          /\ j < Bufs => j + 1 \in 1..Bufs /\ j + 1 # 1
          /\ 1 \in 1..Bufs
        BY <1>1
    <2>2. CASE i < Bufs /\ j < Bufs
        <3>1. i + 1 = j + 1
            BY <1>2, <1>4, <2>1, <2>2 DEF Turned, Apart
        <3> QED  BY <3>1
    <2>3. CASE ~(i < Bufs) /\ ~(j < Bufs)
        BY <1>1, <2>3
    <2>4. CASE i < Bufs /\ ~(j < Bufs)
        BY <1>2, <1>4, <2>1, <2>4 DEF Turned, Apart
    <2>5. CASE ~(i < Bufs) /\ j < Bufs
        BY <1>2, <1>4, <2>1, <2>5 DEF Turned, Apart
    <2> QED  BY <2>2, <2>3, <2>4, <2>5
<1>5. Apart'
    BY <1>4, Zenon DEF Apart
<1>6. Complete'
    <2>1. \A b \in 1..Bufs : \E i \in 1..Bufs : Lists'[i] = b
        BY <1>3
    <2> QED  BY <2>1, Zenon DEF Complete
<1> QED
    BY <1>5, <1>6

\* What the handler knows when it has a buffer that was read.
LEMMA WasRead ==
    ASSUME SdioAssumption, SdioInv, "RX_EOF" \in sdio_int_st
    PROVE  /\ ~rxlink /\ sdio_read /\ First = 0
           /\ Len(tosend) \in Nat /\ Len(tosend) >= 1 /\ tosend # <<>>
           /\ tosend[1] \in 1..Bufs /\ Lists[1] = tosend[1] /\ 1 \in 1..Bufs
<1>1. ~rxlink /\ sdio_read /\ tosend # <<>>
    BY DEF SdioInv, Links
<1>2. First = 0
    BY <1>1, Zenon DEF First, ToCome
<1>3. Len(tosend) \in Nat /\ Len(tosend) >= 1
    BY <1>1, ListsType, EmptySeq
<1> QED
    BY <1>1, <1>2, <1>3, ListsType

\* The buffers once the first is empty.
LEMMA Cleaned ==
    ASSUME SdioAssumption, SdioInv, "RX_EOF" \in sdio_int_st,
           buffer' = [buffer EXCEPT ![tosend[1]] = <<>>]
    PROVE  /\ DOMAIN buffer' = 1..Bufs
           /\ Len(buffer'[tosend[1]]) = 0 /\ buffer'[tosend[1]] = <<>>
           /\ \A b \in 1..Bufs : /\ buffer'[b] = (IF b = tosend[1] THEN <<>> ELSE buffer[b])
                                  /\ buffer'[b] \in Seq(0..(Count - 1)) /\ Len(buffer'[b]) <= BufSize
           /\ \A i \in 2..Len(tosend) : buffer'[tosend[i]] = buffer[tosend[i]]
           /\ \A i \in 1..Len(sended) : buffer'[sended[i]] = buffer[sended[i]]
<1>1. DOMAIN buffer = 1..Bufs /\ tosend[1] \in 1..Bufs /\ BufSize \in Nat
    BY WasRead, ListsType DEF SdioInv
<1>2. DOMAIN buffer' = 1..Bufs
    BY <1>1
<1>3. \A b \in 1..Bufs : buffer'[b] = IF b = tosend[1] THEN <<>> ELSE buffer[b]
    BY <1>1
<1>4. <<>> \in Seq(0..(Count - 1)) /\ Len(<<>>) = 0
    OBVIOUS
<1>5. ASSUME NEW b \in 1..Bufs
      PROVE  buffer'[b] \in Seq(0..(Count - 1)) /\ Len(buffer'[b]) <= BufSize
    <2>1. buffer[b] \in Seq(0..(Count - 1)) /\ Len(buffer[b]) <= BufSize
        BY BufferType
    <2>2. CASE b = tosend[1]
        <3>1. buffer'[b] = <<>>
            BY <1>3, <2>2
        <3>2. 0 <= BufSize
            BY <1>1
        <3> QED  BY <3>1, <3>2, <1>4, Zenon
    <2>3. CASE b # tosend[1]
        BY <1>3, <2>1, <2>3
    <2> QED  BY <2>2, <2>3
<1>6. ASSUME NEW i \in 2..Len(tosend)
      PROVE  buffer'[tosend[i]] = buffer[tosend[i]]
    <2>1. i \in 1..Len(tosend) /\ 1 \in 1..Len(tosend) /\ i # 1
        BY WasRead
    <2>2. tosend[i] # tosend[1] /\ tosend[i] \in 1..Bufs
        BY <2>1, ListsApart, ListsType
    <2> QED  BY <1>3, <2>2
<1>7. ASSUME NEW i \in 1..Len(sended)
      PROVE  buffer'[sended[i]] = buffer[sended[i]]
    <2>1. 1 \in 1..Len(tosend)
        BY WasRead
    <2>2. sended[i] # tosend[1] /\ sended[i] \in 1..Bufs
        BY <2>1, ListsApart, ListsType
    <2> QED  BY <1>3, <2>2
<1>8. buffer'[tosend[1]] = <<>> /\ Len(buffer'[tosend[1]]) = 0
    BY <1>1, <1>3, <1>4
<1> QED
    BY <1>2, <1>3, <1>5, <1>6, <1>7, <1>8, Zenon

\* Behind the first, every byte keeps its place.
PlacesMove ==
    /\ \A i \in 1..(Bufs - 1) : Len(buffer[Lists[i + 1]]) # 0 => Place(i)' = Place(i + 1)
    /\ Total' = Total

ReadDone ==
    /\ buffer' = [buffer EXCEPT ![tosend[1]] = <<>>]
    /\ sdio_due' = sdio_due /\ sdio_taken' = sdio_taken /\ sdio_told' = sdio_told

LEMMA ReadDoneKeeps ==
    ASSUME SdioAssumption, SdioInv, "RX_EOF" \in sdio_int_st, ReadDone,
           Len(tosend') + Len(sended') = Bufs, Turned, PlacesMove, ToCome' \/ Len(buffer'[Lists'[1]]) = 0,
           SdioTypeOK', Links', Loading', Shape'
    PROVE  SdioInv'
<1>1. Complete' /\ Apart'
    BY TurnedKept
<1>2. /\ DOMAIN buffer' = 1..Bufs /\ Len(buffer'[tosend[1]]) = 0
      /\ \A b \in 1..Bufs : buffer'[b] = (IF b = tosend[1] THEN <<>> ELSE buffer[b])
    BY Cleaned DEF ReadDone
<1>3. Bufs \in Nat \ {0} /\ Lists[1] = tosend[1]
    BY ListsType, WasRead
<1>4. ASSUME NEW i \in 1..Bufs, NEW k \in 1..Len(buffer'[Lists'[i]])
      PROVE  buffer'[Lists'[i]][k] = Number(sdio_due' + (Place(i)' + (k - 1)))
    <2>1. i < Bufs
        <3>1. SUFFICES ASSUME ~(i < Bufs) PROVE FALSE
            OBVIOUS
        <3>2. Lists'[i] = tosend[1]
            BY <1>3, <3>1 DEF Turned
        <3> QED  BY <1>2, <3>2
    <2>2. i + 1 \in 1..Bufs /\ i + 1 # 1 /\ i \in 1..(Bufs - 1)
        BY <1>3, <2>1
    <2>3. Lists'[i] = Lists[i + 1] /\ Lists[i + 1] \in 1..Bufs
        BY <2>1, <2>2, ListsType DEF Turned
    <2>4. Lists[i + 1] # tosend[1]
        <3>1. Apart /\ 1 \in 1..Bufs
            BY <1>3 DEF SdioInv
        <3> QED  BY <1>3, <2>2, <3>1 DEF Apart
    <2>5. buffer'[Lists'[i]] = buffer[Lists[i + 1]]
        BY <1>2, <2>3, <2>4
    <2>6. k \in 1..Len(buffer[Lists[i + 1]]) /\ Len(buffer[Lists[i + 1]]) # 0
        BY <2>3, <2>5, BufferType
    <2>7. Bytes
        BY DEF SdioInv
    <2>8. buffer[Lists[i + 1]][k] = Number(sdio_due + (Place(i + 1) + (k - 1)))
        BY <2>2, <2>6, <2>7, Zenon DEF Bytes
    <2>9. Place(i)' = Place(i + 1)
        BY <2>2, <2>6, Zenon DEF PlacesMove
    <2>10. sdio_due' = sdio_due
        BY DEF ReadDone
    <2> QED  BY <2>5, <2>8, <2>9, <2>10, Zenon
<1>5. Bytes'
    BY <1>4, Zenon DEF Bytes
<1>6. sdio_taken' = Number(sdio_due' + Total') /\ sdio_told'
    BY Zenon DEF SdioInv, ReadDone, PlacesMove
<1> QED
    BY <1>1, <1>2, <1>5, <1>6, Zenon DEF SdioInv

\* The next of the queue is offered.
TakesNext ==
    /\ Len(tosend) > 1 /\ tosend' = Tail(tosend) /\ sended' = Append(sended, tosend[1])
    /\ rxlink' /\ ~sdio_read' /\ sdio_status'.rx_length = Len(buffer[tosend[2]])
    /\ "RX_EOF" \notin sdio_int_st'

LEMMA NextOffered ==
    ASSUME SdioAssumption, SdioInv, "RX_EOF" \in sdio_int_st, ~Chaining, ReadDone, TakesNext
    PROVE  /\ tosend' \in Seq(1..Bufs) /\ sended' \in Seq(1..Bufs)
           /\ Len(tosend') + Len(sended') = Bufs
           /\ Turned /\ PlacesMove /\ Links' /\ Shape' /\ sended' # <<>>
<1>p. PICK m \in Nat, S \in Nat : m = Len(tosend) /\ S = Len(sended)
    BY ListsType
<1>m. m \in Nat /\ S \in Nat /\ Len(tosend) = m /\ Len(sended) = S
    BY <1>p
<1>1. /\ m \in Nat /\ m > 1 /\ S \in Nat /\ m + S = Bufs /\ BufSize \in Nat \ {0} /\ Bufs \in Nat
      /\ tosend \in Seq(1..Bufs) /\ sended \in Seq(1..Bufs) /\ tosend[1] \in 1..Bufs
    BY <1>m, ListsType, WasRead DEF TakesNext
<1>0. /\ tosend # <<>> /\ tosend' = Tail(tosend) /\ sended' = Append(sended, tosend[1])
    BY WasRead, Zenon DEF TakesNext
<1>2. /\ tosend' \in Seq(1..Bufs) /\ Len(tosend') = m - 1 /\ tosend' # <<>>
      /\ \A i \in 1..(m - 1) : tosend'[i] = tosend[i + 1]
    <2>1. /\ Tail(tosend) \in Seq(1..Bufs) /\ Len(Tail(tosend)) = m - 1
          /\ \A i \in 1..Len(Tail(tosend)) : Tail(tosend)[i] = tosend[i + 1]
        BY ONLY <1>0, <1>1, <1>m, HeadTailProperties
    <2>2. Tail(tosend) # <<>>
        <3>0. Len(Tail(tosend)) = m - 1 /\ m > 1
            BY <1>1, <2>1, Zenon
        <3>1. Len(Tail(tosend)) # 0
            BY ONLY <3>0, <1>m
        <3> QED  BY <3>1, <2>1, EmptySeq
    <2>3. \A i \in 1..(m - 1) : Tail(tosend)[i] = tosend[i + 1]
        BY <2>1
    <2> QED  BY <2>1, <2>2, <2>3, <1>0, Zenon
<1>3. /\ sended' \in Seq(1..Bufs) /\ Len(sended') = S + 1 /\ sended' # <<>>
      /\ \A i \in 1..S : sended'[i] = sended[i]
      /\ sended'[S + 1] = tosend[1]
    <2>1. sended \in Seq(1..Bufs) /\ tosend[1] \in 1..Bufs /\ Len(sended) = S
        BY <1>1, <1>m, Zenon
    <2>2. Longer(Append(sended, tosend[1]), sended, tosend[1], S, 1..Bufs)
        BY ONLY <2>1, Appended
    <2>3. Longer(sended', sended, tosend[1], S, 1..Bufs)
        BY <2>2, <1>0, Zenon
    <2> QED  BY <2>3, Zenon DEF Longer
<1>4. Len(tosend') + Len(sended') = Bufs
    <2>1. Len(tosend') = m - 1 /\ Len(sended') = S + 1 /\ m + S = Bufs
        BY <1>1, <1>2, <1>3, Zenon
    <2> QED  BY ONLY <2>1, <1>m
<1>5. /\ \A i \in 1..m : Lists[i] = tosend[i]
      /\ \A i \in 1..S : Lists[m + i] = sended[i]
    BY <1>m, ListsType
<1>6. /\ \A i \in 1..(m - 1) : Lists'[i] = tosend'[i]
      /\ \A i \in 1..(S + 1) : Lists'[(m - 1) + i] = sended'[i]
    <2>1. /\ \A i \in 1..Len(tosend') : (tosend' \o sended')[i] = tosend'[i]
          /\ \A i \in 1..Len(sended') : (tosend' \o sended')[Len(tosend') + i] = sended'[i]
        <3>1. Bufs \in Nat /\ tosend' \in Seq(1..Bufs) /\ sended' \in Seq(1..Bufs)
            BY <1>1, <1>2, <1>3
        <3> QED  BY ONLY <3>1, <1>4, Joined
    <2> QED  BY <1>2, <1>3, <2>1 DEF Lists
<1>7. Turned
    <2>1. ASSUME NEW i \in 1..Bufs
          PROVE  Lists'[i] = IF i < Bufs THEN Lists[i + 1] ELSE Lists[1]
        <3>1. CASE i <= m - 1
            <4>1. i \in 1..(m - 1) /\ i + 1 \in 1..m /\ i < Bufs
                BY <1>1, <3>1
            <4> QED  BY <1>2, <1>5, <1>6, <4>1
        <3>2. CASE i >= m /\ i < Bufs
            <4>1. PICK j \in 1..S : j = (i - m) + 1
                BY <1>1, <3>2
            <4>2. /\ j \in 1..(S + 1) /\ m + j = i + 1 /\ (m - 1) + j = i
                BY <1>1, <4>1
            <4>3. Lists'[i] = sended'[j] /\ sended'[j] = sended[j] /\ Lists[i + 1] = sended[j]
                BY <1>3, <1>5, <1>6, <4>2
            <4> QED  BY <3>2, <4>3
        <3>3. CASE ~(i < Bufs)
            <4>1. (m - 1) + (S + 1) = i /\ S + 1 \in 1..(S + 1) /\ 1 \in 1..m
                BY <1>1, <3>3
            <4> QED  BY <1>3, <1>5, <1>6, <3>3, <4>1
        <3> QED  BY <1>1, <3>1, <3>2, <3>3
    <2> QED  BY <2>1 DEF Turned
<1>8. /\ \A i \in 2..m : buffer'[tosend[i]] = buffer[tosend[i]]
      /\ \A i \in 1..S : buffer'[sended[i]] = buffer[sended[i]]
      /\ Len(buffer'[tosend[1]]) = 0
    BY <1>m, Cleaned DEF ReadDone
<1>9. /\ \A i \in 2..m : Len(buffer[tosend[i]]) = BufSize
      /\ S # 0 => Len(buffer[sended[1]]) < BufSize
      /\ \A i \in 2..S : Len(buffer[sended[i]]) = 0
    <2>1. sended # <<>> <=> S # 0
        BY EmptySeq, <1>1, <1>m
    <2> QED  BY <1>m, <2>1 DEF SdioInv, Shape
<1>10. Shape'
    <2>1. \A i \in 2..(m - 1) : Len(buffer'[tosend'[i]]) = BufSize
        <3>1. ASSUME NEW i \in 2..(m - 1)
              PROVE  Len(buffer'[tosend'[i]]) = BufSize
            <4>1. i \in 1..(m - 1) /\ i + 1 \in 2..m
                BY <1>1
            <4>2. /\ tosend'[i] = tosend[i + 1]
                  /\ buffer'[tosend[i + 1]] = buffer[tosend[i + 1]]
                  /\ Len(buffer[tosend[i + 1]]) = BufSize
                BY <1>2, <1>8, <1>9, <4>1, Zenon
            <4> QED  BY <4>2, Zenon
        <3> QED  BY <3>1
    <2>2. Len(buffer'[sended'[1]]) < BufSize
        <3>1. CASE S = 0
            BY <1>1, <1>3, <1>8, <3>1
        <3>2. CASE S # 0
            <4>1. 1 \in 1..S
                BY <1>1, <3>2
            <4> QED  BY <1>3, <1>8, <1>9, <3>2, <4>1
        <3> QED  BY <3>1, <3>2
    <2>3. \A i \in 2..(S + 1) : Len(buffer'[sended'[i]]) = 0
        <3>1. ASSUME NEW i \in 2..(S + 1)
              PROVE  Len(buffer'[sended'[i]]) = 0
            <4>1. CASE i = S + 1
                BY <1>3, <1>8, <4>1
            <4>2. CASE i # S + 1
                <5>1. i \in 1..S /\ i \in 2..S
                    BY <1>1, <4>2
                <5> QED  BY <1>3, <1>8, <1>9, <5>1
            <4> QED  BY <4>1, <4>2
        <3> QED  BY <3>1
    <2> QED  BY <1>2, <1>3, <2>1, <2>2, <2>3 DEF Shape
<1>11. 2 \in 2..m /\ 1 \in 1..(m - 1) /\ tosend'[1] = tosend[2]
    BY <1>1, <1>2
<1>12. Links'
    <2>1. sdio_status'.rx_length = Len(buffer'[tosend'[1]])
        BY <1>8, <1>11 DEF TakesNext
    <2> QED  BY <1>2, <2>1 DEF Links, TakesNext
<1>13. First' = BufSize
    <2>1. Lists'[1] = tosend[2]
        BY <1>6, <1>11
    <2>2. Len(buffer'[tosend[2]]) = BufSize
        BY <1>8, <1>9, <1>11
    <2>3. ToCome'
        BY Zenon DEF ToCome, TakesNext
    <2> QED  BY <2>1, <2>2, <2>3, Zenon DEF First
<1>14. \A i \in Nat \ {0} : Place(i)' = Place(i + 1)
    <2>1. ASSUME NEW i \in Nat \ {0}
          PROVE  Place(i)' = Place(i + 1)
        <3>1. First = 0 /\ Place(2) = 0
            BY WasRead, PlaceType
        <3>2. CASE i = 1
            BY <3>1, <3>2 DEF Place
        <3>3. CASE i # 1
            <4>1. i - 2 \in Int /\ (i + 1) - 2 = (i - 2) + 1 /\ i + 1 # 1
                BY <3>3
            <4>2. ((i - 2) + 1) * BufSize = (i - 2) * BufSize + BufSize /\ (i - 2) * BufSize \in Int
                BY <4>1, <1>1, Times
            <4>3. Place(i)' = BufSize + (i - 2) * BufSize
                BY <1>13, <3>3 DEF Place
            <4>4. Place(i + 1) = 0 + ((i + 1) - 2) * BufSize
                BY <3>1, <4>1 DEF Place
            <4> QED  BY <1>1, <4>1, <4>2, <4>3, <4>4
        <3> QED  BY <3>2, <3>3
    <2> QED  BY <2>1
<1>15. Filling' = Filling
    <2>1. Filling' = Len(buffer'[sended'[1]])
        BY <1>3, Zenon DEF Filling
    <2>2. CASE S = 0
        <3>1. sended = <<>>
            BY <1>1, <2>2, <1>m, EmptySeq
        <3>2. Filling = 0
            BY <3>1, Zenon DEF Filling
        <3>3. sended'[1] = tosend[1]
            BY <1>3, <2>2
        <3> QED  BY <1>8, <2>1, <3>2, <3>3
    <2>3. CASE S # 0
        <3>1. sended # <<>> /\ 1 \in 1..S
            BY <1>1, <2>3, <1>m, EmptySeq
        <3>2. Filling = Len(buffer[sended[1]])
            BY <3>1, Zenon DEF Filling
        <3> QED  BY <1>3, <1>8, <2>1, <3>1, <3>2
    <2> QED  BY <2>2, <2>3
<1>16. Total' = Total
    <2>1. PICK e \in Nat \ {0} : e = m
        BY <1>1
    <2>2. Len(tosend') + 1 = e
        BY <1>1, <1>2, <2>1
    <2>3. Total' = Place(e)' + Filling'
        BY <2>2, Zenon DEF Total, Place
    <2>4. Total = Place(e + 1) + Filling
        BY <2>1, <1>m, Zenon DEF Total
    <2> QED  BY <1>14, <1>15, <2>3, <2>4
<1>17. PlacesMove
    BY <1>14, <1>16 DEF PlacesMove
<1> QED
    BY <1>2, <1>3, <1>4, <1>7, <1>10, <1>12, <1>17

\* Nothing else was to be sent: what the free list begins with is offered, ...
TakesFilling ==
    /\ Len(tosend) = 1 /\ sended # <<>> /\ Len(buffer[sended[1]]) # 0
    /\ tosend' = <<sended[1]>> /\ sended' = Tail(Append(sended, tosend[1]))
    /\ rxlink' /\ ~sdio_read' /\ sdio_status'.rx_length = Len(buffer[sended[1]])
    /\ "RX_EOF" \notin sdio_int_st'

LEMMA FillingOffered ==
    ASSUME SdioAssumption, SdioInv, "RX_EOF" \in sdio_int_st, ReadDone, TakesFilling
    PROVE  /\ tosend' \in Seq(1..Bufs) /\ sended' \in Seq(1..Bufs)
           /\ Len(tosend') + Len(sended') = Bufs
           /\ Turned /\ PlacesMove /\ Links' /\ Shape' /\ sended' # <<>>
<1>p. PICK S \in Nat : S = Len(sended)
    BY ListsType
<1>m. S \in Nat /\ Len(sended) = S
    BY <1>p
<1>1. /\ Len(tosend) = 1 /\ 1 + S = Bufs /\ BufSize \in Nat \ {0} /\ Bufs \in Nat
      /\ sended \in Seq(1..Bufs) /\ tosend[1] \in 1..Bufs
    <2>1. Len(tosend) = 1
        BY Zenon DEF TakesFilling
    <2> QED  BY <1>m, <2>1, ListsType, WasRead
<1>0. /\ sended # <<>> /\ Len(buffer[sended[1]]) # 0
      /\ tosend' = <<sended[1]>> /\ sended' = Tail(Append(sended, tosend[1]))
    BY Zenon DEF TakesFilling
<1>2. S >= 1
    BY <1>0, <1>1, <1>m, EmptySeq
<1>3. sended[1] \in 1..Bufs
    <2>1. 1 \in 1..S
        BY <1>2, <1>m
    <2> QED  BY <2>1, <1>m, ListsType
<1>4. tosend' \in Seq(1..Bufs) /\ Len(tosend') = 1 /\ tosend'[1] = sended[1] /\ tosend' # <<>>
    <2>1. /\ <<sended[1]>> \in Seq(1..Bufs) /\ Len(<<sended[1]>>) = 1
          /\ <<sended[1]>>[1] = sended[1] /\ <<sended[1]>> # <<>>
        BY ONLY <1>3
    <2> QED  BY <1>0, <2>1, Zenon
<1>5. /\ sended' \in Seq(1..Bufs) /\ Len(sended') = S /\ sended' # <<>>
      /\ \A i \in 1..(S - 1) : sended'[i] = sended[i + 1]
      /\ sended'[S] = tosend[1]
    <2> DEFINE a == Append(sended, tosend[1])
               b == Tail(a)
    <2>1. /\ a \in Seq(1..Bufs) /\ Len(a) = S + 1 /\ a # <<>>
          /\ \A i \in 1..S : a[i] = sended[i]
          /\ a[S + 1] = tosend[1]
        <3>1. sended \in Seq(1..Bufs) /\ tosend[1] \in 1..Bufs /\ Len(sended) = S
            BY <1>1, <1>m, Zenon
        <3> QED  BY ONLY <3>1, AppendProperties
    <2> HIDE DEF a
    <2>2. /\ b \in Seq(1..Bufs) /\ Len(b) = Len(a) - 1
          /\ \A i \in 1..Len(b) : b[i] = a[i + 1]
        BY ONLY <2>1, HeadTailProperties
    <2> HIDE DEF b
    <2>3. Len(b) = S
        <3>1. Len(b) = (S + 1) - 1
            BY <2>1, <2>2, Zenon
        <3> QED  BY ONLY <3>1, <1>m
    <2>4. b # <<>>
        BY ONLY <2>2, <2>3, <1>2, EmptySeq
    <2>5. \A i \in 1..(S - 1) : b[i] = sended[i + 1]
        <3>1. ASSUME NEW i \in 1..(S - 1)
              PROVE  b[i] = sended[i + 1]
            <4>1. i \in 1..S /\ i + 1 \in 1..S
                BY <1>m
            <4> QED  BY <2>1, <2>2, <2>3, <4>1
        <3> QED  BY <3>1
    <2>6. b[S] = tosend[1]
        <3>1. S \in 1..S
            BY <1>m, <1>2
        <3> QED  BY <2>1, <2>2, <2>3, <3>1
    <2>7. sended' = b
        BY <1>0 DEF a, b
    <2> QED  BY <2>2, <2>3, <2>4, <2>5, <2>6, <2>7, Zenon
<1>6. Len(tosend') + Len(sended') = Bufs
    <2>1. Len(tosend') = 1 /\ Len(sended') = S /\ 1 + S = Bufs
        BY <1>1, <1>4, <1>5, Zenon
    <2> QED  BY ONLY <2>1
<1>7. /\ Lists[1] = tosend[1] /\ \A i \in 1..S : Lists[1 + i] = sended[i]
    BY <1>1, <1>m, ListsType, WasRead
<1>8. /\ Lists'[1] = sended[1] /\ \A i \in 1..S : Lists'[1 + i] = sended'[i]
    <2>1. /\ \A i \in 1..Len(tosend') : (tosend' \o sended')[i] = tosend'[i]
          /\ \A i \in 1..Len(sended') : (tosend' \o sended')[Len(tosend') + i] = sended'[i]
        <3>1. Bufs \in Nat /\ tosend' \in Seq(1..Bufs) /\ sended' \in Seq(1..Bufs)
            BY <1>1, <1>4, <1>5
        <3> QED  BY ONLY <3>1, <1>6, Joined
    <2> QED  BY <1>4, <1>5, <2>1 DEF Lists
<1>9. Turned
    <2>1. ASSUME NEW i \in 1..Bufs
          PROVE  Lists'[i] = IF i < Bufs THEN Lists[i + 1] ELSE Lists[1]
        <3>1. CASE i = 1
            <4>1. 1 \in 1..S /\ i < Bufs /\ 1 + 1 = i + 1
                BY <1>1, <1>2, <1>m, <3>1
            <4> QED  BY <1>7, <1>8, <3>1, <4>1
        <3>2. CASE i # 1 /\ i < Bufs
            <4>1. PICK j \in 1..(S - 1) : j = i - 1
                BY <1>1, <1>m, <3>2
            <4>2. j \in 1..S /\ j + 1 \in 1..S /\ 1 + j = i /\ 1 + (j + 1) = i + 1
                BY <1>m, <4>1
            <4>3. Lists'[i] = sended'[j] /\ sended'[j] = sended[j + 1] /\ Lists[i + 1] = sended[j + 1]
                BY <1>5, <1>7, <1>8, <4>1, <4>2
            <4> QED  BY <3>2, <4>3
        <3>3. CASE ~(i < Bufs)
            <4>1. 1 + S = i /\ S \in 1..S
                BY <1>1, <1>2, <1>m, <3>3
            <4>2. Lists'[i] = sended'[S]
                BY <1>8, <4>1
            <4> QED  BY <1>5, <1>7, <3>3, <4>2
        <3> QED  BY <3>1, <3>2, <3>3
    <2> QED  BY <2>1 DEF Turned
<1>10. /\ \A i \in 1..S : buffer'[sended[i]] = buffer[sended[i]]
       /\ Len(buffer'[tosend[1]]) = 0
    BY <1>m, Cleaned DEF ReadDone
<1>11. \A i \in 2..S : Len(buffer[sended[i]]) = 0
    BY <1>m DEF SdioInv, Shape
<1>12. \A i \in 1..S : Len(buffer'[sended'[i]]) = 0
    <2>1. ASSUME NEW i \in 1..S
          PROVE  Len(buffer'[sended'[i]]) = 0
        <3>1. CASE i = S
            BY <1>5, <1>10, <3>1
        <3>2. CASE i # S
            <4>1. i \in 1..(S - 1) /\ i + 1 \in 1..S /\ i + 1 \in 2..S
                BY <1>m, <3>2
            <4> QED  BY <1>5, <1>10, <1>11, <4>1
        <3> QED  BY <3>1, <3>2
    <2> QED  BY <2>1
<1>13. 1 \in 1..S
    BY <1>2, <1>m
<1>14. Shape'
    <2>1. \A i \in 2..Len(tosend') : Len(buffer'[tosend'[i]]) = BufSize
        <3>1. 2..1 = {}
            OBVIOUS
        <3> QED  BY <3>1, <1>4, Zenon
    <2>2. Len(buffer'[sended'[1]]) < BufSize
        BY <1>1, <1>12, <1>13
    <2>3. \A i \in 2..Len(sended') : Len(buffer'[sended'[i]]) = 0
        <3>1. \A i \in 2..S : i \in 1..S
            BY <1>m
        <3> QED  BY <1>5, <1>12, <3>1, Zenon
    <2> QED  BY <2>1, <2>2, <2>3, Zenon DEF Shape
<1>15. /\ rxlink' /\ ~sdio_read' /\ "RX_EOF" \notin sdio_int_st'
       /\ sdio_status'.rx_length = Len(buffer[sended[1]]) /\ ToCome'
    BY Zenon DEF TakesFilling, ToCome
<1>16. Links'
    <2>1. sdio_status'.rx_length = Len(buffer'[tosend'[1]])
        BY <1>4, <1>10, <1>13, <1>15
    <2> QED  BY <1>4, <1>15, <2>1, Zenon DEF Links
<1>17. First' = Len(buffer[sended[1]])
    <2>1. Len(buffer'[Lists'[1]]) = Len(buffer[sended[1]])
        BY <1>8, <1>10, <1>13
    <2> QED  BY <1>15, <2>1, Zenon DEF First
<1>18. Place(1)' = 0 /\ Place(2)' = First' /\ Place(2) = 0
    <2>1. First = 0 /\ Place(2) = First
        BY WasRead, PlaceType
    <2>2. Place(1)' = 0
        BY DEF Place
    <2>3. First' \in Int
        BY <1>3, <1>17, BufferType
    <2>4. 0 * BufSize = 0 /\ 2 - 2 = 0
        BY <1>1
    <2>5. Place(2)' = First' + (2 - 2) * BufSize
        BY DEF Place
    <2> QED  BY <2>1, <2>2, <2>3, <2>4, <2>5
<1>19. ASSUME NEW i \in 1..(Bufs - 1), Len(buffer[Lists[i + 1]]) # 0
       PROVE  Place(i)' = Place(i + 1)
    <2>1. i \in 1..S /\ i + 1 = 1 + i
        BY <1>1, <1>m
    <2>2. i \notin 2..S
        BY <1>7, <1>11, <1>19, <2>1
    <2>3. i = 1 /\ i + 1 = 2
        BY <1>m, <2>1, <2>2
    <2> QED  BY <1>18, <2>3
<1>20. Total' = Total
    <2>1. Filling = Len(buffer[sended[1]])
        BY <1>0, Zenon DEF Filling
    <2>2. Filling' = 0
        BY <1>5, <1>12, <1>13, Zenon DEF Filling
    <2>3. Len(tosend) + 1 = 2 /\ Len(tosend') + 1 = 2
        BY <1>1, <1>4
    <2>4. Total = Place(2) + Filling /\ Total' = Place(2)' + Filling'
        BY <2>3, Zenon DEF Total, Place
    <2>5. Len(buffer[sended[1]]) \in Int
        BY <1>3, BufferType
    <2> QED  BY <1>17, <1>18, <2>1, <2>2, <2>4, <2>5
<1>21. PlacesMove
    BY <1>19, <1>20, Zenon DEF PlacesMove
<1> QED
    BY <1>4, <1>5, <1>6, <1>9, <1>14, <1>16, <1>21

\* ... unless it is empty.
TakesNone ==
    /\ Len(tosend) = 1 /\ (sended # <<>> => Len(buffer[sended[1]]) = 0)
    /\ tosend' = <<>> /\ sended' = Append(sended, tosend[1])
    /\ ~rxlink' /\ ~sdio_read' /\ "RX_EOF" \notin sdio_int_st'

LEMMA NoneOffered ==
    ASSUME SdioAssumption, SdioInv, "RX_EOF" \in sdio_int_st, ReadDone, TakesNone
    PROVE  /\ tosend' \in Seq(1..Bufs) /\ sended' \in Seq(1..Bufs)
           /\ Len(tosend') + Len(sended') = Bufs
           /\ Turned /\ PlacesMove /\ Links' /\ Shape' /\ sended' # <<>>
<1>p. PICK S \in Nat : S = Len(sended)
    BY ListsType
<1>m. S \in Nat /\ Len(sended) = S
    BY <1>p
<1>1. /\ Len(tosend) = 1 /\ 1 + S = Bufs /\ BufSize \in Nat \ {0} /\ Bufs \in Nat
      /\ sended \in Seq(1..Bufs) /\ tosend[1] \in 1..Bufs
    <2>1. Len(tosend) = 1
        BY Zenon DEF TakesNone
    <2> QED  BY <1>m, <2>1, ListsType, WasRead
<1>0. /\ sended # <<>> => Len(buffer[sended[1]]) = 0
      /\ tosend' = <<>> /\ sended' = Append(sended, tosend[1])
    BY Zenon DEF TakesNone
<1>2. tosend' \in Seq(1..Bufs) /\ Len(tosend') = 0
    <2>1. <<>> \in Seq(1..Bufs) /\ Len(<<>>) = 0
        OBVIOUS
    <2> QED  BY <1>0, <2>1, Zenon
<1>3. /\ sended' \in Seq(1..Bufs) /\ Len(sended') = S + 1 /\ sended' # <<>>
      /\ \A i \in 1..S : sended'[i] = sended[i]
      /\ sended'[S + 1] = tosend[1]
    <2>1. sended \in Seq(1..Bufs) /\ tosend[1] \in 1..Bufs /\ Len(sended) = S
        BY <1>1, <1>m, Zenon
    <2>2. Longer(Append(sended, tosend[1]), sended, tosend[1], S, 1..Bufs)
        BY ONLY <2>1, Appended
    <2>3. Longer(sended', sended, tosend[1], S, 1..Bufs)
        BY <2>2, <1>0, Zenon
    <2> QED  BY <2>3, Zenon DEF Longer
<1>4. Len(tosend') + Len(sended') = Bufs
    <2>1. Len(tosend') = 0 /\ Len(sended') = S + 1 /\ 1 + S = Bufs
        BY <1>1, <1>2, <1>3, Zenon
    <2> QED  BY ONLY <2>1, <1>m
<1>5. /\ Lists[1] = tosend[1] /\ \A i \in 1..S : Lists[1 + i] = sended[i]
    BY <1>1, <1>m, ListsType, WasRead
<1>6. \A i \in 1..Bufs : Lists'[i] = sended'[i]
    <2>1. <<>> \o sended' = sended'
        BY <1>3, ConcatEmptySeq
    <2> QED  BY <1>0, <2>1, Zenon DEF Lists
<1>7. Turned
    <2>1. ASSUME NEW i \in 1..Bufs
          PROVE  Lists'[i] = IF i < Bufs THEN Lists[i + 1] ELSE Lists[1]
        <3>1. CASE i < Bufs
            <4>1. i \in 1..S /\ 1 + i = i + 1
                BY <1>1, <1>m, <3>1
            <4> QED  BY <1>3, <1>5, <1>6, <3>1, <4>1
        <3>2. CASE ~(i < Bufs)
            <4>1. i = S + 1
                BY <1>1, <1>m, <3>2
            <4> QED  BY <1>3, <1>5, <1>6, <3>2, <4>1
        <3> QED  BY <3>1, <3>2
    <2> QED  BY <2>1 DEF Turned
<1>8. \A i \in 1..S : Len(buffer[sended[i]]) = 0
    <2>1. \A i \in 2..S : Len(buffer[sended[i]]) = 0
        BY <1>m DEF SdioInv, Shape
    <2>2. ASSUME NEW i \in 1..S
          PROVE  Len(buffer[sended[i]]) = 0
        <3>1. sended # <<>>
            <4>1. S # 0
                BY <1>m
            <4> QED  BY <1>1, <1>m, <4>1, EmptySeq
        <3>2. CASE i = 1
            BY <1>0, <3>1, <3>2
        <3>3. CASE i # 1
            <4>1. i \in 2..S
                BY <1>m, <3>3
            <4> QED  BY <2>1, <4>1
        <3> QED  BY <3>2, <3>3
    <2> QED  BY <2>2
<1>9. \A i \in 1..(S + 1) : Len(buffer'[sended'[i]]) = 0
    <2>1. /\ \A i \in 1..S : buffer'[sended[i]] = buffer[sended[i]]
          /\ Len(buffer'[tosend[1]]) = 0
        BY <1>m, Cleaned DEF ReadDone
    <2>2. ASSUME NEW i \in 1..(S + 1)
          PROVE  Len(buffer'[sended'[i]]) = 0
        <3>1. CASE i = S + 1
            BY <1>3, <2>1, <3>1
        <3>2. CASE i # S + 1
            <4>1. i \in 1..S
                BY <1>m, <3>2
            <4> QED  BY <1>3, <1>8, <2>1, <4>1
        <3> QED  BY <3>1, <3>2
    <2> QED  BY <2>2
<1>10. 1 \in 1..(S + 1) /\ \A i \in 2..(S + 1) : i \in 1..(S + 1)
    BY <1>m
<1>11. Shape'
    <2>1. \A i \in 2..Len(tosend') : Len(buffer'[tosend'[i]]) = BufSize
        <3>1. 2..0 = {}
            OBVIOUS
        <3> QED  BY <3>1, <1>2, Zenon
    <2>2. Len(buffer'[sended'[1]]) < BufSize
        BY <1>1, <1>9, <1>10
    <2>3. \A i \in 2..Len(sended') : Len(buffer'[sended'[i]]) = 0
        BY <1>3, <1>9, <1>10, Zenon
    <2> QED  BY <2>1, <2>2, <2>3, Zenon DEF Shape
<1>12. Links'
    BY <1>0, Zenon DEF Links, TakesNone
<1>13. ASSUME NEW i \in 1..(Bufs - 1)
       PROVE  Len(buffer[Lists[i + 1]]) = 0
    <2>1. i \in 1..S /\ i + 1 = 1 + i
        BY <1>1, <1>m
    <2> QED  BY <1>5, <1>8, <2>1
<1>14. Total' = Total
    <2>1. Filling = 0
        <3>1. CASE sended = <<>>
            BY <3>1, Zenon DEF Filling
        <3>2. CASE sended # <<>>
            BY <1>0, <3>2, Zenon DEF Filling
        <3> QED  BY <3>1, <3>2
    <2>2. Filling' = 0
        BY <1>3, <1>9, <1>10, Zenon DEF Filling
    <2>3. Len(tosend) + 1 = 2 /\ Len(tosend') + 1 = 1
        BY <1>1, <1>2
    <2>4. Total = Place(2) + Filling /\ Total' = Place(1)' + Filling'
        BY <2>3, Zenon DEF Total, Place
    <2>5. Place(2) = 0
        BY WasRead, PlaceType
    <2>6. Place(1)' = 0
        BY DEF Place
    <2> QED  BY <2>1, <2>2, <2>4, <2>5, <2>6
<1>15. PlacesMove
    BY <1>13, <1>14, Zenon DEF PlacesMove
<1> QED
    BY <1>2, <1>3, <1>4, <1>7, <1>11, <1>12, <1>15

LEMMA IsrStep ==
    ASSUME SdioAssumption, SdioInv, Isr
    PROVE  SdioInv'
<1> DEFINE read == IF "RX_EOF" \in sdio_int_st
                   THEN [sdio_status EXCEPT !.rx_length = 0,
                                       !.intr_no = @ \ {"RX_AVAILIBLE"}]
                   ELSE sdio_status
           written == IF "TX_EOF" \in sdio_int_st
                      THEN [read EXCEPT !.wr_busy = TRUE,
                                        !.intr_no = @ \ {"TX_AVAILIBLE"}]
                      ELSE read
<1>1. /\ sdio_int_st' = {} /\ sdio_at' \in {"none", "callback", "end"} /\ load' = load
      /\ txlink' = txlink /\ sdio_taken' = sdio_taken /\ sdio_due' = sdio_due /\ sdio_told' = sdio_told
      /\ stopped' = stopped /\ torn' = torn
    BY DEF Isr
<1>8. load["callback"].at = "none"
    BY DEF Isr, SdioInv, Loading
<1>2. sdio_status \in Register
    BY DEF SdioInv, SdioTypeOK, Register
<1>3. BufSize \in Nat
    BY DEF SdioAssumption
<1>4. read \in Register /\ ("RX_EOF" \notin sdio_int_st => read = sdio_status)
    <2>1. 0 \in 0..BufSize
        BY <1>3
    <2>2. CASE "RX_EOF" \in sdio_int_st
        BY <1>2, <2>1, <2>2 DEF Register
    <2>3. CASE "RX_EOF" \notin sdio_int_st
        BY <1>2, <2>3
    <2> QED  BY <2>2, <2>3
<1>5. written \in Register /\ ("RX_EOF" \notin sdio_int_st => written.rx_length = sdio_status.rx_length)
    <2> HIDE DEF read
    <2> QED  BY <1>4 DEF Register
<1>6. CASE "RX_EOF" \notin sdio_int_st
    <2>1. /\ sdio_status' = written
          /\ tosend' = tosend /\ sended' = sended /\ buffer' = buffer
          /\ has_read' = has_read /\ rxlink' = rxlink /\ sdio_read' = sdio_read
        BY <1>6 DEF Isr, lists
    <2> HIDE DEF written
    <2>2. ListsKept /\ LoadKept
        BY <1>1, <1>8, <2>1, Zenon DEF ListsKept, LoadKept
    <2>3. sdio_status' \in Register /\ sdio_status'.rx_length = sdio_status.rx_length
        BY <1>5, <1>6, <2>1
    <2>4. SdioTypeOK'
        BY <1>1, <2>1, <2>3 DEF SdioInv, SdioTypeOK, Register
    <2>5. Links'
        BY <1>1, <2>1, <2>3, Zenon DEF SdioInv, Links
    <2> QED  BY <2>2, <2>4, <2>5, KeptStep, LoadingKept
<1>7. CASE "RX_EOF" \in sdio_int_st
    <2>1. sdio_read_done_process(written) /\ sdio_read' = FALSE
        BY <1>7 DEF Isr
    <2>12. load["task"].at # "chains" /\ ~Chaining
        <3>1. load["task"].at # "chains"
            BY <1>7 DEF Isr, Interrupts
        <3> QED  BY <1>8, <3>1 DEF Chaining, Loaders
    <2> HIDE DEF written, read
    <2>2. Head(tosend) = tosend[1]
        OBVIOUS
    <2>3. buffer' = [buffer EXCEPT ![tosend[1]] = <<>>]
        BY <2>1, <2>2 DEF sdio_read_done_process
    <2>4. ReadDone
        BY <1>1, <2>3, Zenon DEF ReadDone
    <2>5. "RX_EOF" \notin sdio_int_st'
        BY <1>1
    <2>6. \/ TakesNext /\ sdio_status' \in Register
          \/ TakesFilling /\ sdio_status' \in Register
          \/ TakesNone /\ sdio_status' \in Register
        <3>1. /\ Len(tosend) \in Nat /\ Len(tosend) >= 1 /\ tosend[1] \in 1..Bufs
            BY <1>7, WasRead
        <3>2. /\ \A i \in 2..Len(tosend) : buffer'[tosend[i]] = buffer[tosend[i]]
              /\ \A i \in 1..Len(sended) : buffer'[sended[i]] = buffer[sended[i]]
              /\ buffer'[tosend[1]] = <<>>
            BY <1>7, <2>3, Cleaned
        <3>3. CASE Len(tosend) > 1
            <4>1. /\ tosend' = Tail(tosend) /\ sended' = Append(sended, tosend[1])
                  /\ has_read' = FALSE
                  /\ rx_buff_load_done(written, Len(buffer'[tosend[2]]))
                BY <2>1, <2>2, <3>3 DEF sdio_read_done_process
            <4>2. 2 \in 2..Len(tosend)
                BY <3>1, <3>3
            <4>3. Len(buffer[tosend[2]]) = BufSize
                BY <4>2 DEF SdioInv, Shape
            <4>4. Len(buffer'[tosend[2]]) = BufSize
                BY <3>2, <4>2, <4>3
            <4>5. BufSize \in 0..BufSize /\ BufSize # 0
                BY <1>3 DEF SdioAssumption
            <4>6. sdio_status' \in Register /\ sdio_status'.rx_length = BufSize /\ rxlink'
                BY <1>5, <4>1, <4>4, <4>5, Offered
            <4> QED  BY <2>1, <2>5, <3>3, <4>1, <4>3, <4>6, Zenon DEF TakesNext
        <3>4. CASE ~(Len(tosend) > 1)
            <4>0. Len(tosend) = 1
                <5>1. PICK m \in Nat : m = Len(tosend)
                    BY <3>1
                <5>2. m >= 1 /\ ~(m > 1)
                    BY <3>1, <3>4, <5>1
                <5>3. m = 1
                    BY <5>2
                <5> QED  BY <5>1, <5>3
            <4> DEFINE free == Append(sended, tosend[1])
            <4>1. Head(free) = IF sended = <<>> THEN tosend[1] ELSE sended[1]
                <5>1. sended \in Seq(1..Bufs)
                    BY ListsType
                <5>2. Head(free) = IF sended = <<>> THEN tosend[1] ELSE Head(sended)
                    BY <5>1, HeadTailAppend
                <5> QED  BY <5>2
            <4>2. CASE buffer'[Head(free)] # <<>>
                <5>1. sended # <<>> /\ Head(free) = sended[1]
                    BY <3>2, <4>1, <4>2
                <5>2. /\ tosend' = <<Head(free)>> /\ sended' = Tail(free)
                      /\ has_read' = FALSE
                      /\ rx_buff_load_done(written, Len(buffer'[Head(free)]))
                    BY <2>1, <2>2, <2>3, <3>4, <4>2 DEF sdio_read_done_process
                <5>3. 1 \in 1..Len(sended)
                    BY <5>1, ListsType, EmptySeq
                <5>4. buffer'[Head(free)] = buffer[sended[1]] /\ sended[1] \in 1..Bufs
                    BY <3>2, <5>1, <5>3, ListsType
                <5>5. Len(buffer[sended[1]]) \in 0..BufSize /\ Len(buffer[sended[1]]) # 0
                    <6>1. /\ buffer[sended[1]] \in Seq(0..(Count - 1)) /\ Len(buffer[sended[1]]) \in Nat
                          /\ Len(buffer[sended[1]]) <= BufSize
                        BY <5>4, BufferType
                    <6>2. buffer[sended[1]] # <<>>
                        BY <4>2, <5>4
                    <6> QED  BY <1>3, <6>1, <6>2, EmptySeq
                <5>6. /\ sdio_status' \in Register /\ rxlink'
                      /\ sdio_status'.rx_length = Len(buffer[sended[1]])
                    BY <1>5, <5>2, <5>4, <5>5, Offered
                <5> HIDE DEF free
                <5>7. tosend' = <<sended[1]>>
                    BY <5>1, <5>2
                <5>8. sended' = Tail(Append(sended, tosend[1]))
                    BY <5>2 DEF free
                <5> QED  BY <2>1, <2>5, <4>0, <5>1, <5>2, <5>5, <5>6, <5>7, <5>8, Zenon DEF TakesFilling
            <4>3. CASE buffer'[Head(free)] = <<>>
                <5>1. /\ tosend' = <<>> /\ sended' = free /\ has_read' = TRUE
                      /\ sdio_status' = written /\ rxlink' = rxlink
                    BY <2>1, <2>2, <2>3, <3>4, <4>3 DEF sdio_read_done_process
                <5>2. ~rxlink
                    BY <1>7, WasRead
                <5>3. ASSUME sended # <<>>
                      PROVE  Len(buffer[sended[1]]) = 0
                    <6>1. 1 \in 1..Len(sended)
                        BY <5>3, ListsType, EmptySeq
                    <6>2. buffer[sended[1]] = <<>>
                        BY <3>2, <4>1, <4>3, <5>3, <6>1
                    <6> QED  BY <6>2
                <5> QED  BY <1>5, <2>1, <2>5, <4>0, <5>1, <5>2, <5>3, Zenon DEF TakesNone
            <4> QED  BY <4>2, <4>3
        <3> QED  BY <3>3, <3>4
    <2>7. /\ tosend' \in Seq(1..Bufs) /\ sended' \in Seq(1..Bufs)
          /\ Len(tosend') + Len(sended') = Bufs
          /\ Turned /\ PlacesMove /\ Links' /\ Shape' /\ sended' # <<>>
        BY <1>7, <2>4, <2>6, <2>12, NextOffered, FillingOffered, NoneOffered, Zenon
    <2>13. Loading'
        <3>1. load'["callback"].at = "none"
            BY <1>1, <1>8
        <3>2. ASSUME NEW w \in Loaders
              PROVE  Relies(w)'
            <4>1. Relies(w)
                BY DEF SdioInv, Loading
            <4>2. load'[w].at # "chains"
                BY <1>1, <2>12 DEF Chaining
            <4>3. load'[w].at # "closes"
                BY <1>1, <1>7, <4>1, WasRead DEF Relies
            <4> QED  BY <2>7, <4>2, <4>3 DEF Relies
        <3> QED  BY <3>1, <3>2, Zenon DEF Loading
    <2>8. has_read' \in BOOLEAN /\ rxlink' \in BOOLEAN /\ ToCome'
        <3>1. has_read' \in BOOLEAN
            BY <2>1 DEF sdio_read_done_process
        <3>2. rxlink' \in BOOLEAN
            BY <2>1 DEF sdio_read_done_process, rx_buff_load_done, SdioInv, SdioTypeOK
        <3>3. ToCome'
            BY <2>1 DEF ToCome
        <3> QED  BY <3>1, <3>2, <3>3
    <2>9. \A b \in 1..Bufs : buffer'[b] \in Seq(0..(Count - 1)) /\ Len(buffer'[b]) <= BufSize
        BY <1>7, <2>3, Cleaned
    <2>10. sdio_status' \in Register
        BY <2>6
    <2>11. SdioTypeOK'
        <3>1. /\ txlink' \in BOOLEAN /\ sdio_told' \in BOOLEAN
              /\ stopped' \in BOOLEAN /\ torn' \in BOOLEAN
              /\ load' \in [Loaders -> [at : {"none", "between", "copies", "chains", "closes", "offers"},
                                        todo : 0..MaxLoad]]
              /\ sdio_taken' \in 0..(Count - 1) /\ sdio_due' \in 0..(Count - 1)
            BY <1>1, Zenon DEF SdioInv, SdioTypeOK
        <3>2. sdio_int_st' \subseteq {"RX_EOF", "TX_EOF"}
            BY <1>1
        <3>3. sdio_read' \in BOOLEAN
            BY <2>1
        <3> QED  BY <1>1, <2>7, <2>8, <2>9, <2>10, <3>1, <3>2, <3>3, Zenon DEF SdioTypeOK, Register
    <2> QED  BY <1>7, <2>4, <2>7, <2>8, <2>11, <2>13, ReadDoneKeeps, Zenon
<1> QED
    BY <1>6, <1>7
---------------------------------------------------------------------------
(* The steps of a load that leave the lists alone.                         *)

LoadPlaces == {"none", "between", "copies", "chains", "closes", "offers"}

LEMMA Alone ==
    ASSUME SdioInv, NEW w \in Loaders, NEW v \in Loaders, v # w,
           MayRun(w), load[w].at # "none" \/ ~Nested(w)
    PROVE  /\ Idle(v) /\ (v = "callback" => load[v].at = "none")
           /\ w = "callback" => sdio_at = "callback"
<1>1. Loading /\ \A u \in Loaders : load[u].at \in LoadPlaces
    BY DEF SdioInv, SdioTypeOK, LoadPlaces
<1>2. CASE w = "task"
    <2>1. v = "callback" /\ sdio_at = "none"
        BY <1>2 DEF Loaders, MayRun
    <2>2. load["callback"].at = "none"
        BY <1>1, <2>1 DEF Loading
    <2> QED  BY <1>2, <2>1, <2>2 DEF Idle
<1>3. CASE w = "callback"
    <2>1. v = "task" /\ sdio_at = "callback"
        BY <1>3 DEF Loaders, MayRun
    <2>2. Idle("task")
        <3>1. CASE load[w].at # "none"
            BY <1>1, <1>3, <3>1 DEF Loading
        <3>2. CASE ~Nested(w)
            <4>1. load["task"].at \in LoadPlaces
                BY <1>1 DEF Loaders
            <4> QED  BY <1>3, <3>2, <4>1 DEF Nested, Idle, LoadPlaces
        <3> QED  BY <3>1, <3>2
    <2> QED  BY <1>3, <2>1, <2>2
<1> QED
    BY <1>2, <1>3 DEF Loaders

\* A load goes to another place.
Steps(w, at, rest) ==
    /\ MayRun(w) /\ (load[w].at # "none" \/ ~Nested(w))
    /\ Goes(w, at, rest) /\ sdio_at' = sdio_at

LEMMA Going ==
    ASSUME SdioInv, NEW w \in Loaders, NEW at \in LoadPlaces, NEW rest \in 0..MaxLoad, Steps(w, at, rest)
    PROVE  /\ load' \in [Loaders -> [at : LoadPlaces, todo : 0..MaxLoad]]
           /\ load'[w].at = at
           /\ Chaining <=> load[w].at = "chains"
           /\ Chaining' <=> at = "chains"
           /\ Relies(w)' => Loading'
<1>1. load \in [Loaders -> [at : LoadPlaces, todo : 0..MaxLoad]]
    BY DEF SdioInv, SdioTypeOK, LoadPlaces
<1>2. load' = [load EXCEPT ![w] = [at |-> at, todo |-> rest]]
    BY DEF Steps, Goes
<1>3. load' \in [Loaders -> [at : LoadPlaces, todo : 0..MaxLoad]]
    BY <1>1, <1>2
<1>4. load'[w].at = at /\ \A v \in Loaders : v # w => load'[v] = load[v]
    BY <1>1, <1>2
<1>5. MayRun(w) /\ (load[w].at # "none" \/ ~Nested(w)) /\ sdio_at' = sdio_at
    BY DEF Steps
<1>6. ASSUME NEW v \in Loaders, v # w
      PROVE  /\ Idle(v) /\ load'[v] = load[v] /\ load[v].at # "chains" /\ Relies(v)'
             /\ v = "callback" => load[v].at = "none"
    <2>1. Idle(v) /\ (v = "callback" => load[v].at = "none")
        BY <1>5, <1>6, Alone
    <2>2. load'[v] = load[v]
        BY <1>4, <1>6
    <2>3. load[v].at \notin {"copies", "chains", "closes"}
        BY <2>1 DEF Idle
    <2>4. load'[v].at \notin {"copies", "chains", "closes"}
        BY <2>2, <2>3, Zenon
    <2> QED  BY <2>1, <2>2, <2>3, <2>4 DEF Relies
<1>7. Chaining <=> load[w].at = "chains"
    BY <1>6 DEF Chaining
<1>8. Chaining' <=> at = "chains"
    BY <1>4, <1>6 DEF Chaining
<1>9. ASSUME Relies(w)'
      PROVE  Loading'
    <2>1. \A v \in Loaders : Relies(v)'
        BY <1>6, <1>9
    <2>2. load'["callback"].at # "none" => sdio_at' = "callback" /\ Idle("task")'
        <3>1. CASE w = "task"
            <4>1. "callback" \in Loaders /\ "callback" # w
                BY <3>1 DEF Loaders
            <4> QED  BY <1>6, <4>1
        <3>2. CASE w = "callback"
            <4>1. "task" \in Loaders /\ "task" # w
                BY <3>2 DEF Loaders
            <4>2. Idle("task") /\ load'["task"] = load["task"]
                BY <1>6, <4>1
            <4>3. sdio_at' = "callback"
                BY <1>5, <3>2 DEF MayRun
            <4> QED  BY <4>2, <4>3 DEF Idle
        <3> QED  BY <3>1, <3>2 DEF Loaders
    <2> QED  BY <2>1, <2>2, Zenon DEF Loading
<1> QED
    BY <1>3, <1>4, <1>7, <1>8, <1>9

\* Nothing else but the notes of the driver changes.
Notes ==
    /\ UNCHANGED <<rxlink, txlink, sdio_status, sdio_int_st, torn>>
    /\ has_read' \in BOOLEAN /\ stopped' \in BOOLEAN

LEMMA StillStep ==
    ASSUME SdioAssumption, SdioInv, NEW w \in Loaders,
           NEW at \in LoadPlaces \ {"chains"}, NEW rest \in 0..MaxLoad, Steps(w, at, rest),
           load[w].at # "chains", ListsKept, Notes, Relies(w)'
    PROVE  SdioInv'
<1>1. /\ load' \in [Loaders -> [at : LoadPlaces, todo : 0..MaxLoad]]
      /\ ~Chaining /\ Loading'
    BY Going
<1>2. SdioTypeOK'
    <2>1. /\ tosend' = tosend /\ sended' = sended /\ buffer' = buffer /\ sdio_read' = sdio_read
          /\ sdio_taken' = sdio_taken /\ sdio_due' = sdio_due /\ sdio_told' = sdio_told
          /\ rxlink' = rxlink /\ txlink' = txlink /\ sdio_status' = sdio_status
          /\ sdio_int_st' = sdio_int_st /\ torn' = torn /\ sdio_at' = sdio_at
          /\ has_read' \in BOOLEAN /\ stopped' \in BOOLEAN
        BY DEF ListsKept, Notes, Steps
    <2> QED  BY <1>1, <2>1, Zenon DEF SdioInv, SdioTypeOK, LoadPlaces
<1>3. Links'
    BY Zenon DEF SdioInv, Links, ListsKept, Notes
<1> QED
    BY <1>1, <1>2, <1>3, KeptStep

LEMMA StartStepOfLoad ==
    ASSUME SdioAssumption, SdioInv, NEW w \in Loaders, NEW len \in 0..MaxLoad, sdio_load_data(w, len)
    PROVE  SdioInv'
<1>1. Steps(w, "between", len) /\ ListsKept /\ load[w].at # "chains"
    BY DEF sdio_load_data, Steps, ListsKept, lists, history
<1>2. Notes
    BY DEF sdio_load_data, Notes, SdioInv, SdioTypeOK
<1>3. Relies(w)'
    <2>1. load'[w].at = "between"
        BY <1>1, Going DEF LoadPlaces
    <2> QED  BY <2>1 DEF Relies
<1>4. "between" \in LoadPlaces \ {"chains"}
    BY DEF LoadPlaces
<1> QED
    BY <1>1, <1>2, <1>3, <1>4, StillStep

LEMMA TodoType ==
    ASSUME SdioAssumption, SdioInv, NEW w \in Loaders
    PROVE  load[w].todo \in 0..MaxLoad /\ load[w].todo \in Nat /\ 0 \in 0..MaxLoad
    BY DEF SdioInv, SdioTypeOK, SdioAssumption

LEMMA TurnStep ==
    ASSUME SdioAssumption, SdioInv, NEW w \in Loaders, Turn(w)
    PROVE  SdioInv'
<1>1. /\ Steps(w, "copies", load[w].todo) /\ ListsKept /\ load[w].at # "chains"
      /\ sended # <<>> /\ sended' = sended
    BY DEF Turn, Steps, ListsKept, lists, history
<1>2. Notes
    BY DEF Turn, Notes, SdioInv, SdioTypeOK
<1>3. load[w].todo \in 0..MaxLoad /\ "copies" \in LoadPlaces \ {"chains"}
    BY TodoType DEF LoadPlaces
<1>4. Relies(w)'
    <2>1. load'[w].at = "copies"
        BY <1>1, <1>3, Going
    <2> QED  BY <1>1, <2>1 DEF Relies
<1> QED
    BY <1>1, <1>2, <1>3, <1>4, StillStep

LEMMA LooksStep ==
    ASSUME SdioAssumption, SdioInv, NEW w \in Loaders, LooksAtQueue(w)
    PROVE  SdioInv'
<1>1. PICK at \in {"closes", "none"} :
         /\ Steps(w, at, 0) /\ (at = "closes" => tosend = <<>>)
         /\ ListsKept /\ load[w].at # "chains" /\ tosend' = tosend
    BY DEF LooksAtQueue, Steps, ListsKept, lists, history
<1>2. Notes
    BY DEF LooksAtQueue, Notes, SdioInv, SdioTypeOK
<1>3. 0 \in 0..MaxLoad /\ at \in LoadPlaces \ {"chains"}
    BY TodoType DEF LoadPlaces
<1>4. Relies(w)'
    <2>1. load'[w].at = at
        BY <1>1, <1>3, Going
    <2> QED  BY <1>1, <2>1 DEF Relies
<1> QED
    BY <1>1, <1>2, <1>3, <1>4, StillStep

LEMMA EndStepOfLoad ==
    ASSUME SdioAssumption, SdioInv, NEW w \in Loaders, LoadEnds(w)
    PROVE  SdioInv'
<1>1. Steps(w, "none", 0) /\ ListsKept /\ load[w].at # "chains"
    BY DEF LoadEnds, Steps, ListsKept, lists, history
<1>2. Notes
    BY DEF LoadEnds, Notes, SdioInv, SdioTypeOK
<1>3. 0 \in 0..MaxLoad /\ "none" \in LoadPlaces \ {"chains"}
    BY TodoType DEF LoadPlaces
<1>4. Relies(w)'
    <2>1. load'[w].at = "none"
        BY <1>1, <1>3, Going
    <2> QED  BY <2>1 DEF Relies
<1> QED
    BY <1>1, <1>2, <1>3, <1>4, StillStep

\* The first of the free buffers, and what lies behind it.
LEMMA FreeFirst ==
    ASSUME SdioAssumption, SdioInv, sended # <<>>
    PROVE  /\ Len(sended) \in Nat \ {0} /\ 1 \in 1..Len(sended)
           /\ sended[1] \in 1..Bufs /\ Head(sended) = sended[1]
           /\ buffer[sended[1]] \in Seq(0..(Count - 1)) /\ Len(buffer[sended[1]]) <= BufSize
           /\ Filling \in Nat /\ Filling = Len(buffer[sended[1]])
           /\ \A i \in 2..Len(sended) : Len(buffer[sended[i]]) = 0
<1>1. Len(sended) \in Nat \ {0} /\ 1 \in 1..Len(sended)
    BY ListsType, EmptySeq
<1>2. sended[1] \in 1..Bufs
    BY <1>1, ListsType
<1>3. /\ buffer[sended[1]] \in Seq(0..(Count - 1))
      /\ Len(buffer[sended[1]]) \in Nat /\ Len(buffer[sended[1]]) <= BufSize
    BY <1>2, BufferType
<1>4. \A i \in 2..Len(sended) : Len(buffer[sended[i]]) = 0
    BY Zenon DEF SdioInv, Shape
<1>5. Filling = Len(buffer[sended[1]])
    BY Zenon DEF Filling
<1>6. Head(sended) = sended[1]
    OBVIOUS
<1> QED
    BY <1>1, <1>2, <1>3, <1>4, <1>5, <1>6

\* The place where the free buffers begin.
LoadAt == Place(Len(tosend) + 1)

LEMMA HeadAndTail ==
    ASSUME NEW T, NEW s, s \in Seq(T), NEW S \in Nat, S = Len(s), s # <<>>
    PROVE  /\ <<s[1]>> \in Seq(T) /\ Len(<<s[1]>>) = 1
           /\ Tail(s) \in Seq(T) /\ Len(Tail(s)) = S - 1
           /\ <<s[1]>> \o Tail(s) = s
<1> DEFINE r == Tail(s)
           h == <<s[1]>>
<1>1. r \in Seq(T) /\ Len(r) = S - 1 /\ \A i \in 1..(S - 1) : r[i] = s[i + 1]
    <2>1. /\ r \in Seq(T) /\ Len(r) = Len(s) - 1
          /\ \A i \in 1..Len(r) : r[i] = s[i + 1]
        BY HeadTailProperties
    <2> QED  BY <2>1
<1>2. s[1] \in T /\ S >= 1
    BY EmptySeq, ElementOfSeq
<1>3. h \in Seq(T) /\ Len(h) = 1 /\ h[1] = s[1]
    BY ONLY <1>2
<1> HIDE DEF r, h
<1>4. /\ h \o r \in Seq(T) /\ Len(h \o r) = 1 + (S - 1)
      /\ \A i \in 1..(1 + (S - 1)) : (h \o r)[i] = IF i <= 1 THEN h[i] ELSE r[i - 1]
    <2>1. PICK a \in Seq(T), b \in Seq(T) : a = h /\ b = r
        BY <1>1, <1>3
    <2>2. /\ a \o b \in Seq(T) /\ Len(a \o b) = Len(a) + Len(b)
          /\ \A i \in 1..(Len(a) + Len(b)) : (a \o b)[i] = IF i <= Len(a) THEN a[i] ELSE b[i - Len(a)]
        BY ConcatProperties
    <2>3. Len(a) = 1 /\ Len(b) = S - 1
        BY <1>1, <1>3, <2>1, Zenon
    <2> QED  BY ONLY <2>1, <2>2, <2>3, Zenon
<1>5. 1 + (S - 1) = S
    OBVIOUS
<1>6. ASSUME NEW i \in 1..S
      PROVE  (h \o r)[i] = s[i]
    <2>1. CASE i = 1
        BY <1>3, <1>4, <1>5, <2>1
    <2>2. CASE i # 1
        <3>1. i - 1 \in 1..(S - 1) /\ (i - 1) + 1 = i /\ ~(i <= 1)
            BY <2>2
        <3>2. (h \o r)[i] = r[i - 1]
            BY <1>4, <1>5, <3>1, Zenon
        <3> QED  BY <1>1, <3>1, <3>2
    <2> QED  BY <2>1, <2>2
<1>7. h \o r = s
    BY <1>4, <1>5, <1>6, SeqEqual
<1> QED
    BY <1>1, <1>3, <1>7 DEF h, r

---------------------------------------------------------------------------
(* The first of the free buffers goes to the end of the queue: a full one, *)
(* or any if nothing is to be sent.                                        *)

FirstTaken ==
    /\ sended # <<>> /\ (tosend = <<>> \/ Len(buffer[sended[1]]) = BufSize)
    /\ tosend' = Append(tosend, sended[1]) /\ sended' = Tail(sended)
    /\ UNCHANGED <<buffer, sdio_taken, sdio_due, sdio_told, sdio_read>>

LEMMA HandedOn ==
    ASSUME NEW T, NEW t \in Seq(T), NEW s \in Seq(T), s # <<>>
    PROVE  Append(t, s[1]) \o Tail(s) = t \o s
<1>1. PICK S \in Nat : S = Len(s)
    OBVIOUS
<1>2. /\ <<s[1]>> \in Seq(T) /\ Tail(s) \in Seq(T) /\ <<s[1]>> \o Tail(s) = s
    BY <1>1, HeadAndTail
<1>3. s[1] \in T
    BY <1>1, EmptySeq, ElementOfSeq
<1>4. Append(t, s[1]) = t \o <<s[1]>>
    BY <1>3, AppendIsConcat
<1>5. (t \o <<s[1]>>) \o Tail(s) = t \o (<<s[1]>> \o Tail(s))
    BY ONLY <1>2, t \in Seq(T), ConcatAssociative
<1> QED
    BY <1>2, <1>4, <1>5, Zenon

LEMMA TakenLists ==
    ASSUME SdioAssumption, SdioInv, FirstTaken, NEW m \in Nat, m = Len(tosend), NEW S \in Nat, S = Len(sended)
    PROVE  /\ tosend' \in Seq(1..Bufs) /\ Len(tosend') = m + 1 /\ tosend' # <<>>
           /\ \A i \in 1..m : tosend'[i] = tosend[i]
           /\ tosend'[m + 1] = sended[1]
           /\ sended' \in Seq(1..Bufs) /\ Len(sended') = S - 1
           /\ \A i \in 1..(S - 1) : sended'[i] = sended[i + 1]
           /\ Lists' = Lists /\ S # 0
<1>1. sended # <<>> /\ tosend' = Append(tosend, sended[1]) /\ sended' = Tail(sended)
    BY DEF FirstTaken
<1>2. tosend \in Seq(1..Bufs) /\ sended \in Seq(1..Bufs)
    BY ListsType
<1>3. sended[1] \in 1..Bufs
    BY <1>1, FreeFirst
<1>4. Longer(tosend', tosend, sended[1], m, 1..Bufs)
    <2>1. Len(tosend) = m
        OBVIOUS
    <2>2. Longer(Append(tosend, sended[1]), tosend, sended[1], m, 1..Bufs)
        BY ONLY <1>2, <1>3, <2>1, Appended
    <2> QED  BY <1>1, <2>2, Zenon
<1>5. /\ sended' \in Seq(1..Bufs) /\ Len(sended') = S - 1
      /\ \A i \in 1..(S - 1) : sended'[i] = sended[i + 1]
    <2>1. /\ Tail(sended) \in Seq(1..Bufs) /\ Len(Tail(sended)) = Len(sended) - 1
          /\ \A i \in 1..Len(Tail(sended)) : Tail(sended)[i] = sended[i + 1]
        BY ONLY <1>1, <1>2, HeadTailProperties
    <2> QED  BY <1>1, <2>1, Zenon
<1>6. Lists' = Lists
    <2>1. Append(tosend, sended[1]) \o Tail(sended) = tosend \o sended
        BY ONLY <1>1, <1>2, HandedOn
    <2> QED  BY <1>1, <2>1, Zenon DEF Lists
<1>7. S # 0
    BY <1>1, <1>2, EmptySeq
<1> QED
    BY <1>4, <1>5, <1>6, <1>7, Zenon DEF Longer

LEMMA TakenKeeps ==
    ASSUME SdioAssumption, SdioInv, FirstTaken, SdioTypeOK', Links', Loading'
    PROVE  SdioInv'
<1>p. PICK m \in Nat, S \in Nat : m = Len(tosend) /\ S = Len(sended)
    BY ListsType
<1>1. /\ tosend' \in Seq(1..Bufs) /\ Len(tosend') = m + 1 /\ tosend' # <<>>
      /\ \A i \in 1..m : tosend'[i] = tosend[i]
      /\ tosend'[m + 1] = sended[1]
      /\ sended' \in Seq(1..Bufs) /\ Len(sended') = S - 1
      /\ \A i \in 1..(S - 1) : sended'[i] = sended[i + 1]
      /\ Lists' = Lists /\ S # 0
    BY <1>p, TakenLists
<1>2. /\ sended # <<>> /\ (tosend = <<>> \/ Len(buffer[sended[1]]) = BufSize)
      /\ buffer' = buffer /\ sdio_read' = sdio_read
      /\ sdio_taken' = sdio_taken /\ sdio_due' = sdio_due /\ sdio_told' = sdio_told
    BY DEF FirstTaken
<1>3. /\ Filling \in Nat /\ Filling = Len(buffer[sended[1]])
      /\ \A i \in 2..S : Len(buffer[sended[i]]) = 0
    BY <1>p, <1>2, FreeFirst
<1>4. m + S = Bufs /\ BufSize \in Nat \ {0} /\ (tosend = <<>> <=> m = 0)
    BY <1>p, ListsType, EmptySeq
<1>5. First' = First
    BY <1>1, <1>2, Zenon DEF First, ToCome
<1>6. Complete' /\ Apart'
    <2>1. Len(tosend') + Len(sended') = Bufs
        <3>1. (m + 1) + (S - 1) = Bufs
            BY <1>4
        <3> QED  BY <1>1, <3>1, Zenon
    <2> QED  BY <1>1, <2>1, Zenon DEF SdioInv, Complete, Apart
<1>7. \A i \in 1..(S - 1) : Len(buffer'[sended'[i]]) = 0
    <2>1. ASSUME NEW i \in 1..(S - 1)
          PROVE  Len(buffer'[sended'[i]]) = 0
        <3>1. i + 1 \in 2..S
            OBVIOUS
        <3>2. sended'[i] = sended[i + 1] /\ Len(buffer[sended[i + 1]]) = 0
            BY <1>1, <1>3, <3>1, Zenon
        <3> QED  BY <1>2, <3>2, Zenon
    <2> QED  BY <2>1
<1>8. Shape'
    <2>1. ASSUME NEW i \in 2..Len(tosend')
          PROVE  Len(buffer'[tosend'[i]]) = BufSize
        <3>1. i \in 2..(m + 1)
            BY <1>1, Zenon
        <3>2. CASE i = m + 1
            <4>1. m # 0
                BY <3>1, <3>2
            <4> QED  BY <1>1, <1>2, <1>4, <3>2, <4>1, Zenon
        <3>3. CASE i # m + 1
            <4>1. i \in 1..m /\ i \in 2..m
                BY <3>1, <3>3
            <4>2. tosend'[i] = tosend[i]
                BY <1>1, <4>1, Zenon
            <4>3. Len(buffer[tosend[i]]) = BufSize
                BY <1>p, <4>1, Zenon DEF SdioInv, Shape
            <4> QED  BY <1>2, <4>2, <4>3, Zenon
        <3> QED  BY <3>2, <3>3
    <2>2. ASSUME sended' # <<>>
          PROVE  Len(buffer'[sended'[1]]) < BufSize
        <3>1. Len(sended') # 0
            BY <1>1, <2>2, EmptySeq
        <3>2. S - 1 # 0
            BY <1>1, <3>1, Zenon
        <3>3. 1 \in 1..(S - 1)
            BY <1>1, <3>2
        <3> QED  BY <1>4, <1>7, <3>3
    <2>3. \A i \in 2..Len(sended') : Len(buffer'[sended'[i]]) = 0
        <3>1. \A i \in 2..(S - 1) : i \in 1..(S - 1)
            OBVIOUS
        <3> QED  BY <1>1, <1>7, <3>1, Zenon
    <2> QED  BY <2>1, <2>2, <2>3, Zenon DEF Shape
<1>9. Bytes'
    BY <1>1, <1>2, <1>5, Zenon DEF SdioInv, Bytes, Place, ToCome
<1>10. Total' = Total
    <2>1. Filling' = 0
        <3>1. CASE sended' = <<>>
            BY <3>1, Zenon DEF Filling
        <3>2. CASE sended' # <<>>
            <4>1. Len(sended') # 0
                BY <1>1, <3>2, EmptySeq
            <4>2. S - 1 # 0
                BY <1>1, <4>1, Zenon
            <4>3. 1 \in 1..(S - 1)
                BY <1>1, <4>2
            <4> QED  BY <1>7, <3>2, <4>3, Zenon DEF Filling
        <3> QED  BY <3>1, <3>2
    <2>2. PICK e \in Nat \ {0} : e = m + 1
        OBVIOUS
    <2>3. Total = Place(e) + Filling /\ Place(e) \in Nat
        BY <1>p, <2>2, PlaceType, Zenon DEF Total
    <2>4. Total' = Place(e + 1) + 0
        BY <1>1, <1>5, <2>1, <2>2, Zenon DEF Total, Place
    <2>5. Place(e + 1) = Place(e) + Filling
        <3>1. CASE m = 0
            <4>1. ToCome
                BY <1>4, <3>1, Zenon DEF SdioInv, Links, ToCome
            <4>2. Lists[1] = sended[1]
                <5>1. 1 \in 1..Len(sended) /\ Len(tosend) + 1 = 1
                    BY <1>p, <1>1, <3>1
                <5> QED  BY <5>1, ListsType
            <4>3. First = Filling
                BY <1>3, <4>1, <4>2, Zenon DEF First
            <4>4. e = 1 /\ e + 1 = 2
                BY <2>2, <3>1
            <4>5. Place(1) = 0 /\ Place(2) = First
                BY PlaceType
            <4> QED  BY <1>3, <4>3, <4>4, <4>5
        <3>2. CASE m # 0
            <4>1. Filling = BufSize
                BY <1>2, <1>3, <1>4, <3>2, Zenon
            <4>2. e \in Nat \ {0, 1}
                BY <2>2, <3>2
            <4> QED  BY <4>1, <4>2, PlaceType
        <3> QED  BY <3>1, <3>2
    <2>6. Place(e + 1) \in Nat
        BY <1>3, <2>3, <2>5
    <2> QED  BY <2>3, <2>4, <2>5, <2>6
<1>11. /\ sdio_taken' = Number(sdio_due' + Total') /\ sdio_told' /\ DOMAIN buffer' = 1..Bufs
    BY <1>2, <1>10, Zenon DEF SdioInv
<1> QED
    BY <1>6, <1>8, <1>9, <1>11, Zenon DEF SdioInv

LEMMA ChainsStep ==
    ASSUME SdioAssumption, SdioInv, NEW w \in Loaders, Chains(w)
    PROVE  SdioInv'
<1>1. load[w].at = "chains"
    BY DEF Chains
<1>2. Relies(w)
    BY DEF SdioInv, Loading
<1>3. sended # <<>> /\ Len(buffer[sended[1]]) = BufSize
    BY <1>1, <1>2 DEF Relies
<1>4. Head(sended) = sended[1]
    OBVIOUS
<1>5. FirstTaken
    BY <1>3, <1>4, Zenon DEF Chains, FirstTaken, history
<1>6. /\ has_read' = has_read /\ rxlink' = rxlink /\ txlink' = txlink /\ sdio_status' = sdio_status
      /\ sdio_int_st' = sdio_int_st /\ sdio_at' = sdio_at /\ torn' = torn
      /\ stopped' = (stopped \/ tosend = <<>>)
    BY DEF Chains
<1>7. PICK rest \in 0..MaxLoad : Steps(w, "between", rest)
    <2>1. load[w].todo \in 0..MaxLoad /\ 0 \in 0..MaxLoad
        BY TodoType
    <2>2. \E rest \in {0, load[w].todo} : Goes(w, "between", rest)
        BY DEF Chains
    <2> QED  BY <1>1, <1>6, <2>1, <2>2 DEF Chains, Steps
<1>8. /\ load' \in [Loaders -> [at : LoadPlaces, todo : 0..MaxLoad]]
      /\ load'[w].at = "between" /\ (Relies(w)' => Loading')
    BY <1>7, Going DEF LoadPlaces
<1>9. Loading'
    BY <1>8 DEF Relies
<1>10. /\ tosend' \in Seq(1..Bufs) /\ sended' \in Seq(1..Bufs) /\ tosend' # <<>>
       /\ tosend # <<>> => tosend'[1] = tosend[1]
    <2>1. PICK m \in Nat, S \in Nat : m = Len(tosend) /\ S = Len(sended)
        BY ListsType
    <2>2. tosend # <<>> => 1 \in 1..m
        BY <2>1, ListsType, EmptySeq
    <2> QED  BY <1>5, <2>1, <2>2, TakenLists
<1>11. buffer' = buffer /\ sdio_read' = sdio_read
    BY <1>5 DEF FirstTaken
<1>12. SdioTypeOK'
    <2>1. sdio_taken' = sdio_taken /\ sdio_due' = sdio_due /\ sdio_told' = sdio_told
        BY <1>5 DEF FirstTaken
    <2>2. stopped' \in BOOLEAN
        BY <1>6
    <2> QED  BY <1>6, <1>8, <1>10, <1>11, <2>1, <2>2, Zenon DEF SdioInv, SdioTypeOK, LoadPlaces
<1>13. Links'
    BY <1>6, <1>10, <1>11, Zenon DEF SdioInv, Links
<1> QED
    BY <1>5, <1>9, <1>12, <1>13, TakenKeeps

LEMMA OffersStep ==
    ASSUME SdioAssumption, SdioInv, NEW w \in Loaders, Offers(w)
    PROVE  SdioInv'
<1>1. load[w].at = "closes"
    BY DEF Offers
<1>2. tosend = <<>>
    BY <1>1 DEF SdioInv, Loading, Relies
<1>3. Bufs \in Nat \ {0} /\ Len(sended) = Bufs /\ sended # <<>>
    <2>1. Len(tosend) = 0
        BY <1>2
    <2> QED  BY <2>1, ListsType
<1>4. /\ Head(sended) = sended[1] /\ sended[1] \in 1..Bufs
      /\ buffer[sended[1]] \in Seq(0..(Count - 1)) /\ Len(buffer[sended[1]]) <= BufSize
    BY <1>3, FreeFirst
<1>5. FirstTaken
    <2>1. <<sended[1]>> = Append(<<>>, sended[1])
        BY ONLY <1>4
    <2> QED  BY <1>2, <1>3, <1>4, <2>1, Zenon DEF Offers, FirstTaken, history
<1>6. /\ has_read' = has_read /\ txlink' = txlink /\ sdio_int_st' = sdio_int_st /\ sdio_at' = sdio_at
      /\ torn' = torn
    BY DEF Offers
<1>7. PICK at \in {"offers", "none"} : Steps(w, at, 0)
    BY <1>1, <1>6 DEF Offers, Steps
<1>8. /\ load' \in [Loaders -> [at : LoadPlaces, todo : 0..MaxLoad]]
      /\ load'[w].at = at /\ (Relies(w)' => Loading')
    BY <1>7, TodoType, Going DEF LoadPlaces
<1>9. Loading'
    BY <1>8 DEF Relies
<1>10. /\ tosend' \in Seq(1..Bufs) /\ sended' \in Seq(1..Bufs) /\ tosend' # <<>>
       /\ tosend'[1] = sended[1]
    <2>1. PICK m \in Nat, S \in Nat : m = Len(tosend) /\ S = Len(sended)
        BY ListsType
    <2>2. m = 0 /\ m + 1 = 1
        BY <1>2, <2>1
    <2> QED  BY <1>5, <2>1, <2>2, TakenLists
<1>11. buffer' = buffer /\ sdio_read' = sdio_read /\ ~sdio_read /\ rxlink = FALSE
    BY <1>2, <1>5 DEF FirstTaken, SdioInv, Links, SdioTypeOK
<1>12. sdio_status \in Register
    BY DEF SdioInv, SdioTypeOK, Register
<1>13. /\ sdio_status' \in Register /\ rxlink' \in BOOLEAN /\ stopped' \in BOOLEAN
       /\ rxlink' => sdio_status'.rx_length = Len(buffer[sended[1]])
    <2>1. PICK n \in 0..BufSize : n = Len(buffer[sended[1]])
        BY <1>4, ListsType
    <2>2. stopped \in BOOLEAN
        BY DEF SdioInv, SdioTypeOK
    <2>3. CASE has_read
        <3>1. rx_buff_load_done(sdio_status, n) /\ stopped' \in BOOLEAN
            BY <1>4, <2>1, <2>3, Zenon DEF Offers
        <3>2. CASE n = 0
            <4>1. sdio_status' = sdio_status /\ rxlink' = FALSE
                BY <1>11, <3>1, <3>2 DEF rx_buff_load_done
            <4> QED  BY <1>12, <3>1, <4>1, Zenon
        <3>3. CASE n # 0
            <4>1. sdio_status' \in Register /\ sdio_status'.rx_length = n
                BY <1>12, <3>1, <3>3, Offered
            <4>2. rxlink' = TRUE
                BY <3>1, <3>3 DEF rx_buff_load_done
            <4> QED  BY <2>1, <3>1, <4>1, <4>2
        <3> QED  BY <3>2, <3>3
    <2>4. CASE ~has_read
        <3>1. sdio_status' = sdio_status /\ rxlink' = FALSE /\ stopped' = stopped
            BY <1>11, <2>4 DEF Offers
        <3> QED  BY <1>12, <2>2, <3>1, Zenon
    <2> QED  BY <2>3, <2>4
<1>14. SdioTypeOK'
    <2>1. sdio_taken' = sdio_taken /\ sdio_due' = sdio_due /\ sdio_told' = sdio_told
        BY <1>5 DEF FirstTaken
    <2> QED  BY <1>6, <1>8, <1>10, <1>11, <1>13, <2>1, Zenon DEF SdioInv, SdioTypeOK, LoadPlaces, Register
<1>15. Links'
    BY <1>6, <1>10, <1>11, <1>13, Zenon DEF SdioInv, Links
<1> QED
    BY <1>5, <1>9, <1>14, <1>15, TakenKeeps

---------------------------------------------------------------------------
(* The first of the free buffers is filled up.                             *)

\* It has n bytes more, the next of those that are loaded.
Grown(n) ==
    /\ sended # <<>> /\ Len(buffer[sended[1]]) + n <= BufSize
    /\ buffer' = [buffer EXCEPT ![sended[1]] = @ \o Run(sdio_taken, n)]
    /\ sdio_taken' = Number(sdio_taken + n)
    /\ UNCHANGED <<tosend, sended, sdio_due, sdio_told, sdio_read>>

LEMMA RunNumbers ==
    ASSUME SdioAssumption, NEW a \in Int, NEW n \in Nat
    PROVE  /\ Run(a, n) \in Seq(0..(Count - 1)) /\ Len(Run(a, n)) = n
           /\ \A k \in 1..n : Run(a, n)[k] = Number(a + k - 1)
<1>1. \A k \in 1..n : Number(a + k - 1) \in 0..(Count - 1)
    <2>1. ASSUME NEW k \in 1..n
          PROVE  Number(a + k - 1) \in 0..(Count - 1)
        <3>1. a + k - 1 \in Int
            OBVIOUS
        <3> QED  BY <3>1, NumberType, Zenon
    <2> QED  BY <2>1
<1> DEFINE V == [k \in Nat |-> Number(a + k - 1)]
<1>2. \A k \in 1..n : V[k] = Number(a + k - 1)
    OBVIOUS
<1> HIDE DEF V
<1>3. Run(a, n) = Stretch(V, n)
    BY <1>2 DEF Run, Stretch
<1>4. \A k \in 1..n : V[k] \in 0..(Count - 1)
    BY <1>1, <1>2
<1> QED
    BY <1>2, <1>3, <1>4, RunValues, Zenon

\* The other buffers stay as they are.
LEMMA GrownIs ==
    ASSUME SdioAssumption, SdioInv, NEW n \in Nat, Grown(n), NEW L \in Nat, L = Len(buffer[sended[1]])
    PROVE  /\ DOMAIN buffer' = 1..Bufs
           /\ \A b \in 1..Bufs : b # sended[1] => buffer'[b] = buffer[b]
           /\ buffer'[sended[1]] \in Seq(0..(Count - 1)) /\ Len(buffer'[sended[1]]) = L + n
           /\ \A k \in 1..L : buffer'[sended[1]][k] = buffer[sended[1]][k]
           /\ \A k \in 1..n : buffer'[sended[1]][L + k] = Number(sdio_taken + k - 1)
<1> DEFINE s == buffer[sended[1]]
           r == Run(sdio_taken, n)
<1>1. sended # <<>> /\ buffer' = [buffer EXCEPT ![sended[1]] = @ \o r]
    BY DEF Grown
<1>2. sended[1] \in 1..Bufs /\ s \in Seq(0..(Count - 1)) /\ DOMAIN buffer = 1..Bufs
    BY <1>1, FreeFirst DEF SdioInv
<1>3. sdio_taken \in Int
    BY DEF SdioInv, SdioTypeOK
<1>4. /\ r \in Seq(0..(Count - 1)) /\ Len(r) = n
      /\ \A k \in 1..n : r[k] = Number(sdio_taken + k - 1)
    BY <1>3, RunNumbers
<1>5. /\ DOMAIN buffer' = 1..Bufs /\ buffer'[sended[1]] = s \o r
      /\ \A b \in 1..Bufs : b # sended[1] => buffer'[b] = buffer[b]
    <2> HIDE DEF r
    <2> QED  BY <1>1, <1>2
<1> HIDE DEF s, r
<1>6. /\ s \o r \in Seq(0..(Count - 1)) /\ Len(s \o r) = Len(s) + Len(r)
      /\ \A i \in 1..(Len(s) + Len(r)) : (s \o r)[i] = IF i <= Len(s) THEN s[i] ELSE r[i - Len(s)]
    BY ONLY <1>2, <1>4, ConcatProperties
<1>7. Len(s) = L
    BY DEF s
<1>8. ASSUME NEW k \in 1..L
      PROVE  (s \o r)[k] = s[k]
    <2>1. k \in 1..(L + n) /\ k <= L
        OBVIOUS
    <2> QED  BY <1>4, <1>6, <1>7, <2>1
<1>9. ASSUME NEW k \in 1..n
      PROVE  (s \o r)[L + k] = r[k]
    <2>1. L + k \in 1..(L + n) /\ ~(L + k <= L) /\ (L + k) - L = k
        OBVIOUS
    <2> QED  BY <1>4, <1>6, <1>7, <2>1
<1> QED
    BY <1>4, <1>5, <1>6, <1>7, <1>8, <1>9 DEF s

LEMMA GrownKeeps ==
    ASSUME SdioAssumption, SdioInv, NEW n \in Nat, Grown(n), SdioTypeOK', Links', Loading',
           ~Chaining' => Len(buffer[sended[1]]) + n < BufSize
    PROVE  SdioInv'
<1>1. /\ sended # <<>> /\ tosend' = tosend /\ sended' = sended
      /\ sdio_taken' = Number(sdio_taken + n) /\ sdio_due' = sdio_due /\ sdio_told' = sdio_told
      /\ sdio_read' = sdio_read
    BY DEF Grown
<1>2. Filling \in Nat /\ Filling = Len(buffer[sended[1]]) /\ sended[1] \in 1..Bufs
    BY <1>1, FreeFirst
<1>p. PICK L \in Nat, m \in Nat, S \in Nat \ {0} :
         L = Len(buffer[sended[1]]) /\ m = Len(tosend) /\ S = Len(sended)
    BY <1>1, <1>2, FreeFirst, ListsType
<1>3. /\ DOMAIN buffer' = 1..Bufs
      /\ \A b \in 1..Bufs : b # sended[1] => buffer'[b] = buffer[b]
      /\ Len(buffer'[sended[1]]) = L + n
      /\ \A k \in 1..L : buffer'[sended[1]][k] = buffer[sended[1]][k]
      /\ \A k \in 1..n : buffer'[sended[1]][L + k] = Number(sdio_taken + k - 1)
    BY <1>p, GrownIs
<1>4. /\ \A i \in 1..m : tosend[i] \in 1..Bufs /\ tosend[i] # sended[1]
      /\ \A i \in 2..S : sended[i] \in 1..Bufs /\ sended[i] # sended[1] /\ Len(buffer[sended[i]]) = 0
      /\ Lists[m + 1] = sended[1] /\ m + 1 \in 1..Bufs /\ Bufs = m + S
    <2>1. 1 \in 1..S /\ \A i \in 2..S : i \in 1..S /\ i # 1
        OBVIOUS
    <2>2. \A i \in 1..m : tosend[i] \in 1..Bufs /\ tosend[i] # sended[1]
        BY <1>p, <2>1, ListsType, ListsApart
    <2>3. \A i \in 2..S : sended[i] \in 1..Bufs /\ sended[i] # sended[1]
        BY <1>p, <2>1, ListsType, ListsApart
    <2>4. \A i \in 2..S : Len(buffer[sended[i]]) = 0
        BY <1>p, <1>1, FreeFirst
    <2>5. Lists[m + 1] = sended[1] /\ m + 1 \in 1..Bufs /\ Bufs = m + S
        BY <1>p, <2>1, ListsType
    <2> QED  BY <2>2, <2>3, <2>4, <2>5
<1>5. Lists' = Lists
    BY <1>1 DEF Lists
<1>6. Complete' /\ Apart'
    BY <1>1, <1>5, Zenon DEF SdioInv, Complete, Apart
<1>7. Shape'
    <2>1. ASSUME NEW i \in 2..Len(tosend)
          PROVE  Len(buffer'[tosend[i]]) = BufSize
        <3>1. i \in 1..m
            BY <1>p
        <3>2. Len(buffer[tosend[i]]) = BufSize
            BY Zenon DEF SdioInv, Shape
        <3> QED  BY <1>3, <1>4, <3>1, <3>2
    <2>2. ASSUME ~Chaining'
          PROVE  Len(buffer'[sended[1]]) < BufSize
        BY <1>p, <1>3, <2>2
    <2>3. \A i \in 2..Len(sended) : Len(buffer'[sended[i]]) = 0
        BY <1>p, <1>3, <1>4
    <2> QED  BY <1>1, <2>1, <2>2, <2>3, Zenon DEF Shape
<1>8. m # 0 => First' = First
    <2>1. ASSUME m # 0
          PROVE  buffer'[Lists[1]] = buffer[Lists[1]]
        <3>1. 1 \in 1..m
            BY <2>1
        <3>2. Lists[1] = tosend[1]
            BY <1>p, <3>1, ListsType
        <3> QED  BY <1>3, <1>4, <3>1, <3>2
    <2> QED  BY <1>1, <1>5, <2>1, Zenon DEF First, ToCome
<1>9. ASSUME NEW i \in 1..(m + 1)
      PROVE  Place(i)' = Place(i)
    <2>1. CASE m # 0
        BY <1>8, <2>1, Zenon DEF Place
    <2>2. CASE m = 0
        BY <2>2 DEF Place
    <2> QED  BY <2>1, <2>2
<1>10. Filling' = L + n
    BY <1>1, <1>3, Zenon DEF Filling
<1>11. PICK p \in Nat : p = Place(m + 1) /\ Total = p + L
    <2>1. Place(m + 1) \in Nat
        BY PlaceType
    <2>2. Total = Place(m + 1) + Filling
        BY <1>p, Zenon DEF Total
    <2> QED  BY <1>2, <1>p, <2>1, <2>2
<1>12. Total' = p + (L + n)
    <2>1. m + 1 \in 1..(m + 1)
        OBVIOUS
    <2>2. Total' = Place(m + 1)' + Filling'
        BY <1>p, <1>1, Zenon DEF Total, Place
    <2> QED  BY <1>9, <1>10, <1>11, <2>1, <2>2, Zenon
<1>13. sdio_due \in Int /\ sdio_taken = Number(sdio_due + (p + L))
    <2>1. sdio_due \in Int
        BY DEF SdioInv, SdioTypeOK
    <2>2. sdio_taken = Number(sdio_due + Total)
        BY DEF SdioInv
    <2> QED  BY <1>11, <2>1, <2>2, Zenon
<1>14. Bytes'
    <2>1. Bytes
        BY DEF SdioInv
    <2>2. ASSUME NEW i \in 1..Bufs, i = 1 => ToCome, NEW k \in 1..Len(buffer'[Lists[i]])
          PROVE  buffer'[Lists[i]][k] = Number(sdio_due + (Place(i)' + (k - 1)))
        <3>1. CASE i <= m
            <4>1. i \in 1..m /\ i \in 1..(m + 1)
                BY <3>1
            <4>2. Lists[i] = tosend[i]
                BY <1>p, <4>1, ListsType
            <4>3. buffer'[Lists[i]] = buffer[Lists[i]]
                BY <1>3, <1>4, <4>1, <4>2
            <4>4. Place(i)' = Place(i)
                BY <1>9, <4>1
            <4> QED  BY <2>1, <2>2, <4>3, <4>4, Zenon DEF Bytes
        <3>2. CASE i = m + 1
            <4>1. Lists[i] = sended[1] /\ Place(i)' = p /\ Place(i) = p
                <5>1. i \in 1..(m + 1)
                    BY <3>2
                <5> QED  BY <1>4, <1>9, <1>11, <3>2, <5>1
            <4>2. k \in 1..(L + n)
                BY <1>3, <2>2, <4>1, Zenon
            <4>3. CASE k <= L
                <5>1. k \in 1..L /\ k \in 1..Len(buffer[Lists[i]])
                    BY <1>p, <4>1, <4>2, <4>3
                <5>2. buffer[Lists[i]][k] = Number(sdio_due + (Place(i) + (k - 1)))
                    BY <2>1, <2>2, <5>1, Zenon DEF Bytes
                <5> QED  BY <1>3, <4>1, <5>1, <5>2, Zenon
            <4>4. CASE ~(k <= L)
                <5>1. PICK j \in 1..n : k = L + j
                    <6>1. k - L \in 1..n /\ k = L + (k - L)
                        BY <4>2, <4>4
                    <6> QED  BY <6>1
                <5>2. buffer'[sended[1]][k] = Number(sdio_taken + j - 1)
                    BY <1>3, <5>1, Zenon
                <5>3. sdio_taken + j - 1 = sdio_taken + (j - 1) /\ sdio_taken \in Int
                    BY DEF SdioInv, SdioTypeOK
                <5>4. Number(Number(sdio_due + (p + L)) + (j - 1)) = Number((sdio_due + (p + L)) + (j - 1))
                    <6>1. sdio_due + (p + L) \in Int /\ j - 1 \in Int
                        BY <1>13
                    <6> QED  BY <6>1, NumberOn
                <5>5. (sdio_due + (p + L)) + (j - 1) = sdio_due + (p + (k - 1))
                    BY <1>13, <5>1
                <5> QED  BY <1>13, <4>1, <5>2, <5>3, <5>4, <5>5, Zenon
            <4> QED  BY <4>3, <4>4
        <3>3. CASE i > m + 1
            <4>1. PICK j \in 2..S : i = m + j
                <5>1. i - m \in 2..S /\ i = m + (i - m)
                    BY <1>4, <3>3
                <5> QED  BY <5>1
            <4>2. j \in 1..S
                OBVIOUS
            <4>3. Lists[i] = sended[j]
                BY <1>p, <4>1, <4>2, ListsType
            <4>4. Len(buffer'[Lists[i]]) = 0
                BY <1>3, <1>4, <4>1, <4>3
            <4>5. k \in 1..0
                BY <2>2, <4>4, Zenon
            <4> QED  BY <4>5
        <3> QED  BY <1>4, <3>1, <3>2, <3>3
    <2> QED  BY <1>1, <1>5, <2>2, Zenon DEF Bytes, ToCome
<1>15. sdio_taken' = Number(sdio_due' + Total')
    <2>1. Number(Number(sdio_due + (p + L)) + n) = Number((sdio_due + (p + L)) + n)
        <3>1. sdio_due + (p + L) \in Int
            BY <1>13
        <3> QED  BY <3>1, NumberOn
    <2>2. (sdio_due + (p + L)) + n = sdio_due + (p + (L + n))
        BY <1>13
    <2> QED  BY <1>1, <1>12, <1>13, <2>1, <2>2, Zenon
<1>16. sdio_told' /\ DOMAIN buffer' = 1..Bufs
    BY <1>1, <1>3, Zenon DEF SdioInv
<1> QED
    BY <1>6, <1>7, <1>14, <1>15, <1>16, Zenon DEF SdioInv

LEMMA FillsStep ==
    ASSUME SdioAssumption, SdioInv, NEW w \in Loaders, Fills(w)
    PROVE  SdioInv'
<1>1. load[w].at = "copies"
    BY DEF Fills
<1>2. sended # <<>>
    BY <1>1 DEF SdioInv, Loading, Relies
<1>3. /\ sended[1] \in 1..Bufs /\ Head(sended) = sended[1]
      /\ Len(buffer[sended[1]]) \in Nat /\ Len(buffer[sended[1]]) <= BufSize /\ BufSize \in Nat
    BY <1>2, FreeFirst, ListsType
<1>p. PICK L \in Nat, todo1 \in 0..MaxLoad, room \in Nat :
         /\ L = Len(buffer[sended[1]]) /\ todo1 = load[w].todo
         /\ room = BufSize - L
    <2>1. load[w].todo \in 0..MaxLoad
        BY TodoType
    <2>2. BufSize - Len(buffer[sended[1]]) \in Nat
        BY <1>3
    <2> QED  BY <1>3, <2>1, <2>2
<1>0. L + room = BufSize /\ todo1 \in Nat /\ MaxLoad \in Nat
    BY <1>3, <1>p DEF SdioAssumption
<1>4. PICK n \in Nat : /\ n = (IF todo1 < room THEN todo1 ELSE room)
                       /\ buffer' = [buffer EXCEPT ![sended[1]] = @ \o Run(sdio_taken, n)]
                       /\ sdio_taken' = Number(sdio_taken + n)
                       /\ IF todo1 < room
                          THEN Goes(w, "between", 0)
                          ELSE Goes(w, "chains", todo1 - n)
    <2>1. (IF todo1 < room THEN todo1 ELSE room) \in Nat
        BY <1>0
    <2> QED  BY <1>3, <1>p, <2>1, Zenon DEF Fills
<1>5. /\ tosend' = tosend /\ sended' = sended /\ has_read' = has_read /\ rxlink' = rxlink /\ txlink' = txlink
      /\ sdio_status' = sdio_status /\ sdio_int_st' = sdio_int_st /\ sdio_at' = sdio_at
      /\ sdio_due' = sdio_due /\ sdio_told' = sdio_told /\ sdio_read' = sdio_read
      /\ stopped' = stopped /\ torn' = torn /\ MayRun(w)
    BY DEF Fills, lists
<1>6. L + n <= BufSize /\ n <= todo1
    BY <1>0, <1>4
<1>7. Grown(n)
    BY <1>2, <1>4, <1>5, <1>6, <1>p, Zenon DEF Grown
<1>8. PICK at \in {"between", "chains"}, rest \in 0..MaxLoad :
         /\ Steps(w, at, rest)
         /\ at = "between" => L + n < BufSize
         /\ at = "chains" => L + n = BufSize
    <2>1. CASE todo1 < room
        <3>1. Goes(w, "between", 0) /\ L + n < BufSize /\ 0 \in 0..MaxLoad
            BY <1>0, <1>4, <2>1
        <3>2. Steps(w, "between", 0)
            BY <1>1, <1>5, <3>1 DEF Steps
        <3> QED  BY <3>1, <3>2
    <2>2. CASE ~(todo1 < room)
        <3>1. Goes(w, "chains", todo1 - n) /\ L + n = BufSize /\ todo1 - n \in 0..MaxLoad
            BY <1>0, <1>4, <1>6, <2>2
        <3>2. Steps(w, "chains", todo1 - n)
            BY <1>1, <1>5, <3>1 DEF Steps
        <3> QED  BY <3>1, <3>2
    <2> QED  BY <2>1, <2>2
<1>9. /\ load' \in [Loaders -> [at : LoadPlaces, todo : 0..MaxLoad]]
      /\ load'[w].at = at /\ (Chaining' <=> at = "chains") /\ (Relies(w)' => Loading')
    BY <1>8, Going DEF LoadPlaces
<1>10. /\ DOMAIN buffer' = 1..Bufs
       /\ \A b \in 1..Bufs : b # sended[1] => buffer'[b] = buffer[b]
       /\ buffer'[sended[1]] \in Seq(0..(Count - 1)) /\ Len(buffer'[sended[1]]) = L + n
    BY <1>7, <1>p, GrownIs
<1>11. Loading'
    <2>1. Relies(w)'
        BY <1>2, <1>5, <1>8, <1>9, <1>10, Zenon DEF Relies
    <2> QED  BY <1>9, <2>1
<1>12. SdioTypeOK'
    <2>1. ASSUME NEW b \in 1..Bufs
          PROVE  buffer'[b] \in Seq(0..(Count - 1)) /\ Len(buffer'[b]) <= BufSize
        <3>1. CASE b = sended[1]
            BY <1>6, <1>10, <3>1
        <3>2. CASE b # sended[1]
            BY <1>10, <3>2, BufferType
        <3> QED  BY <3>1, <3>2
    <2>2. sdio_taken' \in 0..(Count - 1)
        <3>1. sdio_taken \in Int
            BY DEF SdioInv, SdioTypeOK
        <3>2. sdio_taken + n \in Int
            BY <3>1
        <3> QED  BY <1>4, <3>2, NumberType, Zenon
    <2> QED  BY <1>5, <1>9, <2>1, <2>2, Zenon DEF SdioInv, SdioTypeOK, LoadPlaces
<1>13. Links'
    <2>1. ASSUME tosend # <<>>
          PROVE  buffer'[tosend[1]] = buffer[tosend[1]]
        <3>1. 1 \in 1..Len(tosend) /\ 1 \in 1..Len(sended)
            BY <1>2, <2>1, ListsType, EmptySeq
        <3>2. tosend[1] \in 1..Bufs /\ tosend[1] # sended[1]
            BY <3>1, ListsType, ListsApart
        <3> QED  BY <1>10, <3>2
    <2> QED  BY <1>5, <2>1, Zenon DEF SdioInv, Links
<1>14. ~Chaining' => Len(buffer[sended[1]]) + n < BufSize
    BY <1>8, <1>9, <1>p, Zenon
<1> QED
    BY <1>7, <1>11, <1>12, <1>13, <1>14, GrownKeeps

LEMMA LoadsStep ==
    ASSUME SdioAssumption, SdioInv, NEW w \in Loaders, Loads(w)
    PROVE  SdioInv'
<1>1. CASE Turn(w)
    BY <1>1, TurnStep
<1>2. CASE Fills(w)
    BY <1>2, FillsStep
<1>3. CASE Chains(w)
    BY <1>3, ChainsStep
<1>4. CASE LooksAtQueue(w)
    BY <1>4, LooksStep
<1>5. CASE Offers(w)
    BY <1>5, OffersStep
<1>6. CASE LoadEnds(w)
    BY <1>6, EndStepOfLoad
<1> QED
    BY <1>1, <1>2, <1>3, <1>4, <1>5, <1>6, Zenon DEF Loads

---------------------------------------------------------------------------
(* What holds of every state.                                              *)

LEMMA NextKeeps ==
    ASSUME SdioAssumption, SdioInv, [SdioNext]_sdioVars
    PROVE  SdioInv'
<1>1. CASE \E w \in Loaders, n \in 0..MaxLoad : sdio_load_data(w, n)
    BY <1>1, StartStepOfLoad
<1>8. CASE \E w \in Loaders : Loads(w)
    BY <1>8, LoadsStep
<1>9. CASE Tears
    BY <1>9, TearsStep
<1>2. CASE HostReads
    BY <1>2, HostReadsStep
<1>3. CASE HostWrites
    BY <1>3, HostWritesStep
<1>4. CASE Isr
    BY <1>4, IsrStep
<1>5. CASE HandleDone
    BY <1>5, HandleDoneStep
<1>6. CASE IsrEnd
    BY <1>6, IsrEndStep
<1>7. CASE UNCHANGED sdioVars
    BY <1>7, Stutter
<1> QED
    BY <1>1, <1>2, <1>3, <1>4, <1>5, <1>6, <1>7, <1>8, <1>9, Zenon DEF SdioNext

\* In every state the lists hold each buffer once, the queue is full but for its
\* head, and every byte in a buffer has the number of its place: SdioInv.
THEOREM SdioInvHolds ==
    ASSUME SdioAssumption
    PROVE  SdioSpec => []SdioInv
<1>1. SdioInit => SdioInv
    BY InitHolds
<1>2. SdioInv /\ [SdioNext]_sdioVars => SdioInv'
    BY NextKeeps
<1> QED
    BY <1>1, <1>2, PTL DEF SdioSpec

---------------------------------------------------------------------------
(* What the host has still to read.                                        *)

\* The numbers from due on.
Numbers == [k \in Nat |-> Number(sdio_due + (k - 1))]

Later == [k \in Nat |-> Number(sdio_due + (LoadAt + (k - 1)))]

LEMMA StartType ==
    ASSUME SdioAssumption, SdioInv
    PROVE  LoadAt \in Nat /\ Filling \in Nat /\ sdio_due \in Int /\ Total = LoadAt + Filling
<1>1. PICK e \in Nat \ {0} : e = Len(tosend) + 1
    BY ListsType
<1>2. Place(e) \in Nat
    BY PlaceType
<1>3. LoadAt \in Nat
    BY <1>1, <1>2, Zenon DEF LoadAt
<1>4. Filling \in Nat
    <2>1. CASE sended = <<>>
        BY <2>1 DEF Filling
    <2>2. CASE sended # <<>>
        BY <2>2, FreeFirst
    <2> QED  BY <2>1, <2>2
<1>5. sdio_due \in Int
    BY DEF SdioInv, SdioTypeOK
<1>6. Total = LoadAt + Filling
    BY Zenon DEF Total, LoadAt
<1> QED
    BY <1>3, <1>4, <1>5, <1>6

LEMMA EmptyComes ==
    ASSUME SdioAssumption, SdioInv, ~ToCome
    PROVE  tosend # <<>> /\ Len(tosend) # 0
<1>1. tosend # <<>>
    BY DEF SdioInv, Links, ToCome
<1> QED
    BY <1>1, ListsType, EmptySeq

Queue == IF ToCome THEN tosend ELSE Tail(tosend)

\* The queue goes on through the numbers up to where the free buffers begin.
LEMMA QueueInOrder ==
    ASSUME SdioAssumption, SdioInv
    PROVE  FlattenSeq([i \in DOMAIN Queue |-> buffer[Queue[i]]]) = Stretch(Numbers, LoadAt)
<1>1. PICK d \in {0, 1}, m \in Nat, n \in Nat :
         /\ m = Len(tosend) /\ n + d = m /\ d = (IF ToCome THEN 0 ELSE 1)
         /\ DOMAIN Queue = 1..n /\ \A i \in 1..n : Queue[i] = tosend[i + d]
    <2>1. tosend \in Seq(1..Bufs)
        BY ListsType
    <2>2. CASE ToCome
        <3>1. Queue = tosend
            BY <2>2, Zenon DEF Queue
        <3>2. PICK m \in Nat : m = Len(tosend)
            BY <2>1
        <3>3. DOMAIN tosend = 1..m
            BY <2>1, <3>2
        <3>4. \A i \in 1..m : i + 0 = i
            OBVIOUS
        <3>5. m + 0 = m /\ 0 \in {0, 1}
            OBVIOUS
        <3> QED  BY <2>2, <3>1, <3>2, <3>3, <3>4, <3>5
    <2>3. CASE ~ToCome
        <3>1. Queue = Tail(tosend) /\ tosend # <<>>
            BY <2>3, EmptyComes, Zenon DEF Queue
        <3>2. PICK m \in Nat \ {0} : m = Len(tosend)
            BY <2>1, <2>3, EmptyComes
        <3>3. PICK n \in Nat : n = m - 1
            BY <3>2
        <3>4. /\ Tail(tosend) \in Seq(1..Bufs) /\ Len(Tail(tosend)) = Len(tosend) - 1
              /\ \A i \in 1..Len(Tail(tosend)) : Tail(tosend)[i] = tosend[i + 1]
            BY <2>1, <3>1, HeadTailProperties
        <3>5. Len(Tail(tosend)) = n
            BY <3>2, <3>3, <3>4, Zenon
        <3>6. DOMAIN Tail(tosend) = 1..n
            <4>1. PICK t \in Seq(1..Bufs) : t = Tail(tosend)
                BY <3>4
            <4>2. DOMAIN t = 1..Len(t)
                OBVIOUS
            <4> QED  BY ONLY <4>1, <4>2, <3>5, Zenon
        <3>7. n + 1 = m /\ 1 \in {0, 1}
            BY <3>3
        <3> QED  BY <2>3, <3>1, <3>2, <3>4, <3>5, <3>6, <3>7, Zenon
    <2> QED  BY <2>2, <2>3
<1> DEFINE s == [i \in 1..n |-> buffer[Queue[i]]]
           P == [i \in Nat |-> Place(i + d)]
           T == 0..(Count - 1)
<1>2. ASSUME NEW i \in 1..n
      PROVE  /\ i + d \in 1..Bufs /\ Lists[i + d] = Queue[i] /\ Queue[i] \in 1..Bufs
             /\ buffer[Queue[i]] \in Seq(T) /\ Len(buffer[Queue[i]]) \in Nat
             /\ i + d \in 1..m /\ s[i] = buffer[Queue[i]]
    <2>1. i + d \in 1..m
        BY <1>1
    <2>2. Lists[i + d] = tosend[i + d] /\ i + d \in 1..Bufs /\ tosend[i + d] \in 1..Bufs
        BY <1>1, <2>1, ListsType
    <2>3. Queue[i] = tosend[i + d]
        BY <1>1
    <2> QED  BY <2>1, <2>2, <2>3, BufferType
<1>3. s \in Seq(Seq(T)) /\ Len(s) = n
    <2>1. \A i \in 1..n : buffer[Queue[i]] \in Seq(T)
        BY <1>2
    <2> HIDE DEF T
    <2> QED  BY <2>1
<1>4. P[1] = 0
    <2>1. P[1] = Place(1 + d)
        OBVIOUS
    <2>2. CASE ToCome
        <3>1. 1 + d = 1
            BY <1>1, <2>2
        <3> QED  BY <2>1, <3>1, PlaceType
    <2>3. CASE ~ToCome
        <3>1. 1 + d = 2
            BY <1>1, <2>3
        <3>2. First = 0
            BY <2>3, Zenon DEF First
        <3> QED  BY <2>1, <3>1, <3>2, PlaceType
    <2> QED  BY <2>2, <2>3
<1>5. ASSUME NEW i \in 1..n
      PROVE  P[i] \in Nat /\ P[i + 1] = P[i] + Len(s[i])
    <2>1. PICK e \in 1..m : e = i + d
        BY <1>2
    <2>2. P[i] = Place(e) /\ P[i + 1] = Place(e + 1)
        <3>1. (i + 1) + d = e + 1 /\ i \in Nat /\ i + 1 \in Nat
            BY <2>1
        <3> HIDE DEF Place
        <3>2. P[i] = Place(i + d) /\ P[i + 1] = Place((i + 1) + d)
            BY <3>1
        <3> QED  BY <2>1, <3>1, <3>2, Zenon
    <2>3. e \in Nat \ {0} /\ Place(e) \in Nat
        BY PlaceType
    <2>4. Len(s[i]) = Len(buffer[Lists[e]]) /\ Lists[e] = tosend[e]
        BY <1>1, <1>2, <2>1
    <2>5. CASE e = 1
        <3>1. ToCome
            BY <1>1, <2>1, <2>5
        <3>2. First = Len(buffer[Lists[1]])
            BY <3>1, Zenon DEF First
        <3>3. 1 + 1 = 2 /\ First \in Nat
            BY PlaceType
        <3>4. Place(2) = First /\ Place(1) = 0
            BY PlaceType
        <3>5. Len(buffer[Lists[1]]) = 0 + First /\ First = 0 + Len(s[i])
            BY <2>4, <2>5, <3>2, <3>3
        <3> HIDE DEF P, s
        <3> QED  BY <2>2, <2>3, <2>5, <3>3, <3>4, <3>5, Zenon
    <2>6. CASE e # 1
        <3>1. e \in 2..Len(tosend) /\ e \in Nat \ {0, 1}
            BY <1>1, <2>6
        <3>2. Len(buffer[tosend[e]]) = BufSize
            BY <3>1, Zenon DEF SdioInv, Shape
        <3>3. Place(e + 1) = Place(e) + BufSize
            BY <3>1, PlaceType
        <3> QED  BY <2>2, <2>3, <2>4, <3>2, <3>3
    <2> QED  BY <2>5, <2>6
<1>6. ASSUME NEW i \in 1..n, NEW k \in 1..Len(s[i])
      PROVE  s[i][k] = Numbers[P[i] + k]
    <2>1. PICK e \in 1..m : e = i + d
        BY <1>2
    <2>2. P[i] = Place(e) /\ P[i] \in Nat
        <3>1. i \in Nat
            BY <1>1
        <3>2. P[i] = Place(i + d)
            BY <3>1
        <3> HIDE DEF P
        <3> QED  BY <1>5, <2>1, <3>2, Zenon
    <2>3. e \in 1..Bufs /\ s[i] = buffer[Lists[e]] /\ (e = 1 => ToCome)
        BY <1>1, <1>2, <2>1
    <2>4. Bytes
        BY DEF SdioInv
    <2>5. k \in 1..Len(buffer[Lists[e]])
        BY <2>3
    <2>6. buffer[Lists[e]][k] = Number(sdio_due + (Place(e) + (k - 1)))
        BY <2>3, <2>4, <2>5, Zenon DEF Bytes
    <2>7. k \in Nat /\ P[i] + k \in Nat /\ (P[i] + k) - 1 = P[i] + (k - 1)
        <3>1. k \in Nat
            BY <1>2
        <3>2. P[i] \in Nat
            BY <2>2
        <3> HIDE DEF P, s
        <3> QED  BY ONLY <3>1, <3>2
    <2>8. Numbers[P[i] + k] = Number(sdio_due + ((P[i] + k) - 1))
        <3> HIDE DEF P
        <3> QED  BY <2>7 DEF Numbers
    <2> QED  BY <2>2, <2>3, <2>6, <2>7, <2>8, Zenon
<1>7. GoesOn(s, T, P, Numbers)
    <2> HIDE DEF s, T, P
    <2> QED  BY <1>3, <1>4, <1>5, <1>6, Zenon DEF GoesOn
<1>8. P[n + 1] = LoadAt
    <2>1. (n + 1) + d = Len(tosend) + 1 /\ n + 1 \in Nat
        BY <1>1
    <2>2. P[n + 1] = Place((n + 1) + d)
        BY <2>1
    <2> QED  BY <2>1, <2>2, Zenon DEF LoadAt
<1>9. FlattenSeq(s) = Stretch(Numbers, P[n + 1])
    <2> HIDE DEF s, T, P
    <2>1. n \in Nat /\ n = Len(s)
        BY <1>3
    <2> QED  BY ONLY <2>1, <1>7, FlattenRun, Zenon
<1> QED
    BY <1>1, <1>8, <1>9, Zenon

\* The free buffers go on from there.
LEMMA FreeInOrder ==
    ASSUME SdioAssumption, SdioInv
    PROVE  FlattenSeq([i \in DOMAIN sended |-> buffer[sended[i]]]) = Stretch(Later, Filling)
<1>1. PICK S \in Nat : S = Len(sended) /\ DOMAIN sended = 1..S
    <2>1. sended \in Seq(1..Bufs) /\ Len(sended) \in Nat
        BY ListsType
    <2> QED  BY <2>1
<1> DEFINE s == [i \in 1..S |-> buffer[sended[i]]]
           P == [i \in Nat |-> IF i = 0 \/ i = 1 THEN 0 ELSE Filling]
           T == 0..(Count - 1)
<1>0. LoadAt \in Nat /\ Filling \in Nat
    BY StartType
<1>2. ASSUME NEW i \in 1..S
      PROVE  /\ Len(tosend) + i \in 1..Bufs /\ Lists[Len(tosend) + i] = sended[i]
             /\ buffer[sended[i]] \in Seq(T) /\ Len(buffer[sended[i]]) \in Nat
             /\ s[i] = buffer[sended[i]] /\ Len(s[i]) = (IF i = 1 THEN Filling ELSE 0)
    <2>1. sended[i] \in 1..Bufs /\ Len(tosend) + i \in 1..Bufs /\ Lists[Len(tosend) + i] = sended[i]
        BY <1>1, ListsType
    <2>2. buffer[sended[i]] \in Seq(T) /\ Len(buffer[sended[i]]) \in Nat
        BY <2>1, BufferType
    <2>3. s[i] = buffer[sended[i]]
        OBVIOUS
    <2>4. sended # <<>>
        BY <1>1
    <2>5. i # 1 => i \in 2..Len(sended)
        BY <1>1
    <2>6. Len(buffer[sended[i]]) = (IF i = 1 THEN Filling ELSE 0)
        <3>1. Filling = Len(buffer[sended[1]]) /\ \A j \in 2..Len(sended) : Len(buffer[sended[j]]) = 0
            BY <2>4, FreeFirst
        <3> QED  BY <2>5, <3>1, Zenon
    <2> QED  BY <2>1, <2>2, <2>3, <2>6, Zenon
<1>3. s \in Seq(Seq(T)) /\ Len(s) = S
    <2>1. \A i \in 1..S : buffer[sended[i]] \in Seq(T)
        BY <1>2
    <2> HIDE DEF T
    <2> QED  BY <2>1
<1>4. P[1] = 0
    OBVIOUS
<1>5. ASSUME NEW i \in 1..S
      PROVE  P[i] \in Nat /\ P[i + 1] = P[i] + Len(s[i])
    <2>1. PICK l \in Nat : l = Len(s[i]) /\ l = (IF i = 1 THEN Filling ELSE 0)
        BY <1>0, <1>2
    <2>2. P[i] = (IF i = 1 THEN 0 ELSE Filling) /\ P[i + 1] = Filling
        OBVIOUS
    <2>3. P[i] \in Nat /\ P[i + 1] = P[i] + l
        <3> HIDE DEF P, s
        <3> QED  BY ONLY <1>0, <2>1, <2>2
    <2> QED  BY <2>1, <2>3, Zenon
<1>6. ASSUME NEW i \in 1..S, NEW k \in 1..Len(s[i])
      PROVE  s[i][k] = Later[P[i] + k]
    <2>1. i = 1 /\ k \in Nat
        <3>1. Len(s[i]) = (IF i = 1 THEN Filling ELSE 0)
            BY <1>2
        <3> HIDE DEF s
        <3> QED  BY <1>0, <3>1
    <2>2. PICK e \in 1..Bufs : e = Len(tosend) + 1
        BY <1>2, <2>1
    <2>3. Lists[e] = sended[1] /\ s[1] = buffer[sended[1]]
        BY <1>2, <2>1, <2>2
    <2>4. e = 1 => ToCome
        <3>1. Len(tosend) \in Nat
            BY ListsType
        <3> QED  BY <2>2, <3>1, EmptyComes
    <2>5. Bytes
        BY DEF SdioInv
    <2>6. k \in 1..Len(buffer[Lists[e]])
        BY <2>1, <2>3
    <2>7. buffer[Lists[e]][k] = Number(sdio_due + (Place(e) + (k - 1)))
        BY <2>4, <2>5, <2>6, Zenon DEF Bytes
    <2>8. Place(e) = LoadAt
        BY <2>2, Zenon DEF LoadAt
    <2>9. P[i] + k = k
        BY <2>1
    <2>10. Later[k] = Number(sdio_due + (LoadAt + (k - 1)))
        BY <2>1 DEF Later
    <2> HIDE DEF P, s
    <2> QED  BY <2>1, <2>3, <2>7, <2>8, <2>9, <2>10, Zenon
<1>7. GoesOn(s, T, P, Later)
    <2> HIDE DEF s, T, P
    <2> QED  BY <1>3, <1>4, <1>5, <1>6, Zenon DEF GoesOn
<1>8. P[S + 1] = Filling
    <2>1. CASE S = 0
        <3>1. sended = <<>>
            BY <1>1, <2>1, ListsType, EmptySeq
        <3>2. Filling = 0
            BY <3>1 DEF Filling
        <3> QED  BY <2>1, <3>2
    <2>2. CASE S # 0
        BY <2>2
    <2> QED  BY <2>1, <2>2
<1>9. FlattenSeq(s) = Stretch(Later, P[S + 1])
    <2>1. S \in Nat /\ S = Len(s)
        BY <1>3
    <2> HIDE DEF s, T, P
    <2> QED  BY ONLY <2>1, <1>7, FlattenRun, Zenon
<1> QED
    BY <1>1, <1>8, <1>9, Zenon

LEMMA SdioInOrder ==
    ASSUME SdioAssumption, SdioInv
    PROVE  LoadedInOrder
<1>1. LoadAt \in Nat /\ Filling \in Nat /\ sdio_due \in Int /\ Total = LoadAt + Filling /\ Total \in Nat
    BY StartType
<1>2. Held = FlattenSeq([i \in DOMAIN Queue |-> buffer[Queue[i]]])
               \o FlattenSeq([i \in DOMAIN sended |-> buffer[sended[i]]])
    <2>1. (IF sdio_read THEN Tail(tosend) ELSE tosend) = Queue
        <3>1. CASE ToCome
            BY <3>1, Zenon DEF Queue, ToCome
        <3>2. CASE ~ToCome
            BY <3>2, Zenon DEF Queue, ToCome
        <3> QED  BY <3>1, <3>2
    <2> QED  BY <2>1, Zenon DEF Held
<1> DEFINE b == Stretch(Later, Filling)
           T == {Later[k] : k \in 1..Filling}
<1>3. b \in Seq(T) /\ Len(b) = Filling
    <2>1. \A k \in 1..Filling : Later[k] \in T
        OBVIOUS
    <2> HIDE DEF T
    <2> QED  BY <1>1, <2>1, RunValues
<1>4. \A k \in 1..Filling : b[k] = Numbers[LoadAt + k]
    <2>1. ASSUME NEW k \in 1..Filling
          PROVE  b[k] = Numbers[LoadAt + k]
        <3>1. k \in Nat /\ LoadAt + k \in Nat /\ (LoadAt + k) - 1 = LoadAt + (k - 1)
            BY <1>1
        <3>2. b[k] = Later[k]
            BY <1>1 DEF Stretch
        <3>3. Later[k] = Number(sdio_due + (LoadAt + (k - 1)))
            BY <3>1 DEF Later
        <3>4. Numbers[LoadAt + k] = Number(sdio_due + ((LoadAt + k) - 1))
            BY <3>1 DEF Numbers
        <3> HIDE DEF b
        <3> QED  BY <3>1, <3>2, <3>3, <3>4, Zenon
    <2> QED  BY <2>1
<1>5. Stretch(Numbers, LoadAt) \o b = Stretch(Numbers, LoadAt + Filling)
    <2> HIDE DEF b, T
    <2>1. \A k \in 1..Len(b) : b[k] = Numbers[LoadAt + k]
        BY <1>3, <1>4
    <2>2. Stretch(Numbers, LoadAt) \o b = Stretch(Numbers, LoadAt + Len(b))
        BY ONLY <1>1, <1>3, <2>1, RunOn, Zenon
    <2> QED  BY <1>3, <2>2, Zenon
<1>6. Held = Stretch(Numbers, Total)
    BY <1>1, <1>2, <1>5, QueueInOrder, FreeInOrder, Zenon
<1>7. Len(Stretch(Numbers, Total)) = Total
    BY <1>1 DEF Stretch
<1>8. Run(sdio_due, Total) = Stretch(Numbers, Total)
    <2>1. ASSUME NEW k \in 1..Total
          PROVE  Number(sdio_due + k - 1) = Numbers[k]
        <3>1. k \in Nat /\ sdio_due + k - 1 = sdio_due + (k - 1)
            BY <1>1
        <3> QED  BY <3>1 DEF Numbers
    <2> QED  BY <2>1 DEF Run, Stretch
<1>9. sdio_told /\ sdio_taken = Number(sdio_due + Total)
    BY Zenon DEF SdioInv
<1> QED
    BY <1>6, <1>7, <1>8, <1>9, Zenon DEF LoadedInOrder

\* What the host reads is what was loaded, in its order and each byte once, and
\* what is in the buffers is what it has still to read, however loads were cut
\* into buffers and wherever handler and callback come between the steps of a
\* load, as long as they have not met the task within one: LoadedInOrder.
THEOREM LoadedInOrderHolds ==
    ASSUME SdioAssumption
    PROVE  SdioSpec => []LoadedInOrder
<1>1. SdioInv => LoadedInOrder
    BY SdioInOrder
<1> QED
    BY <1>1, SdioInvHolds, PTL

\* Each buffer stays in one place of one of the two lists the driver keeps, with
\* handler and callback between the steps of a load, as long as they have not met
\* the task within one: BuffersKept.
THEOREM BuffersKeptHolds ==
    ASSUME SdioAssumption
    PROVE  SdioSpec => []BuffersKept
<1>1. SdioInv => BuffersKept
    BY Zenon DEF SdioInv, Complete, Lists, BuffersKept
<1> QED
    BY <1>1, SdioInvHolds, PTL

\* No buffer holds more than its size and no length above it is put into the
\* register of the host: SdioTypeOK.
THEOREM SdioTypes ==
    ASSUME SdioAssumption
    PROVE  SdioSpec => []SdioTypeOK
<1>1. SdioInv => SdioTypeOK
    BY Zenon DEF SdioInv
<1> QED
    BY <1>1, SdioInvHolds, PTL

---------------------------------------------------------------------------
(* The I2C master: the inductive invariant.                                *)

\* A call is a program of settings, read from its end: where the call is in it
\* tells the levels of the wires, and what the slave has of the call by then.
Settings == {0, 1} \X {0, 1} \X BOOLEAN

Told == {<<"unclear">>, <<"start">>, <<"stop">>}
           \union ({"byte", "given"} \X Seq({0, 1})) \union ({"acks", "answer"} \X {0, 1})

\* A slave as it can be while SCL is at level c: it has taken less than a byte
\* whenever a rise may bring another bit, and what it gives is a bit of its byte.
SlaveOK(s, c) ==
    /\ s \in [mode : Modes, byte : Seq({0, 1}), pull : {0, 1}, n : 0..Bits]
    /\ Len(s.byte) <= Bits
    /\ s.mode \in {"idle", "deaf", "takes", "waits"} => s.pull = 1
    /\ s.mode \in {"takes", "acks"} => s.n \in {0, 1}
    /\ s.mode = "takes" => (c = 0 => Len(s.byte) < Bits)
    /\ s.mode = "acks" => Len(s.byte) = Bits
    /\ s.mode = "gives" => s.byte \in Words /\ s.n \in 1..Bits /\ s.pull = s.byte[s.n]
    /\ s.mode = "waits" => Len(s.byte) <= 1 /\ (c = 0 => s.byte = <<>>)

\* The call is at its place in a program of size settings, which lists them from
\* the last to the first: what is still to be set, and what was set last.
Runs(program, size) ==
    /\ todo \in Seq(Settings) /\ Len(todo) \in 0..size
    /\ \A j \in 1..Len(todo) : todo[j] = program[Len(todo) + 1 - j]
    /\ Len(todo) < size => /\ sda = program[Len(todo) + 1][1] /\ m_nLastSDA = sda
                           /\ scl = program[Len(todo) + 1][2] /\ m_nLastSCL = scl

\* What the wires were when the call was made.
From(size, a, c) ==
    Len(todo) = size => sda = a /\ m_nLastSDA = a /\ scl = c /\ m_nLastSCL = c

Starting ==
    /\ call = <<"start">> /\ phase = "address" /\ retVal = <<>>
    /\ \E x \in {0, 1} : Runs(<<DC(0, 1), DC(1, 1), DC(1, x)>>, 3) /\ From(3, 1, x)
    /\ ~cut => IF todo = <<>> THEN slave = Free("takes") /\ heard = <<<<"start">>>>
               ELSE slave.pull = 1 /\ heard = <<>>

Stopping ==
    /\ call = <<"stop">> /\ phase = "idle" /\ retVal = <<>>
    /\ Runs(<<DC(1, 1), DC(0, 1), DC(0, 0)>>, 3) /\ From(3, 1, 0)
    /\ ~cut => IF todo = <<>> THEN slave = Free("idle") /\ heard = <<<<"stop">>>>
               ELSE slave.pull = 1 /\ heard = <<>>

\* A byte is under way: the slave has the bits that rises of SCL told it.
SendProgram(w, x) ==
    [t \in 1..(3 * Bits + 1) |->
        IF t = 3 * Bits + 1 THEN DC(x, 0)
        ELSE DC(w[Bits + 1 - (t + 2) \div 3], IF t % 3 = 2 THEN 1 ELSE 0)]

Sent(t) == Bits - (t + 1) \div 3

Sending ==
    \E w \in Words :
        /\ call = <<"byte", w>> /\ phase \in {"sent read", "sent write"} /\ retVal = <<>>
        /\ \E x \in {0, 1} : Runs(SendProgram(w, x), 3 * Bits + 1) /\ From(3 * Bits + 1, x, 1 - x)
        /\ ~cut => /\ phase = "sent read" <=> slave.n = 0 /\ w[Bits] = 1
                   /\ IF todo = <<>>
                      THEN slave.mode = "acks" /\ slave.byte = w /\ heard = <<call>>
                      ELSE /\ slave.mode = "takes" /\ heard = <<>>
                           /\ Len(slave.byte) = Sent(Len(todo))
                           /\ \A i \in 1..Len(slave.byte) : slave.byte[i] = w[i]

Asking ==
    /\ call = <<"check">> /\ phase \in {"got read", "got write"}
    /\ \E x \in {0, 1} : Runs(<<DC(1, 0), GetDC(1, 1), DC(1, 0), DC(x, 0)>>, 4) /\ From(4, x, 0)
    /\ IF Len(todo) > 1 THEN retVal = <<>> ELSE retVal \in {<< 0 >>, << 1 >>}
    /\ ~cut => IF todo # <<>>
               THEN /\ slave.mode = "acks" /\ heard = <<>>
                    /\ phase = "got read" <=> slave.n = 0 /\ slave.byte[Bits] = 1
                    /\ Len(todo) = 1 => retVal = <<slave.pull>>
               ELSE /\ heard = <<<<"acks", retVal[1]>>>>
                    /\ IF retVal = << 1 >> THEN slave = Free("deaf")
                       ELSE IF phase = "got read" THEN \E w \in Words : slave = Giving(w, 1)
                       ELSE slave = Slave("takes", <<>>, 1, 1)

ReadProgram ==
    [t \in 1..(2 * Bits + 2) |->
        IF t % 2 = 0 /\ t # 2 * Bits + 2 THEN GetDC(1, 1) ELSE DC(1, 0)]

\* How many bits the call has read when t settings are left.
Got(t) == IF t > 2 * Bits THEN 0 ELSE Bits - t \div 2

Reading ==
    /\ call = <<"read">> /\ phase = "answer"
    /\ Runs(ReadProgram, 2 * Bits + 2) /\ From(2 * Bits + 2, 1, 0)
    /\ Len(retVal) = Got(Len(todo))
    /\ ~cut => IF todo = <<>> THEN slave = Free("waits") /\ heard = <<<<"given", retVal>>>>
               ELSE /\ heard = <<>>
                    /\ \E w \in Words :
                          /\ \A i \in 1..Len(retVal) : retVal[i] = w[i]
                          /\ slave = Giving(w, IF scl = 1 THEN Len(retVal) ELSE Len(retVal) + 1)

Answering ==
    \E level \in {0, 1} :
        /\ call = <<"answer", level>> /\ phase = (IF level = 0 THEN "read" ELSE "stop")
        /\ retVal = <<>>
        /\ Runs(<<DC(1, 0), DC(level, 0), DC(level, 1), DC(level, 0), DC(1, 0)>>, 5) /\ From(5, 1, 0)
        /\ ~cut => IF Len(todo) > 1
                   THEN /\ heard = <<>>
                        /\ slave = Slave("waits", IF Len(todo) = 2 THEN <<level>> ELSE <<>>, 1, 0)
                   ELSE /\ heard = <<call>>
                        /\ IF level = 1 THEN slave = Free("deaf")
                           ELSE \E w \in Words : slave = Giving(w, 1)

ClearProgram ==
    [t \in 1..(2 * ClearClocks + 6) |->
        IF t = 1 THEN DC(1, 1)
        ELSE IF t <= 3 THEN DC(0, 1)
        ELSE IF t = 2 * ClearClocks + 5 THEN DC(0, 0)
        ELSE IF t <= 2 * ClearClocks + 3 /\ t % 2 = 0 THEN DC(1, 1) ELSE DC(1, 0)]

\* The rises of SCL that are left among the clocks.
Clocks(t) == IF t > 2 * ClearClocks + 2 THEN ClearClocks ELSE (t - 2) \div 2

\* With that many rises left the slave comes off SDA in time: a byte it gives
\* ends, and one it takes, which the clocks make of ones, is acknowledged before
\* the last of them or not at all.
Frees(s, c, rises) ==
    /\ s.mode = "takes" =>
          /\ s.byte # <<>> => s.byte[Len(s.byte)] = 1
          /\ IF s.n = 0 THEN Len(s.byte) + rises >= 2 * Bits + 2
             ELSE (Len(s.byte) + rises) % (Bits + 1) # 0
    /\ s.mode = "acks" /\ s.pull = 0 =>
          IF s.n = 0 /\ s.byte[Bits] = 1 THEN rises + c >= Bits + 2
          ELSE (Bits + c + rises) % (Bits + 1) # 0
    /\ s.mode = "gives" => s.n + rises + c >= Bits + 2
    /\ s.mode = "waits" /\ s.byte # <<>> => s.byte = << 1 >>

Clearing ==
    /\ call = <<"init">> /\ phase = "idle" /\ retVal = <<>>
    /\ Runs(ClearProgram, 2 * ClearClocks + 6)
    /\ Len(todo) = 2 * ClearClocks + 6 => sda = 1 /\ scl = 1 /\ m_nLastSDA = 0 /\ m_nLastSCL = 0
    /\ ~cut => IF Len(todo) > 3 THEN Frees(slave, scl, Clocks(Len(todo)))
               ELSE IF Len(todo) = 3 THEN slave.pull = 1
               ELSE IF Len(todo) > 0 THEN slave = Free("takes")
               ELSE slave = Free("idle") /\ Last(heard) = <<"stop">>

Wires ==
    /\ SlaveOK(slave, scl) /\ cut \in BOOLEAN
    /\ sda \in {0, 1} /\ scl \in {0, 1} /\ m_nLastSDA \in {0, 1} /\ m_nLastSCL \in {0, 1}

\* What was heard and what was read are of their kinds.
Records == heard \in Seq(Told) /\ retVal \in Seq({0, 1})

I2cInv ==
    /\ Wires /\ Records
    /\ Clearing \/ Starting \/ Stopping \/ Sending \/ Asking \/ Reading \/ Answering

---------------------------------------------------------------------------
(* The wires and the slave.                                                *)

LEMMA BitsType ==
    ASSUME I2cAssumption
    PROVE  Bits \in Nat \ {0} /\ ClearClocks \in Nat
    BY DEF I2cAssumption

LEMMA WordType ==
    ASSUME I2cAssumption, NEW w \in Words
    PROVE  /\ w \in [1..Bits -> {0, 1}] /\ w \in Seq({0, 1}) /\ Len(w) = Bits
           /\ \A i \in 1..Bits : w[i] \in {0, 1}
<1>1. w \in [1..Bits -> {0, 1}] /\ Bits \in Nat
    BY DEF I2cAssumption
<1> QED
    BY <1>1

LEMMA Level ==
    ASSUME NEW a \in {0, 1}, NEW p \in {0, 1}
    PROVE  a * p \in {0, 1} /\ a * 1 = a /\ 1 * p = p /\ 0 * p = 0 /\ a * 0 = 0
    OBVIOUS

\* What Reactions says of each change of the wires that is one of a single wire.
LEMMA Quiet ==
    ASSUME NEW s, NEW o \in {0, 1}, NEW n \in {0, 1}, NEW c \in {0, 1}, o = n \/ c = 0
    PROVE  Reactions(s, o, c, n, c) = {[slave |-> s, hears |-> <<>>]}
    BY DEF Reactions

LEMMA Starts ==
    ASSUME NEW s
    PROVE  Reactions(s, 1, 1, 0, 1) = {[slave |-> Free("takes"), hears |-> <<<<"start">>>>]}
    BY DEF Reactions

LEMMA Stops ==
    ASSUME NEW s
    PROVE  Reactions(s, 0, 1, 1, 1) = {[slave |-> Free("idle"), hears |-> <<<<"stop">>>>]}
    BY DEF Reactions

LEMMA Rises ==
    ASSUME NEW s, NEW n \in {0, 1}
    PROVE  Reactions(s, n, 0, n, 1) =
             IF s.mode \in {"takes", "waits"}
             THEN {[slave |-> [s EXCEPT !.byte = Append(@, n)], hears |-> <<>>]}
             ELSE {[slave |-> s, hears |-> <<>>]}
    BY DEF Reactions

LEMMA Falls ==
    ASSUME NEW s, NEW n \in {0, 1}
    PROVE  Reactions(s, n, 1, n, 0) = Turns(s)
    BY DEF Reactions

\* The call makes its next setting.
Sets(a, c, look) ==
    /\ m_nLastSDA' = a /\ m_nLastSCL' = c /\ sda' = a /\ scl' = c
    /\ call' = call /\ phase' = phase /\ cut' = cut
    /\ \E r \in Reactions(slave, sda * slave.pull, scl, a * slave.pull, c) :
          /\ slave' = r.slave /\ heard' = heard \o r.hears
          /\ retVal' = IF look THEN Append(retVal, a * r.slave.pull) ELSE retVal

LEMMA SetsNext ==
    ASSUME i2c_master_setDC, NEW a, NEW c, NEW look, todo[1] = <<a, c, look>>
    PROVE  Sets(a, c, look)
    BY DEF i2c_master_setDC, Sets

\* The settings of a program are made one after the other.
LEMMA RunsOn ==
    ASSUME NEW program, NEW size \in Nat, Runs(program, size), i2c_master_setDC
    PROVE  /\ Len(todo) \in 1..size /\ Len(todo') = Len(todo) - 1 /\ Len(todo') # size
           /\ program[Len(todo)] \in Settings /\ todo # <<>> /\ (todo' = <<>> <=> Len(todo) = 1)
           /\ Runs(program, size)'
<1>1. /\ todo \in Seq(Settings) /\ todo # <<>> /\ todo' = Tail(todo) /\ Len(todo) \in 0..size
    BY DEF Runs, i2c_master_setDC
<1>2. /\ Len(todo) \in 1..size /\ todo' \in Seq(Settings) /\ Len(todo') = Len(todo) - 1
      /\ \A j \in 1..Len(todo') : todo'[j] = todo[j + 1]
    <2>1. /\ Tail(todo) \in Seq(Settings) /\ Len(Tail(todo)) = Len(todo) - 1
          /\ \A j \in 1..Len(Tail(todo)) : Tail(todo)[j] = todo[j + 1]
        BY <1>1, HeadTailProperties
    <2>2. Len(todo) # 0
        BY <1>1, EmptySeq
    <2> QED  BY <1>1, <2>1, <2>2
<1>3. todo[1] \in Settings
    BY <1>1, <1>2, ElementOfSeq
<1>4. todo[1] = program[Len(todo)]
    <2>1. 1 \in 1..Len(todo) /\ Len(todo) + 1 - 1 = Len(todo)
        BY <1>2
    <2> QED  BY <2>1 DEF Runs
<1>5. /\ sda' = todo[1][1] /\ m_nLastSDA' = todo[1][1]
      /\ scl' = todo[1][2] /\ m_nLastSCL' = todo[1][2]
    BY DEF i2c_master_setDC
<1>6. \A j \in 1..Len(todo') : todo'[j] = program[Len(todo') + 1 - j]
    <2>1. ASSUME NEW j \in 1..Len(todo')
          PROVE  todo'[j] = program[Len(todo') + 1 - j]
        <3>1. j + 1 \in 1..Len(todo) /\ Len(todo) + 1 - (j + 1) = Len(todo') + 1 - j
            BY <1>2
        <3>2. todo[j + 1] = program[Len(todo) + 1 - (j + 1)]
            BY <3>1 DEF Runs
        <3> QED  BY <1>2, <3>1, <3>2
    <2> QED  BY <2>1
<1>7. /\ sda' = program[Len(todo') + 1][1] /\ m_nLastSDA' = sda'
      /\ scl' = program[Len(todo') + 1][2] /\ m_nLastSCL' = scl'
    <2>1. Len(todo') + 1 = Len(todo)
        BY <1>2
    <2> QED  BY ONLY <1>4, <1>5, <2>1
<1>8. Runs(program, size)'
    BY <1>2, <1>6, <1>7 DEF Runs
<1>9. todo' = <<>> <=> Len(todo) = 1
    <2>1. todo' = <<>> <=> Len(todo') = 0
        BY <1>2, EmptySeq
    <2> QED  BY ONLY <1>2, <2>1, size \in Nat
<1>10. Len(todo') # size
    BY ONLY <1>2, size \in Nat
<1>11. program[Len(todo)] \in Settings
    BY ONLY <1>3, <1>4, Zenon
<1> QED
    BY ONLY <1>1, <1>2, <1>8, <1>9, <1>10, <1>11, Zenon

LEMMA RunsSets ==
    ASSUME NEW program, NEW size \in Nat, Runs(program, size), i2c_master_setDC
    PROVE  \A a, c, look : program[Len(todo)] = <<a, c, look>> => Sets(a, c, look)
<1>1. todo \in Seq(Settings) /\ todo # <<>>
    BY DEF Runs, i2c_master_setDC
<1>2. Len(todo) # 0 /\ Len(todo) \in Nat
    BY <1>1, EmptySeq
<1>3. 1 \in 1..Len(todo) /\ Len(todo) + 1 - 1 = Len(todo)
    BY <1>2
<1>4. todo[1] = program[Len(todo)]
    BY <1>3 DEF Runs
<1> QED
    BY <1>4, SetsNext

\* What was set last.
LEMMA RunsWas ==
    ASSUME NEW program, NEW size \in Nat, Runs(program, size)
    PROVE  \A k, a, c, look : (k \in 2..size /\ Len(todo) = k - 1 /\ program[k] = <<a, c, look>>) =>
               sda = a /\ scl = c
<1>1. ASSUME NEW k, NEW a, NEW c, NEW look, k \in 2..size, Len(todo) = k - 1, program[k] = <<a, c, look>>
      PROVE  sda = a /\ scl = c
    <2>1. Len(todo) < size /\ Len(todo) + 1 = k
        BY <1>1
    <2>2. sda = program[k][1] /\ scl = program[k][2]
        BY <2>1 DEF Runs
    <2> QED  BY ONLY <1>1, <2>2
<1> QED
    BY <1>1

\* A setting of one wire leaves the slave one that can be.
LEMMA TurnsFit ==
    ASSUME I2cAssumption, NEW s, SlaveOK(s, 1), NEW r \in Turns(s)
    PROVE  SlaveOK(r.slave, 0) /\ r.hears \in Seq(Told)
<1>0. Bits \in Nat \ {0}
    BY BitsType
<1>1. CASE s.mode = "takes" /\ Len(s.byte) = Bits
    <2>1. PICK ack \in {0, 1} : r = [slave |-> Slave("acks", s.byte, ack, s.n),
                                     hears |-> <<<<"byte", s.byte>>>>]
        BY <1>1 DEF Turns
    <2> QED  BY <1>0, <1>1, <2>1 DEF SlaveOK, Slave, Told, Modes
<1>2. CASE s.mode = "acks"
    <2>1. PICK next \in IF s.pull = 1 THEN {Free("deaf")}
                     ELSE IF s.n = 0 /\ s.byte[Bits] = 1 THEN {Giving(w, 1) : w \in Words}
                     ELSE {Slave("takes", <<>>, 1, 1)} :
             r = [slave |-> next, hears |-> <<<<"acks", s.pull>>>>]
        BY <1>2 DEF Turns
    <2>2. s.pull \in {0, 1}
        BY DEF SlaveOK
    <2>3. r.hears \in Seq(Told)
        BY <2>1, <2>2 DEF Told
    <2>4. CASE next = Free("deaf")
        BY <1>0, <2>1, <2>3, <2>4 DEF SlaveOK, Slave, Free, Modes
    <2>5. CASE next = Slave("takes", <<>>, 1, 1)
        BY <1>0, <2>1, <2>3, <2>5 DEF SlaveOK, Slave, Modes
    <2>6. CASE next \in {Giving(w, 1) : w \in Words}
        <3>1. PICK w \in Words : next = Giving(w, 1)
            BY <2>6
        <3> QED  BY <1>0, <2>1, <2>3, <3>1, WordType DEF SlaveOK, Slave, Giving, Modes
    <2> QED  BY <2>4, <2>5, <2>6
<1>3. CASE s.mode = "gives"
    <2>1. r = IF s.n = Bits
              THEN [slave |-> Free("waits"), hears |-> <<<<"given", s.byte>>>>]
              ELSE [slave |-> Giving(s.byte, s.n + 1), hears |-> <<>>]
        BY <1>3 DEF Turns
    <2>2. s.byte \in Words /\ s.n \in 1..Bits /\ s.byte \in Seq({0, 1}) /\ Len(s.byte) <= Bits
        BY <1>3 DEF SlaveOK
    <2>3. CASE s.n = Bits
        BY <1>0, <2>1, <2>2, <2>3 DEF SlaveOK, Slave, Free, Modes, Told
    <2>4. CASE s.n # Bits
        <3>1. s.n + 1 \in 1..Bits /\ s.byte[s.n + 1] \in {0, 1}
            BY <1>0, <2>2, <2>4, WordType
        <3> QED  BY <1>0, <2>1, <2>2, <2>4, <3>1 DEF SlaveOK, Slave, Giving, Modes
    <2> QED  BY <2>3, <2>4
<1>4. CASE s.mode = "waits" /\ s.byte # <<>>
    <2>1. PICK next \in IF s.byte[1] = 1 THEN {Free("deaf")} ELSE {Giving(w, 1) : w \in Words} :
             r = [slave |-> next, hears |-> <<<<"answer", s.byte[1]>>>>]
        BY <1>4 DEF Turns
    <2>2. s.byte \in Seq({0, 1}) /\ Len(s.byte) # 0 /\ s.byte[1] \in {0, 1}
        <3>1. s.byte \in Seq({0, 1})
            BY DEF SlaveOK
        <3> QED  BY <1>4, <3>1, EmptySeq, ElementOfSeq
    <2>3. r.hears \in Seq(Told)
        BY <2>1, <2>2 DEF Told
    <2>4. CASE next = Free("deaf")
        BY <1>0, <2>1, <2>3, <2>4 DEF SlaveOK, Slave, Free, Modes
    <2>6. CASE next \in {Giving(w, 1) : w \in Words}
        <3>1. PICK w \in Words : next = Giving(w, 1)
            BY <2>6
        <3> QED  BY <1>0, <2>1, <2>3, <3>1, WordType DEF SlaveOK, Slave, Giving, Modes
    <2> QED  BY <2>1, <2>4, <2>6
<1>5. CASE /\ ~(s.mode = "takes" /\ Len(s.byte) = Bits) /\ s.mode # "acks" /\ s.mode # "gives"
           /\ ~(s.mode = "waits" /\ s.byte # <<>>)
    <2>1. r = [slave |-> s, hears |-> <<>>]
        BY <1>5 DEF Turns
    <2>2. Len(s.byte) <= Bits /\ Len(s.byte) \in Nat
        BY DEF SlaveOK
    <2> QED  BY <1>0, <1>5, <2>1, <2>2 DEF SlaveOK
<1> QED
    BY <1>1, <1>2, <1>3, <1>4, <1>5

LEMMA ReactionsFit ==
    ASSUME I2cAssumption, NEW s, NEW a \in {0, 1}, NEW b \in {0, 1}, NEW c \in {0, 1}, NEW d \in {0, 1},
           SlaveOK(s, c), a = b \/ c = d, NEW r \in Reactions(s, a * s.pull, c, b * s.pull, d)
    PROVE  SlaveOK(r.slave, d) /\ r.hears \in Seq(Told)
<1>0. Bits \in Nat \ {0} /\ s.pull \in {0, 1}
    BY BitsType DEF SlaveOK
<1>1. a * s.pull \in {0, 1} /\ b * s.pull \in {0, 1}
    BY <1>0, Level
<1> DEFINE o == a * s.pull
           n == b * s.pull
<1>2. o \in {0, 1} /\ n \in {0, 1} /\ (o # n => c = d) /\ r \in Reactions(s, o, c, n, d)
    BY <1>1
<1> HIDE DEF o, n
<1>3. CASE c = 1 /\ d = 0
    <2>1. o = n /\ r \in Turns(s)
        BY <1>2, <1>3, Falls
    <2> QED  BY <1>3, <2>1, TurnsFit
<1>4. CASE c = 0 /\ d = 1
    <2>1. o = n
        BY <1>2, <1>4
    <2>2. CASE s.mode \in {"takes", "waits"}
        <3>1. r = [slave |-> [s EXCEPT !.byte = Append(@, n)], hears |-> <<>>]
            BY <1>2, <1>4, <2>1, <2>2, Rises
        <3>2. /\ s \in [mode : Modes, byte : Seq({0, 1}), pull : {0, 1}, n : 0..Bits]
              /\ s.pull = 1
              /\ s.mode = "takes" => Len(s.byte) < Bits /\ s.n \in {0, 1}
              /\ s.mode = "waits" => s.byte = <<>>
            BY <1>4, <2>2 DEF SlaveOK
        <3>3. /\ Append(s.byte, n) \in Seq({0, 1}) /\ Len(Append(s.byte, n)) = Len(s.byte) + 1
              /\ Len(s.byte) \in Nat /\ (s.byte = <<>> => Len(s.byte) = 0)
            BY <1>2, <3>2, AppendProperties, EmptySeq
        <3>4. r.slave.byte = Append(s.byte, n) /\ r.slave.mode = s.mode /\ r.slave.pull = 1 /\ r.slave.n = s.n
              /\ r.slave \in [mode : Modes, byte : Seq({0, 1}), pull : {0, 1}, n : 0..Bits]
            BY <3>1, <3>2, <3>3
        <3>5. Len(r.slave.byte) <= Bits /\ (s.mode = "waits" => Len(r.slave.byte) <= 1)
            BY <1>0, <2>2, <3>2, <3>3, <3>4
        <3>6. r.hears \in Seq(Told)
            BY <3>1
        <3> QED  BY <1>4, <2>2, <3>2, <3>4, <3>5, <3>6 DEF SlaveOK
    <2>3. CASE s.mode \notin {"takes", "waits"}
        <3>1. r = [slave |-> s, hears |-> <<>>]
            BY <1>2, <1>4, <2>1, <2>3, Rises
        <3> QED  BY <2>3, <3>1 DEF SlaveOK
    <2> QED  BY <2>2, <2>3
<1>5. CASE c = d
    <2>1. CASE o = n \/ c = 0
        <3>1. r = [slave |-> s, hears |-> <<>>]
            BY <1>2, <1>5, <2>1, Quiet
        <3> QED  BY <1>5, <3>1 DEF SlaveOK
    <2>2. CASE o = 1 /\ n = 0 /\ c = 1
        <3>1. r = [slave |-> Free("takes"), hears |-> <<<<"start">>>>]
            BY <1>2, <1>5, <2>2, Starts
        <3> QED  BY <1>0, <1>5, <2>2, <3>1 DEF SlaveOK, Free, Slave, Modes, Told
    <2>3. CASE o = 0 /\ n = 1 /\ c = 1
        <3>1. r = [slave |-> Free("idle"), hears |-> <<<<"stop">>>>]
            BY <1>2, <1>5, <2>3, Stops
        <3> QED  BY <1>0, <1>5, <2>3, <3>1 DEF SlaveOK, Free, Slave, Modes, Told
    <2> QED  BY <1>2, <2>1, <2>2, <2>3
<1> QED
    BY <1>3, <1>4, <1>5

LEMMA NothingHeard ==
    ASSUME Records
    PROVE  heard \o <<>> = heard
    BY EmptySeq DEF Records

LEMMA FirstHeard ==
    ASSUME Records, heard = <<>>, NEW x
    PROVE  heard \o <<x>> = <<x>>
    OBVIOUS

---------------------------------------------------------------------------
(* What a setting does, one lemma for each change of the wires.            *)

Settles == Wires' /\ Records' /\ call' = call /\ phase' = phase /\ cut' = cut

LEMMA Settled ==
    ASSUME I2cAssumption, Wires, Records, NEW a \in {0, 1}, NEW c \in {0, 1}, NEW look \in BOOLEAN,
           Sets(a, c, look), a = sda \/ c = scl
    PROVE  /\ Settles /\ (~look => retVal' = retVal)
           /\ Len(retVal') = IF look THEN Len(retVal) + 1 ELSE Len(retVal)
<1>1. PICK r \in Reactions(slave, sda * slave.pull, scl, a * slave.pull, c) :
          /\ slave' = r.slave /\ heard' = heard \o r.hears
          /\ retVal' = IF look THEN Append(retVal, a * r.slave.pull) ELSE retVal
    BY DEF Sets
<1>2. SlaveOK(r.slave, c) /\ r.hears \in Seq(Told)
    BY ReactionsFit DEF Wires
<1>3. sda' = a /\ scl' = c /\ m_nLastSDA' = a /\ m_nLastSCL' = c /\ cut' = cut
    BY DEF Sets
<1>4. SlaveOK(slave', scl')
    BY ONLY <1>1, <1>2, <1>3
<1>5. Wires'
    BY <1>3, <1>4 DEF Wires
<1>6. heard' \in Seq(Told)
    BY <1>1, <1>2, ConcatProperties DEF Records
<1>7. a * r.slave.pull \in {0, 1}
    BY <1>2, Level DEF SlaveOK
<1>8. retVal' \in Seq({0, 1}) /\ Len(retVal') = IF look THEN Len(retVal) + 1 ELSE Len(retVal)
    BY <1>1, <1>7, AppendProperties DEF Records
<1>9. call' = call /\ phase' = phase /\ cut' = cut /\ (~look => retVal' = retVal)
    BY <1>1 DEF Sets
<1> QED
    BY <1>5, <1>6, <1>8, <1>9 DEF Records, Settles

\* What a reaction says of the call.
LEMMA SetsIs ==
    ASSUME NEW a, NEW c, NEW look, Sets(a, c, look), NEW t, NEW h,
           Reactions(slave, sda * slave.pull, scl, a * slave.pull, c) = {[slave |-> t, hears |-> h]}
    PROVE  /\ slave' = t /\ heard' = heard \o h
           /\ retVal' = IF look THEN Append(retVal, a * t.pull) ELSE retVal
    BY DEF Sets

\* The slave sees no change, or none that concerns it.
LEMMA StaysStep ==
    ASSUME Wires, Records, NEW a \in {0, 1}, NEW c \in {0, 1}, NEW look \in BOOLEAN, Sets(a, c, look),
           \/ a = sda /\ c = scl
           \/ scl = 0 /\ c = 0
           \/ a = sda /\ scl = 0 /\ slave.mode \notin {"takes", "waits"}
    PROVE  /\ slave' = slave /\ heard' = heard
           /\ retVal' = IF look THEN Append(retVal, a * slave.pull) ELSE retVal
<1>0. slave.pull \in {0, 1} /\ sda \in {0, 1} /\ scl \in {0, 1}
    BY DEF Wires, SlaveOK
<1>1. sda * slave.pull \in {0, 1} /\ a * slave.pull \in {0, 1}
    BY <1>0, Level
<1>2. Reactions(slave, sda * slave.pull, scl, a * slave.pull, c) = {[slave |-> slave, hears |-> <<>>]}
    <2>1. CASE scl = c /\ (a = sda \/ scl = 0)
        BY <1>0, <1>1, <2>1, Quiet
    <2>2. CASE a = sda /\ scl = 0 /\ c = 1 /\ slave.mode \notin {"takes", "waits"}
        BY <1>1, <2>2, Rises
    <2> QED  BY <2>1, <2>2
<1>3. /\ slave' = slave /\ heard' = heard \o <<>>
      /\ retVal' = IF look THEN Append(retVal, a * slave.pull) ELSE retVal
    BY <1>2, SetsIs
<1> QED
    BY <1>3, NothingHeard

\* SCL rises: a slave that takes bits or waits for an answer has another bit.
LEMMA RiseStep ==
    ASSUME Wires, Records, NEW a \in {0, 1}, NEW look \in BOOLEAN, Sets(a, 1, look), a = sda, scl = 0
    PROVE  /\ slave'.pull = slave.pull /\ heard' = heard
           /\ slave' = IF slave.mode \in {"takes", "waits"}
                       THEN [slave EXCEPT !.byte = Append(@, a)] ELSE slave
           /\ retVal' = IF look THEN Append(retVal, a * slave.pull) ELSE retVal
<1>0. /\ slave.pull \in {0, 1} /\ slave \in [mode : Modes, byte : Seq({0, 1}), pull : {0, 1}, n : 0..Bits]
      /\ slave.mode \in {"takes", "waits"} => slave.pull = 1
    BY DEF Wires, SlaveOK
<1>1. a * slave.pull \in {0, 1} /\ (slave.pull = 1 => a * slave.pull = a)
    BY <1>0, Level
<1>2. CASE slave.mode \in {"takes", "waits"}
    <2>1. Reactions(slave, a * slave.pull, 0, a * slave.pull, 1) =
              {[slave |-> [slave EXCEPT !.byte = Append(@, a)], hears |-> <<>>]}
        BY <1>0, <1>1, <1>2, Rises
    <2>2. [slave EXCEPT !.byte = Append(@, a)].pull = slave.pull
        BY <1>0
    <2>3. /\ slave' = [slave EXCEPT !.byte = Append(@, a)] /\ heard' = heard \o <<>>
          /\ retVal' = IF look THEN Append(retVal, a * [slave EXCEPT !.byte = Append(@, a)].pull) ELSE retVal
        <3>1. PICK r \in Reactions(slave, sda * slave.pull, scl, a * slave.pull, 1) :
                /\ slave' = r.slave /\ heard' = heard \o r.hears
                /\ retVal' = IF look THEN Append(retVal, a * r.slave.pull) ELSE retVal
            BY DEF Sets
        <3>2. r.slave = [slave EXCEPT !.byte = Append(@, a)] /\ r.hears = <<>>
            <4>1. r \in Reactions(slave, a * slave.pull, 0, a * slave.pull, 1)
                BY Zenon
            <4>2. r = [slave |-> [slave EXCEPT !.byte = Append(@, a)], hears |-> <<>>]
                BY ONLY <2>1, <4>1, Zenon
            <4> QED  BY ONLY <4>2
        <3> QED  BY ONLY <3>1, <3>2
    <2> QED  BY <1>2, <2>2, <2>3, NothingHeard
<1>3. CASE slave.mode \notin {"takes", "waits"}
    BY <1>3, StaysStep
<1> QED
    BY <1>2, <1>3

\* SCL falls: the slave takes its turn.
LEMMA FallStep ==
    ASSUME Wires, NEW a \in {0, 1}, Sets(a, 0, FALSE), a = sda, scl = 1
    PROVE  /\ \E r \in Turns(slave) : slave' = r.slave /\ heard' = heard \o r.hears
           /\ retVal' = retVal
<1>1. a * slave.pull \in {0, 1}
    BY Level DEF Wires, SlaveOK
<1>2. Reactions(slave, sda * slave.pull, scl, a * slave.pull, 0) = Turns(slave)
    BY <1>1, Falls
<1> QED
    BY <1>2 DEF Sets

\* SDA falls or rises while SCL is high and the slave leaves it alone.
LEMMA StartStep ==
    ASSUME Sets(0, 1, FALSE), sda = 1, scl = 1, slave.pull = 1
    PROVE  slave' = Free("takes") /\ heard' = heard \o <<<<"start">>>> /\ retVal' = retVal
<1>1. Reactions(slave, sda * slave.pull, scl, 0 * slave.pull, 1) =
          {[slave |-> Free("takes"), hears |-> <<<<"start">>>>]}
    BY Starts
<1>2. PICK r \in Reactions(slave, sda * slave.pull, scl, 0 * slave.pull, 1) :
          slave' = r.slave /\ heard' = heard \o r.hears /\ retVal' = retVal
    BY DEF Sets
<1>3. r.slave = Free("takes") /\ r.hears = <<<<"start">>>>
    BY <1>1
<1> QED
    BY <1>2, <1>3

LEMMA StopStep ==
    ASSUME Sets(1, 1, FALSE), sda = 0, scl = 1, slave.pull = 1
    PROVE  slave' = Free("idle") /\ heard' = heard \o <<<<"stop">>>> /\ retVal' = retVal
<1>1. Reactions(slave, sda * slave.pull, scl, 1 * slave.pull, 1) =
          {[slave |-> Free("idle"), hears |-> <<<<"stop">>>>]}
    BY Stops
<1>2. PICK r \in Reactions(slave, sda * slave.pull, scl, 1 * slave.pull, 1) :
          slave' = r.slave /\ heard' = heard \o r.hears /\ retVal' = retVal
    BY DEF Sets
<1>3. r.slave = Free("idle") /\ r.hears = <<<<"stop">>>>
    BY <1>1
<1> QED
    BY <1>2, <1>3

---------------------------------------------------------------------------
(* The settings of each call.                                              *)

\* i2c_master_start.
LEMMA StartingStep ==
    ASSUME I2cAssumption, Wires, Records, Starting, i2c_master_setDC
    PROVE  Wires' /\ Records' /\ Starting'
<1>1. PICK x \in {0, 1} : Runs(<<DC(0, 1), DC(1, 1), DC(1, x)>>, 3) /\ From(3, 1, x)
    BY DEF Starting
<1> DEFINE P == <<DC(0, 1), DC(1, 1), DC(1, x)>>
           n == Len(todo)
<1>2. P[1] = <<0, 1, FALSE>> /\ P[2] = <<1, 1, FALSE>> /\ P[3] = <<1, x, FALSE>>
    BY DEF DC, GetDC
<1> HIDE DEF P
<1>3. Runs(P, 3) /\ From(3, 1, x)
    BY <1>1 DEF P, Starting
<1>4. /\ n \in 1..3 /\ Len(todo') = n - 1 /\ Len(todo') # 3 /\ todo # <<>> /\ (todo' = <<>> <=> n = 1)
      /\ Runs(P, 3)' /\ \A a, c, look : P[n] = <<a, c, look>> => Sets(a, c, look)
      /\ \A k, a, c, look : (k \in 2..3 /\ n = k - 1 /\ P[k] = <<a, c, look>>) => sda = a /\ scl = c
    BY <1>3, RunsOn, RunsSets, RunsWas
<1>5. /\ n = 3 => Sets(1, x, FALSE) /\ sda = 1 /\ scl = x
      /\ n = 2 => Sets(1, 1, FALSE) /\ sda = 1 /\ scl = x
      /\ n = 1 => Sets(0, 1, FALSE) /\ sda = 1 /\ scl = 1
    <2>3. ASSUME n = 3 PROVE  Sets(1, x, FALSE) /\ sda = 1 /\ scl = x
        <3>1. P[n] = <<1, x, FALSE>>
            BY ONLY <1>2, <2>3
        <3>2. Sets(1, x, FALSE)
            BY ONLY <1>4, <3>1, Zenon
        <3>3. sda = 1 /\ scl = x
            BY <1>3, <2>3 DEF From
        <3> QED  BY <3>2, <3>3
    <2>2. ASSUME n = 2 PROVE  Sets(1, 1, FALSE) /\ sda = 1 /\ scl = x
        <3>1. P[n] = <<1, 1, FALSE>>
            BY ONLY <1>2, <2>2
        <3>2. Sets(1, 1, FALSE)
            BY ONLY <1>4, <3>1, Zenon
        <3>3. 3 \in 2..3 /\ n = 3 - 1 /\ P[3] = <<1, x, FALSE>>
            BY ONLY <1>2, <2>2
        <3>4. sda = 1 /\ scl = x
            BY ONLY <1>4, <3>3, Zenon
        <3> QED  BY <3>2, <3>4
    <2>1. ASSUME n = 1 PROVE  Sets(0, 1, FALSE) /\ sda = 1 /\ scl = 1
        <3>1. P[n] = <<0, 1, FALSE>>
            BY ONLY <1>2, <2>1
        <3>2. Sets(0, 1, FALSE)
            BY ONLY <1>4, <3>1, Zenon
        <3>3. 2 \in 2..3 /\ n = 2 - 1 /\ P[2] = <<1, 1, FALSE>>
            BY ONLY <1>2, <2>1
        <3>4. sda = 1 /\ scl = 1
            BY ONLY <1>4, <3>3, Zenon
        <3> QED  BY <3>2, <3>4
    <2> QED  BY <2>1, <2>2, <2>3
<1>6. /\ call = <<"start">> /\ phase = "address" /\ retVal = <<>>
      /\ ~cut => slave.pull = 1 /\ heard = <<>>
    BY <1>4 DEF Starting
<1>7. From(3, 1, x)'
    BY <1>4 DEF From
<1>9. Runs(<<DC(0, 1), DC(1, 1), DC(1, x)>>, 3)'
    BY <1>4 DEF P
<1>8. /\ Settles /\ retVal' = retVal
      /\ ~cut => IF n = 1 THEN slave' = Free("takes") /\ heard' = <<<<"start">>>>
                 ELSE slave'.pull = 1 /\ heard' = <<>>
    <2>1. CASE n = 3
        <3>1. slave' = slave /\ heard' = heard
            BY <1>5, <2>1, StaysStep
        <3>2. Settles /\ retVal' = retVal
            BY <1>5, <2>1, Settled
        <3> QED  BY <1>6, <2>1, <3>1, <3>2
    <2>2. CASE n = 2
        <3>1. slave'.pull = slave.pull /\ heard' = heard
            BY <1>5, <2>2, StaysStep, RiseStep
        <3>2. Settles /\ retVal' = retVal
            BY <1>5, <2>2, Settled
        <3> QED  BY <1>6, <2>2, <3>1, <3>2
    <2>3. CASE n = 1
        <3>1. ~cut => slave' = Free("takes") /\ heard' = <<<<"start">>>>
            BY <1>5, <1>6, <2>3, StartStep, FirstHeard
        <3>2. Settles /\ retVal' = retVal
            BY <1>5, <2>3, Settled
        <3> QED  BY <2>3, <3>1, <3>2
    <2> QED  BY <1>4, <2>1, <2>2, <2>3
<1> QED
    BY <1>4, <1>6, <1>7, <1>8, <1>9 DEF Settles, Starting

\* i2c_master_stop.
LEMMA StoppingStep ==
    ASSUME I2cAssumption, Wires, Records, Stopping, i2c_master_setDC
    PROVE  Wires' /\ Records' /\ Stopping'
<1> DEFINE P == <<DC(1, 1), DC(0, 1), DC(0, 0)>>
           n == Len(todo)
<1>2. P[1] = <<1, 1, FALSE>> /\ P[2] = <<0, 1, FALSE>> /\ P[3] = <<0, 0, FALSE>>
    BY DEF DC, GetDC
<1> HIDE DEF P
<1>3. Runs(P, 3) /\ From(3, 1, 0)
    BY DEF P, Stopping
<1>4. /\ n \in 1..3 /\ Len(todo') = n - 1 /\ Len(todo') # 3 /\ todo # <<>> /\ (todo' = <<>> <=> n = 1)
      /\ Runs(P, 3)' /\ \A a, c, look : P[n] = <<a, c, look>> => Sets(a, c, look)
      /\ \A k, a, c, look : (k \in 2..3 /\ n = k - 1 /\ P[k] = <<a, c, look>>) => sda = a /\ scl = c
    BY <1>3, RunsOn, RunsSets, RunsWas
<1>5. /\ n = 3 => Sets(0, 0, FALSE) /\ sda = 1 /\ scl = 0
      /\ n = 2 => Sets(0, 1, FALSE) /\ sda = 0 /\ scl = 0
      /\ n = 1 => Sets(1, 1, FALSE) /\ sda = 0 /\ scl = 1
    <2>3. ASSUME n = 3 PROVE  Sets(0, 0, FALSE) /\ sda = 1 /\ scl = 0
        <3>1. P[n] = <<0, 0, FALSE>>
            BY ONLY <1>2, <2>3
        <3>2. Sets(0, 0, FALSE)
            BY ONLY <1>4, <3>1, Zenon
        <3>3. sda = 1 /\ scl = 0
            BY <1>3, <2>3 DEF From
        <3> QED  BY <3>2, <3>3
    <2>2. ASSUME n = 2 PROVE  Sets(0, 1, FALSE) /\ sda = 0 /\ scl = 0
        <3>1. P[n] = <<0, 1, FALSE>>
            BY ONLY <1>2, <2>2
        <3>2. Sets(0, 1, FALSE)
            BY ONLY <1>4, <3>1, Zenon
        <3>3. 3 \in 2..3 /\ n = 3 - 1 /\ P[3] = <<0, 0, FALSE>>
            BY ONLY <1>2, <2>2
        <3>4. sda = 0 /\ scl = 0
            BY ONLY <1>4, <3>3, Zenon
        <3> QED  BY <3>2, <3>4
    <2>1. ASSUME n = 1 PROVE  Sets(1, 1, FALSE) /\ sda = 0 /\ scl = 1
        <3>1. P[n] = <<1, 1, FALSE>>
            BY ONLY <1>2, <2>1
        <3>2. Sets(1, 1, FALSE)
            BY ONLY <1>4, <3>1, Zenon
        <3>3. 2 \in 2..3 /\ n = 2 - 1 /\ P[2] = <<0, 1, FALSE>>
            BY ONLY <1>2, <2>1
        <3>4. sda = 0 /\ scl = 1
            BY ONLY <1>4, <3>3, Zenon
        <3> QED  BY <3>2, <3>4
    <2> QED  BY <2>1, <2>2, <2>3
<1>6. /\ call = <<"stop">> /\ phase = "idle" /\ retVal = <<>>
      /\ ~cut => slave.pull = 1 /\ heard = <<>>
    BY <1>4 DEF Stopping
<1>7. From(3, 1, 0)'
    BY <1>4 DEF From
<1>9. Runs(<<DC(1, 1), DC(0, 1), DC(0, 0)>>, 3)'
    BY <1>4 DEF P
<1>8. /\ Settles /\ retVal' = retVal
      /\ ~cut => IF n = 1 THEN slave' = Free("idle") /\ heard' = <<<<"stop">>>>
                 ELSE slave'.pull = 1 /\ heard' = <<>>
    <2>1. CASE n = 3
        <3>1. slave' = slave /\ heard' = heard
            BY <1>5, <2>1, StaysStep
        <3>2. Settles /\ retVal' = retVal
            BY <1>5, <2>1, Settled
        <3> QED  BY <1>6, <2>1, <3>1, <3>2
    <2>2. CASE n = 2
        <3>1. slave'.pull = slave.pull /\ heard' = heard
            BY <1>5, <2>2, RiseStep
        <3>2. Settles /\ retVal' = retVal
            BY <1>5, <2>2, Settled
        <3> QED  BY <1>6, <2>2, <3>1, <3>2
    <2>3. CASE n = 1
        <3>1. ~cut => slave' = Free("idle") /\ heard' = <<<<"stop">>>>
            BY <1>5, <1>6, <2>3, StopStep, FirstHeard
        <3>2. Settles /\ retVal' = retVal
            BY <1>5, <2>3, Settled
        <3> QED  BY <2>3, <3>1, <3>2
    <2> QED  BY <1>4, <2>1, <2>2, <2>3
<1> QED
    BY <1>4, <1>6, <1>7, <1>8, <1>9 DEF Settles, Stopping

\* i2c_master_checkAck.
LEMMA OneBit ==
    ASSUME NEW p \in {0, 1}
    PROVE  <<p>> \in {<< 0 >>, << 1 >>} /\ <<p>>[1] = p /\ (<<p>> = << 1 >> <=> p = 1)
    OBVIOUS

LEMMA AskingStep ==
    ASSUME I2cAssumption, Wires, Records, Asking, i2c_master_setDC
    PROVE  Wires' /\ Records' /\ Asking'
<1>1. PICK x \in {0, 1} : Runs(<<DC(1, 0), GetDC(1, 1), DC(1, 0), DC(x, 0)>>, 4) /\ From(4, x, 0)
    BY DEF Asking
<1> DEFINE P == <<DC(1, 0), GetDC(1, 1), DC(1, 0), DC(x, 0)>>
           n == Len(todo)
<1>2. P[1] = <<1, 0, FALSE>> /\ P[2] = <<1, 1, TRUE>> /\ P[3] = <<1, 0, FALSE>> /\ P[4] = <<x, 0, FALSE>>
    BY DEF DC, GetDC
<1> HIDE DEF P
<1>3. Runs(P, 4) /\ From(4, x, 0)
    BY <1>1 DEF P, Asking
<1>4. /\ n \in 1..4 /\ Len(todo') = n - 1 /\ Len(todo') # 4 /\ todo # <<>> /\ (todo' = <<>> <=> n = 1)
      /\ Runs(P, 4)' /\ \A a, c, look : P[n] = <<a, c, look>> => Sets(a, c, look)
      /\ \A k, a, c, look : (k \in 2..4 /\ n = k - 1 /\ P[k] = <<a, c, look>>) => sda = a /\ scl = c
    BY <1>3, RunsOn, RunsSets, RunsWas
<1>5. /\ n = 4 => Sets(x, 0, FALSE) /\ sda = x /\ scl = 0
      /\ n = 3 => Sets(1, 0, FALSE) /\ sda = x /\ scl = 0
      /\ n = 2 => Sets(1, 1, TRUE) /\ sda = 1 /\ scl = 0
      /\ n = 1 => Sets(1, 0, FALSE) /\ sda = 1 /\ scl = 1
    <2>4. ASSUME n = 4 PROVE  Sets(x, 0, FALSE) /\ sda = x /\ scl = 0
        <3>1. P[n] = <<x, 0, FALSE>>
            BY ONLY <1>2, <2>4
        <3>2. Sets(x, 0, FALSE)
            BY ONLY <1>4, <3>1, Zenon
        <3>3. sda = x /\ scl = 0
            BY <1>3, <2>4 DEF From
        <3> QED  BY <3>2, <3>3
    <2>3. ASSUME n = 3 PROVE  Sets(1, 0, FALSE) /\ sda = x /\ scl = 0
        <3>1. P[n] = <<1, 0, FALSE>>
            BY ONLY <1>2, <2>3
        <3>2. Sets(1, 0, FALSE)
            BY ONLY <1>4, <3>1, Zenon
        <3>3. 4 \in 2..4 /\ n = 4 - 1 /\ P[4] = <<x, 0, FALSE>>
            BY ONLY <1>2, <2>3
        <3>4. sda = x /\ scl = 0
            BY ONLY <1>4, <3>3, Zenon
        <3> QED  BY <3>2, <3>4
    <2>2. ASSUME n = 2 PROVE  Sets(1, 1, TRUE) /\ sda = 1 /\ scl = 0
        <3>1. P[n] = <<1, 1, TRUE>>
            BY ONLY <1>2, <2>2
        <3>2. Sets(1, 1, TRUE)
            BY ONLY <1>4, <3>1, Zenon
        <3>3. 3 \in 2..4 /\ n = 3 - 1 /\ P[3] = <<1, 0, FALSE>>
            BY ONLY <1>2, <2>2
        <3>4. sda = 1 /\ scl = 0
            BY ONLY <1>4, <3>3, Zenon
        <3> QED  BY <3>2, <3>4
    <2>1. ASSUME n = 1 PROVE  Sets(1, 0, FALSE) /\ sda = 1 /\ scl = 1
        <3>1. P[n] = <<1, 0, FALSE>>
            BY ONLY <1>2, <2>1
        <3>2. Sets(1, 0, FALSE)
            BY ONLY <1>4, <3>1, Zenon
        <3>3. 2 \in 2..4 /\ n = 2 - 1 /\ P[2] = <<1, 1, TRUE>>
            BY ONLY <1>2, <2>1
        <3>4. sda = 1 /\ scl = 1
            BY ONLY <1>4, <3>3, Zenon
        <3> QED  BY <3>2, <3>4
    <2> QED  BY <2>1, <2>2, <2>3, <2>4
<1>6. /\ call = <<"check">> /\ phase \in {"got read", "got write"}
      /\ IF n > 1 THEN retVal = <<>> ELSE retVal \in {<< 0 >>, << 1 >>}
      /\ ~cut => /\ slave.mode = "acks" /\ heard = <<>>
                 /\ phase = "got read" <=> slave.n = 0 /\ slave.byte[Bits] = 1
                 /\ n = 1 => retVal = <<slave.pull>>
    BY <1>4 DEF Asking
<1>61. slave.pull \in {0, 1} /\ 1 * slave.pull = slave.pull
    BY Level DEF Wires, SlaveOK
<1>7. From(4, x, 0)'
    BY <1>4 DEF From
<1>9. Runs(<<DC(1, 0), GetDC(1, 1), DC(1, 0), DC(x, 0)>>, 4)'
    BY <1>4 DEF P
<1>80. n \in 1..4 /\ Len(todo') = n - 1 /\ (todo' = <<>> <=> n = 1)
    BY <1>4
<1> HIDE DEF n
<1>81. n = 1 \/ n = 2 \/ n = 3 \/ n = 4
    BY ONLY <1>80
<1>82. (n > 1 <=> n # 1) /\ (n > 2 <=> n # 1 /\ n # 2) /\ 2 # 1 /\ 3 # 1 /\ 3 # 2 /\ 4 # 1 /\ 4 # 2
    BY ONLY <1>80
<1>8. /\ Settles
      /\ n > 2 => retVal' = <<>> /\ (~cut => slave' = slave /\ heard' = <<>>)
      /\ n = 2 => retVal' = <<slave.pull>> /\ (~cut => slave' = slave /\ heard' = <<>>)
      /\ n = 1 => /\ retVal' = retVal
                  /\ ~cut => /\ heard' = <<<<"acks", slave.pull>>>>
                             /\ IF slave.pull = 1 THEN slave' = Free("deaf")
                                ELSE IF phase = "got read" THEN \E w \in Words : slave' = Giving(w, 1)
                                ELSE slave' = Slave("takes", <<>>, 1, 1)
    <2>1. CASE n = 4
        <3>1. slave' = slave /\ heard' = heard
            BY <1>5, <2>1, StaysStep
        <3>2. Settles /\ retVal' = retVal
            BY <1>5, <2>1, Settled
        <3>3. retVal = <<>> /\ (~cut => heard = <<>>)
            BY ONLY <1>6, <1>82, <2>1, Zenon
        <3> QED  BY ONLY <1>82, <2>1, <3>1, <3>2, <3>3, Zenon
    <2>2. CASE n = 3
        <3>1. slave' = slave /\ heard' = heard
            BY <1>5, <2>2, StaysStep
        <3>2. Settles /\ retVal' = retVal
            BY <1>5, <2>2, Settled
        <3>3. retVal = <<>> /\ (~cut => heard = <<>>)
            BY ONLY <1>6, <1>82, <2>2, Zenon
        <3> QED  BY ONLY <1>82, <2>2, <3>1, <3>2, <3>3, Zenon
    <2>3. CASE n = 2
        <3>1. heard' = heard /\ (~cut => slave' = slave) /\ retVal' = Append(retVal, 1 * slave.pull)
            BY <1>5, <1>6, <2>3, RiseStep
        <3>2. Settles
            BY <1>5, <2>3, Settled
        <3>3. retVal = <<>> /\ (~cut => heard = <<>>)
            BY ONLY <1>6, <1>82, <2>3, Zenon
        <3>4. retVal' = <<slave.pull>>
            BY ONLY <1>61, <3>1, <3>3
        <3> QED  BY ONLY <1>82, <2>3, <3>1, <3>2, <3>3, <3>4, Zenon
    <2>4. CASE n = 1
        <3>1. Settles /\ retVal' = retVal
            BY <1>5, <2>4, Settled
        <3>2. ASSUME ~cut
              PROVE  /\ heard' = <<<<"acks", slave.pull>>>>
                     /\ IF slave.pull = 1 THEN slave' = Free("deaf")
                        ELSE IF phase = "got read" THEN \E w \in Words : slave' = Giving(w, 1)
                        ELSE slave' = Slave("takes", <<>>, 1, 1)
            <4>1. PICK r \in Turns(slave) : slave' = r.slave /\ heard' = heard \o r.hears
                BY <1>5, <2>4, FallStep
            <4>2. PICK next \in IF slave.pull = 1 THEN {Free("deaf")}
                     ELSE IF slave.n = 0 /\ slave.byte[Bits] = 1 THEN {Giving(w, 1) : w \in Words}
                     ELSE {Slave("takes", <<>>, 1, 1)} :
                        r = [slave |-> next, hears |-> <<<<"acks", slave.pull>>>>]
                BY <1>6, <3>2, <4>1 DEF Turns
            <4>3. slave' = next /\ heard' = heard \o <<<<"acks", slave.pull>>>>
                BY <4>1, <4>2
            <4>4. heard' = <<<<"acks", slave.pull>>>>
                BY <1>6, <3>2, <4>3, FirstHeard
            <4> QED  BY <1>6, <3>2, <4>2, <4>3, <4>4
        <3> QED  BY ONLY <1>82, <2>4, <3>1, <3>2, Zenon
    <2> QED  BY ONLY <1>81, <2>1, <2>2, <2>3, <2>4, Zenon
<1>10. /\ call' = <<"check">> /\ phase' \in {"got read", "got write"} /\ phase' = phase /\ cut' = cut
       /\ Wires' /\ Records'
    BY <1>6, <1>8 DEF Settles
<1>11. /\ IF Len(todo') > 1 THEN retVal' = <<>> ELSE retVal' \in {<< 0 >>, << 1 >>}
       /\ ~cut' => IF todo' # <<>>
               THEN /\ slave'.mode = "acks" /\ heard' = <<>>
                    /\ phase' = "got read" <=> slave'.n = 0 /\ slave'.byte[Bits] = 1
                    /\ Len(todo') = 1 => retVal' = <<slave'.pull>>
               ELSE /\ heard' = <<<<"acks", retVal'[1]>>>>
                    /\ IF retVal' = << 1 >> THEN slave' = Free("deaf")
                       ELSE IF phase' = "got read" THEN \E w \in Words : slave' = Giving(w, 1)
                       ELSE slave' = Slave("takes", <<>>, 1, 1)
    <2>0. <<slave.pull>> \in {<< 0 >>, << 1 >>} /\ <<slave.pull>>[1] = slave.pull
          /\ (<<slave.pull>> = << 1 >> <=> slave.pull = 1)
        BY <1>61, OneBit
    <2>1. CASE n > 2
        <3>1. Len(todo') > 1 /\ Len(todo') # 1 /\ todo' # <<>> /\ n # 1
            BY ONLY <1>80, <2>1
        <3> QED  BY ONLY <1>6, <1>8, <1>10, <2>1, <3>1, Zenon
    <2>2. CASE n = 2
        <3>1. ~(Len(todo') > 1) /\ todo' # <<>>
            BY ONLY <1>80, <2>2
        <3> QED  BY ONLY <1>6, <1>8, <1>10, <2>0, <2>2, <3>1, Zenon
    <2>3. CASE n = 1
        <3>1. ~(Len(todo') > 1) /\ todo' = <<>> /\ ~(n > 1)
            BY ONLY <1>80, <2>3
        <3> QED  BY ONLY <1>6, <1>8, <1>10, <2>0, <2>3, <3>1, Zenon
    <2> QED  BY ONLY <1>81, <1>82, <2>1, <2>2, <2>3, Zenon
<1> QED
    BY <1>7, <1>9, <1>10, <1>11 DEF Asking

\* i2c_master_send_ack and i2c_master_send_nack.
LEMMA AnsweringStep ==
    ASSUME I2cAssumption, Wires, Records, Answering, i2c_master_setDC
    PROVE  Wires' /\ Records' /\ Answering'
<1>1. PICK level \in {0, 1} :
        /\ call = <<"answer", level>> /\ phase = (IF level = 0 THEN "read" ELSE "stop")
        /\ retVal = <<>>
        /\ Runs(<<DC(1, 0), DC(level, 0), DC(level, 1), DC(level, 0), DC(1, 0)>>, 5) /\ From(5, 1, 0)
        /\ ~cut => IF Len(todo) > 1
                   THEN /\ heard = <<>>
                        /\ slave = Slave("waits", IF Len(todo) = 2 THEN <<level>> ELSE <<>>, 1, 0)
                   ELSE /\ heard = <<call>>
                        /\ IF level = 1 THEN slave = Free("deaf")
                           ELSE \E w \in Words : slave = Giving(w, 1)
    BY DEF Answering
<1> DEFINE P == <<DC(1, 0), DC(level, 0), DC(level, 1), DC(level, 0), DC(1, 0)>>
           n == Len(todo)
<1>2. P[1] = <<1, 0, FALSE>> /\ P[2] = <<level, 0, FALSE>> /\ P[3] = <<level, 1, FALSE>> /\ P[4] = <<level, 0, FALSE>> /\ P[5] = <<1, 0, FALSE>>
    BY DEF DC, GetDC
<1> HIDE DEF P
<1>3. Runs(P, 5) /\ From(5, 1, 0)
    BY <1>1 DEF P, Answering
<1>4. /\ n \in 1..5 /\ Len(todo') = n - 1 /\ Len(todo') # 5 /\ todo # <<>> /\ (todo' = <<>> <=> n = 1)
      /\ Runs(P, 5)' /\ \A a, c, look : P[n] = <<a, c, look>> => Sets(a, c, look)
      /\ \A k, a, c, look : (k \in 2..5 /\ n = k - 1 /\ P[k] = <<a, c, look>>) => sda = a /\ scl = c
    BY <1>3, RunsOn, RunsSets, RunsWas
<1>5. /\ n = 5 => Sets(1, 0, FALSE) /\ sda = 1 /\ scl = 0
      /\ n = 4 => Sets(level, 0, FALSE) /\ sda = 1 /\ scl = 0
      /\ n = 3 => Sets(level, 1, FALSE) /\ sda = level /\ scl = 0
      /\ n = 2 => Sets(level, 0, FALSE) /\ sda = level /\ scl = 1
      /\ n = 1 => Sets(1, 0, FALSE) /\ sda = level /\ scl = 0
    <2>5. ASSUME n = 5 PROVE  Sets(1, 0, FALSE) /\ sda = 1 /\ scl = 0
        <3>1. P[n] = <<1, 0, FALSE>>
            BY ONLY <1>2, <2>5
        <3>2. Sets(1, 0, FALSE)
            BY ONLY <1>4, <3>1, Zenon
        <3>3. sda = 1 /\ scl = 0
            BY <1>3, <2>5 DEF From
        <3> QED  BY <3>2, <3>3
    <2>4. ASSUME n = 4 PROVE  Sets(level, 0, FALSE) /\ sda = 1 /\ scl = 0
        <3>1. P[n] = <<level, 0, FALSE>>
            BY ONLY <1>2, <2>4
        <3>2. Sets(level, 0, FALSE)
            BY ONLY <1>4, <3>1, Zenon
        <3>3. 5 \in 2..5 /\ n = 5 - 1 /\ P[5] = <<1, 0, FALSE>>
            BY ONLY <1>2, <2>4
        <3>4. sda = 1 /\ scl = 0
            BY ONLY <1>4, <3>3, Zenon
        <3> QED  BY <3>2, <3>4
    <2>3. ASSUME n = 3 PROVE  Sets(level, 1, FALSE) /\ sda = level /\ scl = 0
        <3>1. P[n] = <<level, 1, FALSE>>
            BY ONLY <1>2, <2>3
        <3>2. Sets(level, 1, FALSE)
            BY ONLY <1>4, <3>1, Zenon
        <3>3. 4 \in 2..5 /\ n = 4 - 1 /\ P[4] = <<level, 0, FALSE>>
            BY ONLY <1>2, <2>3
        <3>4. sda = level /\ scl = 0
            BY ONLY <1>4, <3>3, Zenon
        <3> QED  BY <3>2, <3>4
    <2>2. ASSUME n = 2 PROVE  Sets(level, 0, FALSE) /\ sda = level /\ scl = 1
        <3>1. P[n] = <<level, 0, FALSE>>
            BY ONLY <1>2, <2>2
        <3>2. Sets(level, 0, FALSE)
            BY ONLY <1>4, <3>1, Zenon
        <3>3. 3 \in 2..5 /\ n = 3 - 1 /\ P[3] = <<level, 1, FALSE>>
            BY ONLY <1>2, <2>2
        <3>4. sda = level /\ scl = 1
            BY ONLY <1>4, <3>3, Zenon
        <3> QED  BY <3>2, <3>4
    <2>1. ASSUME n = 1 PROVE  Sets(1, 0, FALSE) /\ sda = level /\ scl = 0
        <3>1. P[n] = <<1, 0, FALSE>>
            BY ONLY <1>2, <2>1
        <3>2. Sets(1, 0, FALSE)
            BY ONLY <1>4, <3>1, Zenon
        <3>3. 2 \in 2..5 /\ n = 2 - 1 /\ P[2] = <<level, 0, FALSE>>
            BY ONLY <1>2, <2>1
        <3>4. sda = level /\ scl = 0
            BY ONLY <1>4, <3>3, Zenon
        <3> QED  BY <3>2, <3>4
    <2> QED  BY <2>1, <2>2, <2>3, <2>4, <2>5
<1>6. ~cut => IF n > 1
              THEN /\ heard = <<>>
                   /\ slave = Slave("waits", IF n = 2 THEN <<level>> ELSE <<>>, 1, 0)
              ELSE /\ heard = <<call>>
                   /\ IF level = 1 THEN slave = Free("deaf")
                      ELSE \E w \in Words : slave = Giving(w, 1)
    BY <1>1
<1>7. From(5, 1, 0)'
    BY <1>4 DEF From
<1>9. Runs(<<DC(1, 0), DC(level, 0), DC(level, 1), DC(level, 0), DC(1, 0)>>, 5)'
    BY <1>4 DEF P
<1>80. n \in 1..5 /\ Len(todo') = n - 1 /\ (todo' = <<>> <=> n = 1)
    BY <1>4
<1> HIDE DEF n
<1>8. /\ Settles /\ retVal' = retVal
      /\ ~cut => IF n > 2
              THEN /\ heard' = <<>>
                   /\ slave' = Slave("waits", IF n = 3 THEN <<level>> ELSE <<>>, 1, 0)
              ELSE /\ heard' = <<call>>
                   /\ IF level = 1 THEN slave' = Free("deaf")
                      ELSE \E w \in Words : slave' = Giving(w, 1)
    <2>1. CASE n = 5 \/ n = 4
        <3>1. slave' = slave /\ heard' = heard
            BY <1>5, <2>1, StaysStep
        <3>2. Settles /\ retVal' = retVal
            BY <1>5, <2>1, Settled
        <3>3. ~cut => heard = <<>> /\ slave = Slave("waits", <<>>, 1, 0)
            BY ONLY <1>6, <1>80, <2>1
        <3>4. n > 2 /\ n # 3
            BY ONLY <1>80, <2>1
        <3> QED  BY ONLY <3>1, <3>2, <3>3, <3>4, Zenon
    <2>4. CASE n = 1
        <3>1. slave' = slave /\ heard' = heard
            BY <1>5, <2>4, StaysStep
        <3>2. Settles /\ retVal' = retVal
            BY <1>5, <2>4, Settled
        <3>3. ~(n > 1) /\ ~(n > 2)
            BY ONLY <1>80, <2>4
        <3> QED  BY ONLY <1>6, <3>1, <3>2, <3>3, Zenon
    <2>2. CASE n = 3
        <3>1. Settles /\ retVal' = retVal
            BY <1>5, <2>2, Settled
        <3>2. ASSUME ~cut
              PROVE  heard' = <<>> /\ slave' = Slave("waits", <<level>>, 1, 0)
            <4>1. heard = <<>> /\ slave = Slave("waits", <<>>, 1, 0)
                BY <1>6, <2>2, <3>2
            <4>2. slave.mode \in {"takes", "waits"}
                BY <4>1 DEF Slave
            <4>3. heard' = heard /\ slave' = [slave EXCEPT !.byte = Append(@, level)]
                BY <1>5, <2>2, <4>2, RiseStep
            <4> QED  BY ONLY <4>1, <4>3 DEF Slave
        <3> QED  BY <2>2, <3>1, <3>2
    <2>3. CASE n = 2
        <3>1. Settles /\ retVal' = retVal
            BY <1>5, <2>3, Settled
        <3>2. ASSUME ~cut
              PROVE  /\ heard' = <<call>>
                     /\ IF level = 1 THEN slave' = Free("deaf")
                        ELSE \E w \in Words : slave' = Giving(w, 1)
            <4>1. heard = <<>> /\ slave = Slave("waits", <<level>>, 1, 0)
                BY <1>6, <2>3, <3>2
            <4>2. slave.mode = "waits" /\ slave.byte = <<level>> /\ slave.byte # <<>> /\ slave.byte[1] = level
                BY <4>1 DEF Slave
            <4>3. PICK r \in Turns(slave) : slave' = r.slave /\ heard' = heard \o r.hears
                BY <1>5, <2>3, FallStep
            <4>4. PICK next \in IF level = 1 THEN {Free("deaf")} ELSE {Giving(w, 1) : w \in Words} :
                        r = [slave |-> next, hears |-> <<<<"answer", level>>>>]
                BY <4>2, <4>3 DEF Turns
            <4>5. slave' = next /\ heard' = heard \o <<<<"answer", level>>>>
                BY <4>3, <4>4
            <4>6. heard' = <<call>>
                BY <1>1, <4>1, <4>5, FirstHeard
            <4> QED  BY <4>4, <4>5, <4>6
        <3> QED  BY <2>3, <3>1, <3>2
    <2> QED  BY ONLY <1>80, <2>1, <2>2, <2>3, <2>4
<1>10. (Len(todo') > 1 <=> n > 2) /\ (Len(todo') = 2 <=> n = 3)
    BY ONLY <1>80
<1> DEFINE A(l) ==
        /\ call' = <<"answer", l>> /\ phase' = (IF l = 0 THEN "read" ELSE "stop")
        /\ retVal' = <<>>
        /\ Runs(<<DC(1, 0), DC(l, 0), DC(l, 1), DC(l, 0), DC(1, 0)>>, 5)' /\ From(5, 1, 0)'
        /\ ~cut' => IF Len(todo') > 1
                   THEN /\ heard' = <<>>
                        /\ slave' = Slave("waits", IF Len(todo') = 2 THEN <<l>> ELSE <<>>, 1, 0)
                   ELSE /\ heard' = <<call'>>
                        /\ IF l = 1 THEN slave' = Free("deaf")
                           ELSE \E w \in Words : slave' = Giving(w, 1)
<1>11. A(level)
    BY <1>1, <1>7, <1>8, <1>9, <1>10 DEF Settles
<1>12. Answering'
    BY <1>11 DEF Answering
<1> QED
    BY <1>8, <1>12 DEF Settles

\* i2c_master_writeByte: bit B + 1 - k has its three settings at 3k, 3k - 1 and 3k - 2.
LEMMA ThirdOf ==
    ASSUME NEW m \in Nat, NEW t \in 1..(3 * m)
    PROVE  \E k \in 1..m : t = 3 * k \/ t = 3 * k - 1 \/ t = 3 * k - 2
<1>1. (t + 2) \div 3 \in 1..m
    OBVIOUS
<1>2. LET k == (t + 2) \div 3 IN t = 3 * k \/ t = 3 * k - 1 \/ t = 3 * k - 2
    OBVIOUS
<1> QED
    BY <1>1, <1>2

LEMMA SendProgramIs ==
    ASSUME I2cAssumption, NEW w \in Words, NEW x \in {0, 1}
    PROVE  /\ SendProgram(w, x)[3 * Bits + 1] = <<x, 0, FALSE>>
           /\ \A k \in 1..Bits :
                 /\ SendProgram(w, x)[3 * k] = <<w[Bits + 1 - k], 0, FALSE>>
                 /\ SendProgram(w, x)[3 * k - 1] = <<w[Bits + 1 - k], 1, FALSE>>
                 /\ SendProgram(w, x)[3 * k - 2] = <<w[Bits + 1 - k], 0, FALSE>>
<1>0. Bits \in Nat \ {0}
    BY BitsType
<1>1. SendProgram(w, x)[3 * Bits + 1] = <<x, 0, FALSE>>
    <2>1. 3 * Bits + 1 \in 1..(3 * Bits + 1)
        BY <1>0
    <2>2. SendProgram(w, x)[3 * Bits + 1] = DC(x, 0)
        BY ONLY <2>1, Zenon DEF SendProgram
    <2> QED  BY ONLY <2>2 DEF DC
<1>2. ASSUME NEW k \in 1..Bits
      PROVE  /\ SendProgram(w, x)[3 * k] = <<w[Bits + 1 - k], 0, FALSE>>
             /\ SendProgram(w, x)[3 * k - 1] = <<w[Bits + 1 - k], 1, FALSE>>
             /\ SendProgram(w, x)[3 * k - 2] = <<w[Bits + 1 - k], 0, FALSE>>
    <2>1. \A t \in 1..(3 * Bits) :
              SendProgram(w, x)[t] = <<w[Bits + 1 - (t + 2) \div 3], IF t % 3 = 2 THEN 1 ELSE 0, FALSE>>
        <3>1. ASSUME NEW t \in 1..(3 * Bits)
              PROVE  SendProgram(w, x)[t] =
                         <<w[Bits + 1 - (t + 2) \div 3], IF t % 3 = 2 THEN 1 ELSE 0, FALSE>>
            <4>1. t \in 1..(3 * Bits + 1) /\ t # 3 * Bits + 1
                BY <1>0
            <4>2. SendProgram(w, x)[t] = DC(w[Bits + 1 - (t + 2) \div 3], IF t % 3 = 2 THEN 1 ELSE 0)
                BY ONLY <4>1, Zenon DEF SendProgram
            <4> QED  BY ONLY <4>2, Zenon DEF DC
        <3> QED  BY ONLY <3>1
    <2>2. 3 * k \in 1..(3 * Bits) /\ 3 * k - 1 \in 1..(3 * Bits) /\ 3 * k - 2 \in 1..(3 * Bits)
        BY <1>0
    <2>3. /\ (3 * k + 2) \div 3 = k /\ (3 * k - 1 + 2) \div 3 = k /\ (3 * k - 2 + 2) \div 3 = k
          /\ (3 * k) % 3 = 0 /\ (3 * k - 1) % 3 = 2 /\ (3 * k - 2) % 3 = 1
        OBVIOUS
    <2>4. /\ SendProgram(w, x)[3 * k] =
                 <<w[Bits + 1 - (3 * k + 2) \div 3], IF (3 * k) % 3 = 2 THEN 1 ELSE 0, FALSE>>
          /\ SendProgram(w, x)[3 * k - 1] =
                 <<w[Bits + 1 - (3 * k - 1 + 2) \div 3], IF (3 * k - 1) % 3 = 2 THEN 1 ELSE 0, FALSE>>
          /\ SendProgram(w, x)[3 * k - 2] =
                 <<w[Bits + 1 - (3 * k - 2 + 2) \div 3], IF (3 * k - 2) % 3 = 2 THEN 1 ELSE 0, FALSE>>
        BY ONLY <2>1, <2>2, Zenon
    <2> QED  BY ONLY <2>3, <2>4
<1> QED
    BY <1>1, <1>2

\* The slave that takes the byte, when it has n bits of it.
Takes(w, s, n) ==
    s.mode = "takes" /\ Len(s.byte) = n /\ \A i \in 1..Len(s.byte) : s.byte[i] = w[i]

LEMMA TakesOn ==
    ASSUME I2cAssumption, NEW s, SlaveOK(s, 0), NEW w \in Words, NEW n \in 0..(Bits - 1), Takes(w, s, n)
    PROVE  Takes(w, [s EXCEPT !.byte = Append(@, w[n + 1])], n + 1)
<1>1. /\ s \in [mode : Modes, byte : Seq({0, 1}), pull : {0, 1}, n : 0..Bits]
      /\ s.mode = "takes" /\ Len(s.byte) = n /\ \A i \in 1..n : s.byte[i] = w[i]
    BY DEF Takes, SlaveOK
<1>2. Bits \in Nat \ {0} /\ w[n + 1] \in {0, 1} /\ n \in Nat
    BY BitsType, WordType
<1> DEFINE q == Append(s.byte, w[n + 1])
<1>3. Len(q) = n + 1 /\ q[n + 1] = w[n + 1] /\ \A i \in 1..n : q[i] = s.byte[i]
    BY <1>1, <1>2, AppendProperties
<1>4. \A i \in 1..Len(q) : q[i] = w[i]
    <2>1. ASSUME NEW i \in 1..(n + 1)
          PROVE  q[i] = w[i]
        <3>1. CASE i = n + 1
            BY ONLY <1>3, <3>1
        <3>2. CASE i # n + 1
            <4>1. i \in 1..n
                BY <1>2, <3>2
            <4> QED  BY ONLY <1>1, <1>3, <4>1, Zenon
        <3> QED  BY <3>1, <3>2
    <2> QED  BY <1>3, <2>1
<1>5. /\ [s EXCEPT !.byte = Append(@, w[n + 1])].mode = "takes"
      /\ [s EXCEPT !.byte = Append(@, w[n + 1])].byte = q
    BY <1>1
<1> HIDE DEF q
<1> QED
    BY <1>3, <1>4, <1>5 DEF Takes

\* A slave that has taken a part of the byte does nothing when SCL falls, one that
\* has all of it has heard it.
LEMMA TakesTurn ==
    ASSUME I2cAssumption, NEW s, SlaveOK(s, 1), NEW w \in Words, NEW n \in 0..Bits, Takes(w, s, n),
           NEW r \in Turns(s)
    PROVE  IF n = Bits
           THEN r.slave.mode = "acks" /\ r.slave.byte = w /\ r.slave.n = s.n /\ r.hears = <<<<"byte", w>>>>
           ELSE r.slave = s /\ r.hears = <<>>
<1>1. s.mode = "takes" /\ Len(s.byte) = n /\ s.byte \in Seq({0, 1})
    BY DEF Takes, SlaveOK
<1>2. CASE n # Bits
    BY <1>1, <1>2 DEF Turns
<1>3. CASE n = Bits
    <2>1. s.byte = w
        <3>1. w \in Seq({0, 1}) /\ Len(w) = Bits
            BY WordType
        <3>2. \A i \in 1..Len(w) : s.byte[i] = w[i]
            BY <1>1, <1>3, <3>1 DEF Takes
        <3> QED  BY <1>1, <1>3, <3>1, <3>2, SeqEqual
    <2>2. PICK ack \in {0, 1} :
              r = [slave |-> Slave("acks", s.byte, ack, s.n), hears |-> <<<<"byte", s.byte>>>>]
        BY <1>1, <1>3 DEF Turns
    <2> QED  BY <1>3, <2>1, <2>2 DEF Slave
<1> QED
    BY <1>2, <1>3

\* What the settings of a byte do to the slave that takes it.
LEMMA SentAt ==
    ASSUME I2cAssumption
    PROVE  /\ Sent(3 * Bits + 1) = 0 /\ Sent(3 * Bits) = 0
           /\ \A k \in 1..Bits : /\ Sent(3 * k) = Bits - k /\ Sent(3 * k - 1) = Bits - k
                                 /\ Sent(3 * k - 2) = Bits - k + 1 /\ Sent(3 * k - 3) = Bits - k + 1
    BY BitsType DEF Sent

\* How the call goes on with n settings left.
Proceeds(w, n) ==
    /\ Settles /\ retVal' = retVal
    /\ ~cut => IF n = 1
               THEN slave'.mode = "acks" /\ slave'.byte = w /\ slave'.n = slave.n /\ heard' = <<<<"byte", w>>>>
               ELSE Takes(w, slave', Sent(n - 1)) /\ slave'.n = slave.n /\ heard' = <<>>

LEMMA ProceedsStays ==
    ASSUME I2cAssumption, Wires, Records, NEW w \in Words, NEW a \in {0, 1}, Sets(a, 0, FALSE), scl = 0,
           NEW n \in Nat, n # 1, ~cut => Takes(w, slave, Sent(n)) /\ heard = <<>>, Sent(n - 1) = Sent(n)
    PROVE  Proceeds(w, n)
<1>1. Settles /\ retVal' = retVal
    BY Settled
<1>2. slave' = slave /\ heard' = heard
    BY StaysStep
<1> QED
    BY ONLY <1>1, <1>2, ~cut => Takes(w, slave, Sent(n)) /\ heard = <<>>, n # 1, Sent(n - 1) = Sent(n),
            Zenon DEF Proceeds

LEMMA ProceedsRises ==
    ASSUME I2cAssumption, Wires, Records, NEW w \in Words, NEW m \in 0..(Bits - 1),
           Sets(w[m + 1], 1, FALSE), sda = w[m + 1], scl = 0,
           NEW n \in Nat, n # 1, ~cut => Takes(w, slave, m) /\ heard = <<>>, Sent(n - 1) = m + 1
    PROVE  Proceeds(w, n)
<1>1. Bits \in Nat \ {0} /\ w[m + 1] \in {0, 1}
    BY BitsType, WordType
<1>2. Settles /\ retVal' = retVal
    BY <1>1, Settled
<1>3. ASSUME ~cut
      PROVE  Takes(w, slave', m + 1) /\ slave'.n = slave.n /\ heard' = <<>>
    <2>1. slave.mode = "takes" /\ heard = <<>> /\ Takes(w, slave, m)
        BY <1>3 DEF Takes
    <2>2. slave' = [slave EXCEPT !.byte = Append(@, w[m + 1])] /\ heard' = heard
        BY <1>1, <2>1, RiseStep
    <2>3. SlaveOK(slave, 0)
        BY DEF Wires
    <2>4. Takes(w, [slave EXCEPT !.byte = Append(@, w[m + 1])], m + 1)
        BY <2>1, <2>3, TakesOn
    <2>5. [slave EXCEPT !.byte = Append(@, w[m + 1])].n = slave.n
        BY <2>3 DEF SlaveOK
    <2> QED  BY ONLY <2>1, <2>2, <2>4, <2>5, Zenon
<1> QED
    BY ONLY <1>2, <1>3, n # 1, Sent(n - 1) = m + 1, Zenon DEF Proceeds

LEMMA ProceedsFalls ==
    ASSUME I2cAssumption, Wires, Records, NEW w \in Words, NEW a \in {0, 1}, NEW m \in 0..Bits,
           Sets(a, 0, FALSE), sda = a, scl = 1,
           NEW n \in Nat, n = 1 <=> m = Bits, ~cut => Takes(w, slave, m) /\ heard = <<>>,
           n # 1 => Sent(n - 1) = m
    PROVE  Proceeds(w, n)
<1>2. Settles /\ retVal' = retVal
    BY Settled
<1>3. ASSUME ~cut
      PROVE  IF m = Bits
             THEN slave'.mode = "acks" /\ slave'.byte = w /\ slave'.n = slave.n /\ heard' = <<<<"byte", w>>>>
             ELSE slave' = slave /\ heard' = <<>>
    <2>1. heard = <<>> /\ Takes(w, slave, m)
        BY <1>3
    <2>2. PICK r \in Turns(slave) : slave' = r.slave /\ heard' = heard \o r.hears
        BY FallStep
    <2>3. SlaveOK(slave, 1)
        BY DEF Wires
    <2>4. IF m = Bits
          THEN r.slave.mode = "acks" /\ r.slave.byte = w /\ r.slave.n = slave.n /\ r.hears = <<<<"byte", w>>>>
          ELSE r.slave = slave /\ r.hears = <<>>
        BY <2>1, <2>2, <2>3, TakesTurn
    <2>5. heard \o <<>> = heard /\ heard \o <<<<"byte", w>>>> = <<<<"byte", w>>>>
        BY <2>1, NothingHeard, FirstHeard
    <2> QED  BY ONLY <2>1, <2>2, <2>4, <2>5, Zenon
<1>4. CASE m = Bits
    BY ONLY <1>2, <1>3, <1>4, n = 1 <=> m = Bits, Zenon DEF Proceeds
<1>5. CASE m # Bits
    BY ONLY <1>2, <1>3, <1>5, n = 1 <=> m = Bits, n # 1 => Sent(n - 1) = m,
            ~cut => Takes(w, slave, m) /\ heard = <<>>, Zenon DEF Proceeds
<1> QED
    BY <1>4, <1>5

LEMMA SendingGoes ==
    ASSUME I2cAssumption, Wires, Records, i2c_master_setDC, NEW w \in Words, NEW x \in {0, 1},
           Runs(SendProgram(w, x), 3 * Bits + 1), From(3 * Bits + 1, x, 1 - x),
           ~cut => Takes(w, slave, Sent(Len(todo))) /\ heard = <<>>
    PROVE  Proceeds(w, Len(todo))
<1> DEFINE P == SendProgram(w, x)
           n == Len(todo)
<1>0. Bits \in Nat \ {0} /\ 3 * Bits + 1 \in Nat
    BY BitsType
<1>1. /\ P[3 * Bits + 1] = <<x, 0, FALSE>>
      /\ \A k \in 1..Bits :
            /\ P[3 * k] = <<w[Bits + 1 - k], 0, FALSE>>
            /\ P[3 * k - 1] = <<w[Bits + 1 - k], 1, FALSE>>
            /\ P[3 * k - 2] = <<w[Bits + 1 - k], 0, FALSE>>
    BY SendProgramIs
<1>2. Runs(P, 3 * Bits + 1) /\ (n = 3 * Bits + 1 => sda = x /\ scl = 1 - x)
    BY DEF From
<1> HIDE DEF P
<1>3. /\ n \in 1..(3 * Bits + 1) /\ \A a, c, look : P[n] = <<a, c, look>> => Sets(a, c, look)
      /\ \A k, a, c, look : (k \in 2..(3 * Bits + 1) /\ n = k - 1 /\ P[k] = <<a, c, look>>) => sda = a /\ scl = c
    BY <1>0, <1>2, RunsOn, RunsSets, RunsWas
<1>4. ~cut => Takes(w, slave, Sent(n)) /\ heard = <<>>
    OBVIOUS
<1> SUFFICES Proceeds(w, n)
    OBVIOUS
<1> HIDE DEF n
<1>5. CASE n = 3 * Bits + 1
    <2>1. Sets(x, 0, FALSE) /\ sda = x /\ scl = 1 - x
        BY ONLY <1>1, <1>2, <1>3, <1>5, Zenon
    <2>2. Sent(n) = 0 /\ Sent(n - 1) = 0 /\ n # 1 /\ n \in Nat /\ 0 # Bits
        <3>1. n - 1 = 3 * Bits /\ n # 1 /\ n \in Nat /\ 0 # Bits
            BY <1>0, <1>5
        <3> QED  BY ONLY <3>1, <1>5, SentAt, I2cAssumption, Zenon
    <2>3. CASE x = 1
        <3>1. scl = 0
            BY ONLY <2>1, <2>3
        <3> QED  BY <1>4, <2>1, <2>2, <3>1, ProceedsStays
    <2>4. CASE x = 0
        <3>1. scl = 1 /\ 0 \in 0..Bits /\ (n = 1 <=> 0 = Bits)
            BY ONLY <1>0, <2>1, <2>2, <2>4
        <3>2. /\ ~cut => Takes(w, slave, 0) /\ heard = <<>>
              /\ n # 1 => Sent(n - 1) = 0
            BY ONLY <1>4, <2>2, Zenon
        <3> QED  BY <2>1, <2>2, <3>1, <3>2, ProceedsFalls
    <2> QED  BY <2>3, <2>4
<1>6. CASE n # 3 * Bits + 1
    <2>1. PICK k \in 1..Bits : n = 3 * k \/ n = 3 * k - 1 \/ n = 3 * k - 2
        <3>1. n \in 1..(3 * Bits) /\ Bits \in Nat
            BY <1>0, <1>3, <1>6
        <3> QED  BY <3>1, ThirdOf
    <2>2. /\ P[3 * k] = <<w[Bits + 1 - k], 0, FALSE>>
          /\ P[3 * k - 1] = <<w[Bits + 1 - k], 1, FALSE>>
          /\ P[3 * k - 2] = <<w[Bits + 1 - k], 0, FALSE>>
          /\ Sent(3 * k) = Bits - k /\ Sent(3 * k - 1) = Bits - k
          /\ Sent(3 * k - 2) = Bits - k + 1 /\ Sent(3 * k - 3) = Bits - k + 1
        BY ONLY <1>1, <2>1, SentAt, I2cAssumption, Zenon
    <2>3. Bits + 1 - k \in 1..Bits /\ w[Bits + 1 - k] \in {0, 1}
        BY <1>0, WordType
    <2> DEFINE b == w[Bits + 1 - k]
    <2>4. CASE n = 3 * k
        <3>1. Sets(b, 0, FALSE)
            BY ONLY <1>3, <2>2, <2>4, Zenon
        <3>2. scl = 0
            <4>1. CASE k = Bits
                <5>1. 3 * Bits + 1 \in 2..(3 * Bits + 1) /\ n = (3 * Bits + 1) - 1
                    BY ONLY <1>0, <2>4, <4>1
                <5> QED  BY ONLY <1>1, <1>3, <5>1, Zenon
            <4>2. CASE k # Bits
                <5>1. /\ k + 1 \in 1..Bits
                      /\ 3 * (k + 1) - 2 \in 2..(3 * Bits + 1) /\ n = (3 * (k + 1) - 2) - 1
                    BY ONLY <1>0, <2>4, <4>2, k \in 1..Bits
                <5> QED  BY ONLY <1>1, <1>3, <5>1, Zenon
            <4> QED  BY <4>1, <4>2
        <3>3. n \in Nat /\ n # 1 /\ Sent(n - 1) = Sent(n)
            BY ONLY <2>2, <2>4, k \in 1..Bits, <1>0
        <3> QED  BY <1>4, <2>3, <3>1, <3>2, <3>3, ProceedsStays
    <2>5. CASE n = 3 * k - 1
        <3> DEFINE m == Bits - k
        <3>1. /\ m \in 0..(Bits - 1) /\ m + 1 = Bits + 1 - k /\ n \in Nat /\ n # 1 /\ n - 1 = 3 * k - 2
              /\ 3 * k \in 2..(3 * Bits + 1) /\ n = 3 * k - 1
            BY ONLY <1>0, <2>5, k \in 1..Bits
        <3>2. Sets(w[m + 1], 1, FALSE)
            BY ONLY <1>3, <2>2, <2>5, <3>1, Zenon
        <3>3. sda = w[m + 1] /\ scl = 0
            BY ONLY <1>3, <2>2, <3>1, Zenon
        <3>4. Sent(n) = m /\ Sent(n - 1) = m + 1
            <4>1. Bits - k + 1 = m + 1
                BY ONLY <1>0, k \in 1..Bits
            <4> QED  BY ONLY <2>2, <2>5, <3>1, <4>1, Zenon
        <3>5. ~cut => Takes(w, slave, m) /\ heard = <<>>
            BY ONLY <1>4, <3>4, Zenon
        <3> HIDE DEF m
        <3> QED  BY <3>1, <3>2, <3>3, <3>4, <3>5, ProceedsRises
    <2>6. CASE n = 3 * k - 2
        <3> DEFINE m == Bits - k + 1
        <3>1. /\ m \in 0..Bits /\ (n = 1 <=> m = Bits) /\ n \in Nat /\ n - 1 = 3 * k - 3
              /\ 3 * k - 1 \in 2..(3 * Bits + 1) /\ n = (3 * k - 1) - 1
            BY ONLY <1>0, <2>6, k \in 1..Bits
        <3>2. Sets(b, 0, FALSE)
            BY ONLY <1>3, <2>2, <2>6, <3>1, Zenon
        <3>3. sda = b /\ scl = 1
            BY ONLY <1>3, <2>2, <3>1, Zenon
        <3>4. Sent(n) = m /\ Sent(n - 1) = m
            BY ONLY <2>2, <2>6, <3>1, Zenon
        <3>5. ~cut => Takes(w, slave, m) /\ heard = <<>>
            BY ONLY <1>4, <3>4, Zenon
        <3> HIDE DEF m
        <3> QED  BY <2>3, <3>1, <3>2, <3>3, <3>4, <3>5, ProceedsFalls
    <2> QED  BY <2>1, <2>4, <2>5, <2>6
<1> QED
    BY <1>5, <1>6

LEMMA SendingStep ==
    ASSUME I2cAssumption, Wires, Records, Sending, i2c_master_setDC
    PROVE  Wires' /\ Records' /\ Sending'
<1>0. Bits \in Nat \ {0} /\ 3 * Bits + 1 \in Nat
    BY BitsType
<1>1. PICK w \in Words :
        /\ call = <<"byte", w>> /\ phase \in {"sent read", "sent write"} /\ retVal = <<>>
        /\ \E x \in {0, 1} : Runs(SendProgram(w, x), 3 * Bits + 1) /\ From(3 * Bits + 1, x, 1 - x)
        /\ ~cut => /\ phase = "sent read" <=> slave.n = 0 /\ w[Bits] = 1
                   /\ IF todo = <<>>
                      THEN slave.mode = "acks" /\ slave.byte = w /\ heard = <<call>>
                      ELSE /\ slave.mode = "takes" /\ heard = <<>>
                           /\ Len(slave.byte) = Sent(Len(todo))
                           /\ \A i \in 1..Len(slave.byte) : slave.byte[i] = w[i]
    BY DEF Sending
<1>2. PICK x \in {0, 1} : Runs(SendProgram(w, x), 3 * Bits + 1) /\ From(3 * Bits + 1, x, 1 - x)
    BY <1>1
<1>3. /\ Len(todo) \in 1..(3 * Bits + 1) /\ Len(todo') = Len(todo) - 1 /\ Len(todo') # 3 * Bits + 1
      /\ todo # <<>> /\ (todo' = <<>> <=> Len(todo) = 1)
      /\ Runs(SendProgram(w, x), 3 * Bits + 1)'
    BY <1>0, <1>2, RunsOn
<1>4. ~cut => Takes(w, slave, Sent(Len(todo))) /\ heard = <<>>
    BY <1>1, <1>3 DEF Takes
<1>5. Proceeds(w, Len(todo))
    BY <1>2, <1>4, SendingGoes
<1>6. From(3 * Bits + 1, x, 1 - x)'
    BY <1>3 DEF From
<1>7. /\ call' = <<"byte", w>> /\ phase' = phase /\ retVal' = <<>> /\ cut' = cut /\ Wires' /\ Records'
    BY ONLY <1>1, <1>5, Zenon DEF Proceeds, Settles
<1>8. \E y \in {0, 1} : Runs(SendProgram(w, y), 3 * Bits + 1)' /\ From(3 * Bits + 1, y, 1 - y)'
    BY <1>3, <1>6
<1>9. ~cut' => /\ phase' = "sent read" <=> slave'.n = 0 /\ w[Bits] = 1
               /\ IF todo' = <<>>
                  THEN slave'.mode = "acks" /\ slave'.byte = w /\ heard' = <<call'>>
                  ELSE /\ slave'.mode = "takes" /\ heard' = <<>>
                       /\ Len(slave'.byte) = Sent(Len(todo'))
                       /\ \A i \in 1..Len(slave'.byte) : slave'.byte[i] = w[i]
    <2>1. ASSUME ~cut'
          PROVE  slave'.n = slave.n /\ (phase' = "sent read" <=> slave'.n = 0 /\ w[Bits] = 1)
        BY ONLY <1>1, <1>5, <1>7, <2>1, Zenon DEF Proceeds
    <2>2. ASSUME ~cut', Len(todo) = 1
          PROVE  slave'.mode = "acks" /\ slave'.byte = w /\ heard' = <<call'>>
        BY ONLY <1>5, <1>7, <2>2, Zenon DEF Proceeds
    <2>3. ASSUME ~cut', Len(todo) # 1
          PROVE  /\ slave'.mode = "takes" /\ heard' = <<>>
                 /\ Len(slave'.byte) = Sent(Len(todo'))
                 /\ \A i \in 1..Len(slave'.byte) : slave'.byte[i] = w[i]
        BY ONLY <1>3, <1>5, <1>7, <2>3, Zenon DEF Proceeds, Takes
    <2> QED  BY ONLY <1>3, <2>1, <2>2, <2>3, Zenon
<1> DEFINE S(v) ==
        /\ call' = <<"byte", v>> /\ phase' \in {"sent read", "sent write"} /\ retVal' = <<>>
        /\ \E y \in {0, 1} : Runs(SendProgram(v, y), 3 * Bits + 1)' /\ From(3 * Bits + 1, y, 1 - y)'
        /\ ~cut' => /\ phase' = "sent read" <=> slave'.n = 0 /\ v[Bits] = 1
                    /\ IF todo' = <<>>
                       THEN slave'.mode = "acks" /\ slave'.byte = v /\ heard' = <<call'>>
                       ELSE /\ slave'.mode = "takes" /\ heard' = <<>>
                            /\ Len(slave'.byte) = Sent(Len(todo'))
                            /\ \A i \in 1..Len(slave'.byte) : slave'.byte[i] = v[i]
<1>10. S(w)
    BY ONLY <1>1, <1>7, <1>8, <1>9, Zenon
<1>11. Sending'
    BY ONLY <1>10, w \in Words, Zenon DEF Sending
<1> QED
    BY <1>7, <1>11

\* i2c_master_readByte: bit B + 1 - k is read at 2k, and SCL falls behind it at 2k - 1.
LEMMA ReadProgramIs ==
    ASSUME I2cAssumption
    PROVE  /\ ReadProgram[2 * Bits + 2] = <<1, 0, FALSE>> /\ ReadProgram[2 * Bits + 1] = <<1, 0, FALSE>>
           /\ \A k \in 1..Bits : /\ ReadProgram[2 * k] = <<1, 1, TRUE>>
                                 /\ ReadProgram[2 * k - 1] = <<1, 0, FALSE>>
<1>0. Bits \in Nat \ {0}
    BY BitsType
<1>1. ASSUME NEW t \in 1..(2 * Bits + 2)
      PROVE  /\ t % 2 = 0 /\ t # 2 * Bits + 2 => ReadProgram[t] = <<1, 1, TRUE>>
             /\ ~(t % 2 = 0 /\ t # 2 * Bits + 2) => ReadProgram[t] = <<1, 0, FALSE>>
    <2>1. ReadProgram[t] = IF t % 2 = 0 /\ t # 2 * Bits + 2 THEN GetDC(1, 1) ELSE DC(1, 0)
        BY ONLY t \in 1..(2 * Bits + 2), Zenon DEF ReadProgram
    <2> QED  BY ONLY <2>1, Zenon DEF DC, GetDC
<1>2. ReadProgram[2 * Bits + 2] = <<1, 0, FALSE>>
    <2>1. 2 * Bits + 2 \in 1..(2 * Bits + 2)
        BY <1>0
    <2> QED  BY ONLY <1>1, <2>1, Zenon
<1>3. ReadProgram[2 * Bits + 1] = <<1, 0, FALSE>>
    <2>1. 2 * Bits + 1 \in 1..(2 * Bits + 2) /\ (2 * Bits + 1) % 2 = 1 /\ 1 # 0
        BY <1>0
    <2> QED  BY ONLY <1>1, <2>1, Zenon
<1>4. ASSUME NEW k \in 1..Bits
      PROVE  ReadProgram[2 * k] = <<1, 1, TRUE>> /\ ReadProgram[2 * k - 1] = <<1, 0, FALSE>>
    <2>1. /\ 2 * k \in 1..(2 * Bits + 2) /\ (2 * k) % 2 = 0 /\ 2 * k # 2 * Bits + 2
          /\ 2 * k - 1 \in 1..(2 * Bits + 2) /\ (2 * k - 1) % 2 = 1 /\ 1 # 0
        BY <1>0
    <2> QED  BY ONLY <1>1, <2>1, Zenon
<1> QED
    BY <1>2, <1>3, <1>4

LEMMA GotAt ==
    ASSUME I2cAssumption
    PROVE  /\ Got(2 * Bits + 2) = 0 /\ Got(2 * Bits + 1) = 0 /\ Got(2 * Bits) = 0
           /\ \A k \in 1..Bits : /\ Got(2 * k) = Bits - k /\ Got(2 * k - 1) = Bits - k + 1
                                 /\ Got(2 * k - 2) = Bits - k + 1
    BY BitsType DEF Got

LEMMA HalfOf ==
    ASSUME NEW m \in Nat, NEW t \in 1..(2 * m)
    PROVE  \E k \in 1..m : t = 2 * k \/ t = 2 * k - 1
<1>1. (t + 1) \div 2 \in 1..m
    OBVIOUS
<1>2. LET k == (t + 1) \div 2 IN t = 2 * k \/ t = 2 * k - 1
    OBVIOUS
<1> QED
    BY <1>1, <1>2

\* The three kinds of settings, with n of them left.
Waiting(n) == Sets(1, 0, FALSE) /\ sda = 1 /\ scl = 0 /\ n # 1 /\ Got(n) = 0 /\ Got(n - 1) = 0

Reads(n, m) == Sets(1, 1, TRUE) /\ sda = 1 /\ scl = 0 /\ n # 1 /\ Got(n) = m /\ Got(n - 1) = m + 1

Passes(n, m) == Sets(1, 0, FALSE) /\ sda = 1 /\ scl = 1 /\ (n = 1 <=> m = Bits) /\ Got(n) = m /\ Got(n - 1) = m

LEMMA ReadingAt ==
    ASSUME I2cAssumption, i2c_master_setDC, Runs(ReadProgram, 2 * Bits + 2), From(2 * Bits + 2, 1, 0)
    PROVE  \/ Waiting(Len(todo))
           \/ \E m \in 0..(Bits - 1) : Reads(Len(todo), m)
           \/ \E m \in 1..Bits : Passes(Len(todo), m)
<1> DEFINE n == Len(todo)
           P == ReadProgram
<1>0. Bits \in Nat \ {0} /\ 2 * Bits + 2 \in Nat
    BY BitsType
<1>1. /\ P[2 * Bits + 2] = <<1, 0, FALSE>> /\ P[2 * Bits + 1] = <<1, 0, FALSE>>
      /\ \A k \in 1..Bits : P[2 * k] = <<1, 1, TRUE>> /\ P[2 * k - 1] = <<1, 0, FALSE>>
    BY ReadProgramIs
<1>2. n = 2 * Bits + 2 => sda = 1 /\ scl = 0
    BY DEF From
<1>3. /\ n \in 1..(2 * Bits + 2) /\ \A a, c, look : P[n] = <<a, c, look>> => Sets(a, c, look)
      /\ \A k, a, c, look : (k \in 2..(2 * Bits + 2) /\ n = k - 1 /\ P[k] = <<a, c, look>>) => sda = a /\ scl = c
    BY <1>0, RunsOn, RunsSets, RunsWas
<1> SUFFICES Waiting(n) \/ (\E m \in 0..(Bits - 1) : Reads(n, m)) \/ (\E m \in 1..Bits : Passes(n, m))
    OBVIOUS
<1> HIDE DEF n, P
<1>4. CASE n = 2 * Bits + 2
    <2>1. n - 1 = 2 * Bits + 1 /\ n # 1
        BY ONLY <1>0, <1>4
    <2>2. Got(n) = 0 /\ Got(n - 1) = 0
        BY ONLY <1>4, <2>1, GotAt, I2cAssumption, Zenon
    <2>3. Sets(1, 0, FALSE)
        BY ONLY <1>1, <1>3, <1>4, Zenon
    <2> QED  BY <1>2, <1>4, <2>1, <2>2, <2>3 DEF Waiting
<1>5. CASE n = 2 * Bits + 1
    <2>1. n - 1 = 2 * Bits /\ n # 1 /\ n = (2 * Bits + 2) - 1 /\ 2 * Bits + 2 \in 2..(2 * Bits + 2)
        BY ONLY <1>0, <1>5
    <2>2. Got(n) = 0 /\ Got(n - 1) = 0
        BY ONLY <1>5, <2>1, GotAt, I2cAssumption, Zenon
    <2>3. Sets(1, 0, FALSE) /\ sda = 1 /\ scl = 0
        BY ONLY <1>1, <1>3, <1>5, <2>1, Zenon
    <2> QED  BY <2>1, <2>2, <2>3 DEF Waiting
<1>6. CASE n # 2 * Bits + 2 /\ n # 2 * Bits + 1
    <2>1. PICK k \in 1..Bits : n = 2 * k \/ n = 2 * k - 1
        <3>1. n \in 1..(2 * Bits) /\ Bits \in Nat
            BY <1>0, <1>3, <1>6
        <3> QED  BY <3>1, HalfOf
    <2>2. /\ P[2 * k] = <<1, 1, TRUE>> /\ P[2 * k - 1] = <<1, 0, FALSE>>
          /\ Got(2 * k) = Bits - k /\ Got(2 * k - 1) = Bits - k + 1
          /\ Got(2 * k - 2) = Bits - k + 1
        BY ONLY <1>1, <2>1, GotAt, I2cAssumption, Zenon
    <2>3. CASE n = 2 * k
        <3>1. /\ Bits - k \in 0..(Bits - 1) /\ n - 1 = 2 * k - 1 /\ n # 1
              /\ 2 * k + 1 \in 2..(2 * Bits + 2) /\ n = (2 * k + 1) - 1
            BY ONLY <1>0, <2>3, k \in 1..Bits
        <3>2. Sets(1, 1, TRUE)
            BY ONLY <1>3, <2>2, <2>3, Zenon
        <3>3. P[2 * k + 1] = <<1, 0, FALSE>>
            <4>1. CASE k = Bits
                BY ONLY <1>1, <4>1, Zenon
            <4>2. CASE k # Bits
                <5>1. k + 1 \in 1..Bits /\ 2 * (k + 1) - 1 = 2 * k + 1
                    BY ONLY <1>0, <4>2, k \in 1..Bits
                <5> QED  BY ONLY <1>1, <5>1, Zenon
            <4> QED  BY <4>1, <4>2
        <3>4. sda = 1 /\ scl = 0
            BY ONLY <1>3, <3>1, <3>3, Zenon
        <3>5. Reads(n, Bits - k)
            BY ONLY <2>2, <2>3, <3>1, <3>2, <3>4, Zenon DEF Reads
        <3> QED  BY ONLY <3>1, <3>5, Zenon
    <2>4. CASE n = 2 * k - 1
        <3>1. /\ Bits - k + 1 \in 1..Bits /\ n - 1 = 2 * k - 2 /\ (n = 1 <=> Bits - k + 1 = Bits)
              /\ 2 * k \in 2..(2 * Bits + 2) /\ n = 2 * k - 1
            BY ONLY <1>0, <2>4, k \in 1..Bits
        <3>2. Sets(1, 0, FALSE) /\ sda = 1 /\ scl = 1
            BY ONLY <1>3, <2>2, <3>1, Zenon
        <3>3. Passes(n, Bits - k + 1)
            BY ONLY <2>2, <3>1, <3>2, Zenon DEF Passes
        <3> QED  BY ONLY <3>1, <3>3, Zenon
    <2> QED  BY <2>1, <2>3, <2>4
<1> QED
    BY <1>4, <1>5, <1>6

\* What was read is the beginning of the byte the slave gives.
ReadOn(w, q, s, c) == /\ \A i \in 1..Len(q) : q[i] = w[i]
                      /\ s = Giving(w, IF c = 1 THEN Len(q) ELSE Len(q) + 1)

\* How the call goes on with n settings left.
Continues(n) ==
    /\ Settles /\ Len(retVal') = Got(n - 1)
    /\ ~cut => IF n = 1 THEN slave' = Free("waits") /\ heard' = <<<<"given", retVal'>>>>
               ELSE heard' = <<>> /\ \E w \in Words : ReadOn(w, retVal', slave', scl')

LEMMA ContinuesWaiting ==
    ASSUME I2cAssumption, Wires, Records, NEW n, Waiting(n), Len(retVal) = Got(n),
           ~cut => heard = <<>> /\ \E w \in Words : ReadOn(w, retVal, slave, scl)
    PROVE  Continues(n)
<1>1. Sets(1, 0, FALSE) /\ sda = 1 /\ scl = 0 /\ n # 1 /\ Got(n) = Got(n - 1)
    BY DEF Waiting
<1>2. Settles /\ retVal' = retVal
    BY <1>1, Settled
<1>3. slave' = slave /\ heard' = heard
    BY <1>1, StaysStep
<1>4. scl' = scl
    BY <1>1 DEF Sets
<1> QED
    BY ONLY <1>1, <1>2, <1>3, <1>4, Len(retVal) = Got(n),
            ~cut => heard = <<>> /\ \E w \in Words : ReadOn(w, retVal, slave, scl), Zenon DEF Continues

LEMMA ContinuesReads ==
    ASSUME I2cAssumption, Wires, Records, NEW n, NEW m \in 0..(Bits - 1), Reads(n, m), Len(retVal) = Got(n),
           ~cut => heard = <<>> /\ \E w \in Words : ReadOn(w, retVal, slave, scl)
    PROVE  Continues(n)
<1>1. Sets(1, 1, TRUE) /\ sda = 1 /\ scl = 0 /\ n # 1 /\ Got(n) = m /\ Got(n - 1) = m + 1
    BY DEF Reads
<1>2. Bits \in Nat \ {0} /\ m \in Nat
    BY BitsType
<1>3. Settles /\ Len(retVal') = Len(retVal) + 1
    BY <1>1, Settled
<1>4. Len(retVal') = Got(n - 1)
    BY ONLY <1>1, <1>3, Len(retVal) = Got(n)
<1>5. ASSUME ~cut
      PROVE  heard' = <<>> /\ \E w \in Words : ReadOn(w, retVal', slave', scl')
    <2>1. PICK w \in Words : ReadOn(w, retVal, slave, scl)
        BY <1>5
    <2>2. heard = <<>> /\ Len(retVal) = m /\ retVal \in Seq({0, 1})
        BY <1>1, <1>5 DEF Records
    <2>3. /\ \A i \in 1..m : retVal[i] = w[i]
          /\ slave = Giving(w, m + 1)
        BY <1>1, <2>1, <2>2 DEF ReadOn
    <2>4. slave.mode \notin {"takes", "waits"} /\ slave.pull = w[m + 1]
        BY <2>3 DEF Giving, Slave
    <2>5. w[m + 1] \in {0, 1}
        BY <1>2, WordType
    <2>6. slave' = slave /\ heard' = heard /\ retVal' = Append(retVal, 1 * slave.pull)
        BY <1>1, <2>4, StaysStep
    <2>7. retVal' = Append(retVal, w[m + 1])
        BY ONLY <2>4, <2>5, <2>6, Level
    <2>8. Len(retVal') = m + 1 /\ retVal'[m + 1] = w[m + 1] /\ \A i \in 1..m : retVal'[i] = retVal[i]
        BY <2>2, <2>5, <2>7, AppendProperties
    <2>9. \A i \in 1..Len(retVal') : retVal'[i] = w[i]
        <3>1. ASSUME NEW i \in 1..(m + 1)
              PROVE  retVal'[i] = w[i]
            <4>1. CASE i = m + 1
                BY ONLY <2>8, <4>1
            <4>2. CASE i # m + 1
                <5>1. i \in 1..m
                    BY <1>2, <4>2
                <5> QED  BY ONLY <2>3, <2>8, <5>1, Zenon
            <4> QED  BY <4>1, <4>2
        <3> QED  BY ONLY <2>8, <3>1, Zenon
    <2>10. scl' = 1
        BY <1>1 DEF Sets
    <2>11. ReadOn(w, retVal', slave', scl')
        BY ONLY <2>3, <2>6, <2>8, <2>9, <2>10, Zenon DEF ReadOn
    <2> QED  BY ONLY <2>2, <2>6, <2>11, w \in Words, Zenon
<1> QED
    BY ONLY <1>1, <1>3, <1>4, <1>5, Zenon DEF Continues

LEMMA ContinuesPasses ==
    ASSUME I2cAssumption, Wires, Records, NEW n, NEW m \in 1..Bits, Passes(n, m), Len(retVal) = Got(n),
           ~cut => heard = <<>> /\ \E w \in Words : ReadOn(w, retVal, slave, scl)
    PROVE  Continues(n)
<1>1. Sets(1, 0, FALSE) /\ sda = 1 /\ scl = 1 /\ (n = 1 <=> m = Bits) /\ Got(n) = m /\ Got(n - 1) = m
    BY DEF Passes
<1>2. Bits \in Nat \ {0} /\ m \in Nat
    BY BitsType
<1>3. Settles /\ retVal' = retVal
    BY <1>1, Settled
<1>4. Len(retVal') = Got(n - 1) /\ Len(retVal) = m
    BY ONLY <1>1, <1>3, Len(retVal) = Got(n), Zenon
<1>5. ASSUME ~cut
      PROVE  IF n = 1 THEN slave' = Free("waits") /\ heard' = <<<<"given", retVal'>>>>
             ELSE heard' = <<>> /\ \E w \in Words : ReadOn(w, retVal', slave', scl')
    <2>1. PICK w \in Words : ReadOn(w, retVal, slave, scl)
        BY <1>5
    <2>2. heard = <<>> /\ retVal \in Seq({0, 1})
        BY <1>5 DEF Records
    <2>3. /\ \A i \in 1..m : retVal[i] = w[i]
          /\ slave = Giving(w, m)
        BY <1>1, <1>4, <2>1 DEF ReadOn
    <2>4. slave.mode = "gives" /\ slave.byte = w /\ slave.n = m
        BY <2>3 DEF Giving, Slave
    <2>5. PICK r \in Turns(slave) : slave' = r.slave /\ heard' = heard \o r.hears
        BY <1>1, FallStep
    <2>6. r = IF m = Bits
              THEN [slave |-> Free("waits"), hears |-> <<<<"given", w>>>>]
              ELSE [slave |-> Giving(w, m + 1), hears |-> <<>>]
        BY <2>4, <2>5 DEF Turns
    <2>7. heard \o <<>> = heard /\ heard \o <<<<"given", w>>>> = <<<<"given", w>>>>
        BY <2>2, NothingHeard, FirstHeard
    <2>8. CASE m = Bits
        <3>1. retVal = w
            <4>1. w \in Seq({0, 1}) /\ Len(w) = Bits
                BY WordType
            <4> QED  BY <1>4, <2>2, <2>3, <2>8, <4>1, SeqEqual
        <3>2. r.slave = Free("waits") /\ r.hears = <<<<"given", w>>>>
            BY ONLY <2>6, <2>8
        <3> QED  BY ONLY <1>1, <1>3, <2>5, <2>7, <2>8, <3>1, <3>2, Zenon
    <2>9. CASE m # Bits
        <3>1. r.slave = Giving(w, m + 1) /\ r.hears = <<>>
            BY ONLY <2>6, <2>9
        <3>2. scl' = 0 /\ 0 # 1
            BY <1>1 DEF Sets
        <3>3. ReadOn(w, retVal', slave', scl')
            BY ONLY <1>3, <1>4, <2>3, <2>5, <3>1, <3>2, Zenon DEF ReadOn
        <3> QED  BY ONLY <1>1, <2>2, <2>5, <2>7, <2>9, <3>1, <3>3, w \in Words, Zenon
    <2> QED  BY <2>8, <2>9
<1> QED
    BY ONLY <1>3, <1>4, <1>5, Zenon DEF Continues

LEMMA ReadingStep ==
    ASSUME I2cAssumption, Wires, Records, Reading, i2c_master_setDC
    PROVE  Wires' /\ Records' /\ Reading'
<1>0. Bits \in Nat \ {0} /\ 2 * Bits + 2 \in Nat
    BY BitsType
<1>1. /\ call = <<"read">> /\ phase = "answer"
      /\ Runs(ReadProgram, 2 * Bits + 2) /\ From(2 * Bits + 2, 1, 0)
      /\ Len(retVal) = Got(Len(todo))
    BY DEF Reading
<1>2. /\ Len(todo) \in 1..(2 * Bits + 2) /\ Len(todo') = Len(todo) - 1 /\ Len(todo') # 2 * Bits + 2
      /\ todo # <<>> /\ (todo' = <<>> <=> Len(todo) = 1)
      /\ Runs(ReadProgram, 2 * Bits + 2)'
    BY <1>0, <1>1, RunsOn
<1>3. ~cut => heard = <<>> /\ \E w \in Words : ReadOn(w, retVal, slave, scl)
    BY <1>2, Zenon DEF Reading, ReadOn
<1>4. Continues(Len(todo))
    <2>1. \/ Waiting(Len(todo))
          \/ \E m \in 0..(Bits - 1) : Reads(Len(todo), m)
          \/ \E m \in 1..Bits : Passes(Len(todo), m)
        BY <1>1, ReadingAt
    <2> QED  BY <1>1, <1>3, <2>1, ContinuesWaiting, ContinuesReads, ContinuesPasses
<1>5. From(2 * Bits + 2, 1, 0)'
    BY <1>2 DEF From
<1>6. /\ call' = <<"read">> /\ phase' = "answer" /\ cut' = cut /\ Wires' /\ Records'
      /\ Len(retVal') = Got(Len(todo'))
    BY ONLY <1>1, <1>2, <1>4, Zenon DEF Continues, Settles
<1>7. ~cut' => IF todo' = <<>> THEN slave' = Free("waits") /\ heard' = <<<<"given", retVal'>>>>
              ELSE /\ heard' = <<>>
                   /\ \E w \in Words :
                          /\ \A i \in 1..Len(retVal') : retVal'[i] = w[i]
                          /\ slave' = Giving(w, IF scl' = 1 THEN Len(retVal') ELSE Len(retVal') + 1)
    BY ONLY <1>2, <1>4, <1>6, Zenon DEF Continues, ReadOn
<1>8. Reading'
    BY ONLY <1>2, <1>5, <1>6, <1>7, Zenon DEF Reading
<1> QED
    BY <1>6, <1>8

\* Going round Bits + 1 makes no difference.
LEMMA Around ==
    ASSUME NEW N \in Nat \ {0}, NEW a \in Int
    PROVE  (N + a) % N = a % N
<1>1. a % N \in 0..(N - 1) /\ a \div N \in Int /\ a = N * (a \div N) + (a % N)
    BY DivMod
<1> DEFINE d == a \div N
           r == a % N
<1>2. N * (d + 1) = N * d + N
    BY <1>1, Times
<1> HIDE DEF d, r
<1>3. N + a = N * (d + 1) + r /\ d + 1 \in Int
    BY <1>1, <1>2 DEF d, r
<1>4. (N * (d + 1) + r) % N = r
    BY <1>1, <1>3, RemainderIs DEF r
<1> QED
    BY ONLY <1>3, <1>4 DEF r

LEMMA OneMore ==
    ASSUME NEW N \in Nat \ {0}, NEW a \in Nat, a % N = 1, NEW b \in 1..(N - 2)
    PROVE  (b + a) % N # 0
<1>1. a % N \in 0..(N - 1) /\ a \div N \in Int /\ a = N * (a \div N) + (a % N)
    BY DivMod
<1> DEFINE d == a \div N
<1> HIDE DEF d
<1>2. d \in Int /\ a = N * d + 1
    BY <1>1 DEF d
<1>3. b + a = N * d + (b + 1) /\ b + 1 \in 0..(N - 1) /\ b + 1 # 0
    <2>1. N * d \in Int
        BY <1>2
    <2> QED  BY <1>2, <2>1
<1>4. (N * d + (b + 1)) % N = b + 1
    BY <1>2, <1>3, RemainderIs
<1> QED
    BY ONLY <1>3, <1>4

\* The four parts of Frees.
LEMMA FreesOthers ==
    ASSUME NEW s, NEW c, NEW rises, s.mode \notin {"takes", "acks", "gives"}, s.mode = "waits" => s.byte = <<>> \/ s.byte = << 1 >>
    PROVE  Frees(s, c, rises)
    BY DEF Frees

LEMMA FreesTakes ==
    ASSUME NEW s, NEW c, NEW rises, s.mode = "takes"
    PROVE  Frees(s, c, rises) <=>
             /\ s.byte # <<>> => s.byte[Len(s.byte)] = 1
             /\ IF s.n = 0 THEN Len(s.byte) + rises >= 2 * Bits + 2
                ELSE (Len(s.byte) + rises) % (Bits + 1) # 0
    BY Zenon DEF Frees

LEMMA FreesAcks ==
    ASSUME NEW s, NEW c, NEW rises, s.mode = "acks"
    PROVE  Frees(s, c, rises) <=>
             (s.pull = 0 => IF s.n = 0 /\ s.byte[Bits] = 1 THEN rises + c >= Bits + 2
                            ELSE (Bits + c + rises) % (Bits + 1) # 0)
    BY Zenon DEF Frees

LEMMA FreesGives ==
    ASSUME NEW s, NEW c, NEW rises, s.mode = "gives"
    PROVE  Frees(s, c, rises) <=> s.n + rises + c >= Bits + 2
    BY Zenon DEF Frees

\* A clock: SCL falls with the rises that are left, and rises.
LEMMA FreesFalls ==
    ASSUME I2cAssumption, NEW s, NEW R \in Nat, SlaveOK(s, 1), Frees(s, 1, R), NEW r \in Turns(s)
    PROVE  Frees(r.slave, 0, R)
<1>0. Bits \in Nat \ {0}
    BY BitsType
<1>1. s \in [mode : Modes, byte : Seq({0, 1}), pull : {0, 1}, n : 0..Bits]
    BY DEF SlaveOK
<1>2. CASE s.mode = "takes" /\ Len(s.byte) = Bits
    <2>1. PICK ack \in {0, 1} : r = [slave |-> Slave("acks", s.byte, ack, s.n),
                                     hears |-> <<<<"byte", s.byte>>>>]
        BY <1>2 DEF Turns
    <2>2. r.slave.mode = "acks" /\ r.slave.byte = s.byte /\ r.slave.n = s.n
        BY <2>1 DEF Slave
    <2>3. /\ s.byte # <<>> => s.byte[Len(s.byte)] = 1
          /\ IF s.n = 0 THEN Len(s.byte) + R >= 2 * Bits + 2
             ELSE (Len(s.byte) + R) % (Bits + 1) # 0
        BY <1>2, FreesTakes
    <2>4. s.byte[Bits] = 1
        <3>1. s.byte # <<>>
            BY <1>0, <1>2
        <3> QED  BY ONLY <1>2, <2>3, <3>1, Zenon
    <2>5. CASE s.n = 0
        <3>1. R + 0 >= Bits + 2
            <4>1. Bits + R >= 2 * Bits + 2
                BY ONLY <1>2, <2>3, <2>5
            <4> QED  BY ONLY <1>0, <4>1, R \in Nat
        <3> QED  BY ONLY <2>2, <2>4, <2>5, <3>1, FreesAcks, Zenon
    <2>6. CASE s.n # 0
        <3>1. (Bits + 0 + R) % (Bits + 1) # 0
            <4>1. (Bits + R) % (Bits + 1) # 0
                BY ONLY <1>2, <2>3, <2>6, Zenon
            <4>2. Bits + 0 + R = Bits + R
                BY ONLY <1>0, R \in Nat
            <4> QED  BY ONLY <4>1, <4>2, Zenon
        <3> QED  BY ONLY <2>2, <2>6, <3>1, FreesAcks, Zenon
    <2> QED  BY <2>5, <2>6
<1>3. CASE s.mode = "acks"
    <2>1. PICK next \in IF s.pull = 1 THEN {Free("deaf")}
                     ELSE IF s.n = 0 /\ s.byte[Bits] = 1 THEN {Giving(w, 1) : w \in Words}
                     ELSE {Slave("takes", <<>>, 1, 1)} :
             r = [slave |-> next, hears |-> <<<<"acks", s.pull>>>>]
        BY <1>3 DEF Turns
    <2>2. r.slave = next
        BY <2>1
    <2>3. CASE s.pull = 1
        <3>1. r.slave = Free("deaf")
            BY <2>1, <2>2, <2>3
        <3>2. r.slave.mode = "deaf"
            BY <3>1 DEF Free, Slave
        <3> QED  BY <3>2, FreesOthers
    <2>4. CASE s.pull # 1
        <3>1. s.pull = 0 /\ s.pull # 1
            BY <1>1, <2>4
        <3>2. IF s.n = 0 /\ s.byte[Bits] = 1 THEN R + 1 >= Bits + 2
              ELSE (Bits + 1 + R) % (Bits + 1) # 0
            BY <1>3, <3>1, FreesAcks
        <3>3. CASE s.n = 0 /\ s.byte[Bits] = 1
            <4>1. PICK w \in Words : r.slave = Giving(w, 1)
                BY <2>1, <2>2, <3>1, <3>3
            <4>2. r.slave.mode = "gives" /\ r.slave.n = 1
                BY <4>1 DEF Giving, Slave
            <4>3. 1 + R + 0 >= Bits + 2
                BY <1>0, <3>2, <3>3
            <4> QED  BY ONLY <4>2, <4>3, FreesGives, Zenon
        <3>4. CASE ~(s.n = 0 /\ s.byte[Bits] = 1)
            <4>1. r.slave = Slave("takes", <<>>, 1, 1)
                BY <2>1, <2>2, <3>1, <3>4
            <4>2. r.slave.mode = "takes" /\ r.slave.byte = <<>> /\ r.slave.n = 1 /\ 1 # 0
                BY <4>1 DEF Slave
            <4>3. (Len(<<>>) + R) % (Bits + 1) # 0
                <5>1. (Bits + 1 + R) % (Bits + 1) # 0
                    BY ONLY <3>2, <3>4, Zenon
                <5>2. (Bits + 1 + R) % (Bits + 1) = R % (Bits + 1)
                    <6>1. Bits + 1 \in Nat \ {0} /\ R \in Int
                        BY <1>0
                    <6> QED  BY ONLY <6>1, Around, Zenon
                <5>3. Len(<<>>) + R = R
                    OBVIOUS
                <5> QED  BY ONLY <5>1, <5>2, <5>3, Zenon
            <4> QED  BY ONLY <4>2, <4>3, FreesTakes, Zenon
        <3> QED  BY <3>3, <3>4
    <2> QED  BY <2>3, <2>4
<1>4. CASE s.mode = "gives"
    <2>1. r = IF s.n = Bits
              THEN [slave |-> Free("waits"), hears |-> <<<<"given", s.byte>>>>]
              ELSE [slave |-> Giving(s.byte, s.n + 1), hears |-> <<>>]
        BY <1>4 DEF Turns
    <2>2. s.n + R + 1 >= Bits + 2
        BY <1>4, FreesGives
    <2>3. CASE s.n = Bits
        <3>1. r.slave.mode = "waits" /\ r.slave.byte = <<>>
            BY <2>1, <2>3 DEF Free, Slave
        <3> QED  BY <3>1, FreesOthers
    <2>4. CASE s.n # Bits
        <3>1. r.slave.mode = "gives" /\ r.slave.n = s.n + 1
            BY <2>1, <2>4 DEF Giving, Slave
        <3>2. (s.n + 1) + R + 0 >= Bits + 2
            <4>1. s.n \in Nat
                BY <1>1
            <4> QED  BY ONLY <1>0, <2>2, <4>1, R \in Nat
        <3> QED  BY ONLY <3>1, <3>2, FreesGives, Zenon
    <2> QED  BY <2>3, <2>4
<1>5. CASE s.mode = "waits" /\ s.byte # <<>>
    <2>1. s.byte = << 1 >>
        BY <1>5, Zenon DEF Frees
    <2>2. r = [slave |-> Free("deaf"), hears |-> <<<<"answer", s.byte[1]>>>>]
        <3>1. s.byte[1] = 1
            BY <2>1
        <3> QED  BY <1>5, <3>1 DEF Turns
    <2>3. r.slave.mode = "deaf"
        BY <2>2 DEF Free, Slave
    <2> QED  BY <2>3, FreesOthers
<1>6. CASE /\ ~(s.mode = "takes" /\ Len(s.byte) = Bits) /\ s.mode # "acks" /\ s.mode # "gives"
           /\ ~(s.mode = "waits" /\ s.byte # <<>>)
    <2>1. r.slave = s
        BY <1>6 DEF Turns
    <2>2. CASE s.mode = "takes"
        BY ONLY <2>1, <2>2, FreesTakes, Frees(s, 1, R), Zenon
    <2>3. CASE s.mode # "takes"
        BY <1>6, <2>1, <2>3, FreesOthers
    <2> QED  BY <2>2, <2>3
<1> QED
    BY <1>2, <1>3, <1>4, <1>5, <1>6

LEMMA FreesRises ==
    ASSUME I2cAssumption, NEW s, NEW R \in Nat \ {0}, SlaveOK(s, 0), Frees(s, 0, R), NEW t,
           t = IF s.mode \in {"takes", "waits"} THEN [s EXCEPT !.byte = Append(@, 1)] ELSE s
    PROVE  Frees(t, 1, R - 1)
<1>0. Bits \in Nat \ {0}
    BY BitsType
<1>1. s \in [mode : Modes, byte : Seq({0, 1}), pull : {0, 1}, n : 0..Bits]
    BY DEF SlaveOK
<1>2. CASE s.mode = "takes"
    <2>1. t.mode = "takes" /\ t.byte = Append(s.byte, 1) /\ t.n = s.n
        BY <1>1, <1>2
    <2>2. /\ Len(Append(s.byte, 1)) = Len(s.byte) + 1 /\ Append(s.byte, 1)[Len(s.byte) + 1] = 1
          /\ Len(s.byte) \in Nat
        BY <1>1, AppendProperties
    <2>3. Len(t.byte) + (R - 1) = Len(s.byte) + R
        <3>1. Len(t.byte) = Len(s.byte) + 1
            BY ONLY <2>1, <2>2, Zenon
        <3> QED  BY ONLY <2>2, <3>1, R \in Nat \ {0}
    <2>4. t.byte[Len(t.byte)] = 1
        BY ONLY <2>1, <2>2
    <2> QED  BY ONLY <1>2, <2>1, <2>3, <2>4, FreesTakes, Frees(s, 0, R), Zenon
<1>3. CASE s.mode = "acks"
    <2>1. t = s /\ R + 0 = (R - 1) + 1 /\ Bits + 0 + R = Bits + 1 + (R - 1)
        BY <1>0, <1>3
    <2> QED  BY ONLY <1>3, <2>1, FreesAcks, Frees(s, 0, R), Zenon
<1>4. CASE s.mode = "gives"
    <2>1. t = s /\ s.n + R + 0 = s.n + (R - 1) + 1
        BY <1>0, <1>1, <1>4
    <2> QED  BY ONLY <1>4, <2>1, FreesGives, Frees(s, 0, R), Zenon
<1>5. CASE s.mode = "waits"
    <2>1. s.byte = <<>>
        BY <1>5 DEF SlaveOK
    <2>2. t.mode = "waits" /\ t.byte = << 1 >>
        BY <1>1, <1>5, <2>1
    <2> QED  BY <2>2, FreesOthers
<1>6. CASE s.mode \notin {"takes", "acks", "gives", "waits"}
    BY <1>6, FreesOthers
<1> QED
    BY <1>2, <1>3, <1>4, <1>5, <1>6

\* Behind the last clock SDA is free.
LEMMA FreesEnd ==
    ASSUME I2cAssumption, NEW s, SlaveOK(s, 1), Frees(s, 1, 0)
    PROVE  s.pull = 1
<1>0. Bits \in Nat \ {0}
    BY BitsType
<1>1. /\ s \in [mode : Modes, byte : Seq({0, 1}), pull : {0, 1}, n : 0..Bits]
      /\ s.mode \in {"idle", "deaf", "takes", "waits"} => s.pull = 1
    BY DEF SlaveOK
<1>2. CASE s.mode = "acks"
    <2>1. s.pull = 0 => IF s.n = 0 /\ s.byte[Bits] = 1 THEN 0 + 1 >= Bits + 2
                        ELSE (Bits + 1 + 0) % (Bits + 1) # 0
        BY ONLY <1>2, FreesAcks, Frees(s, 1, 0), Zenon
    <2>2. ~(0 + 1 >= Bits + 2) /\ (Bits + 1 + 0) % (Bits + 1) = 0
        <3>1. (Bits + 1 + 0) % (Bits + 1) = 0 % (Bits + 1)
            BY <1>0, Around
        <3>2. 0 % (Bits + 1) = 0
            BY <1>0
        <3> QED  BY ONLY <1>0, <3>1, <3>2
    <2> QED  BY <1>1, <2>1, <2>2
<1>3. CASE s.mode = "gives"
    <2>1. s.n + 0 + 1 >= Bits + 2
        BY ONLY <1>3, FreesGives, Frees(s, 1, 0), Zenon
    <2> QED  BY <1>0, <1>1, <2>1
<1> QED
    BY <1>1, <1>2, <1>3 DEF Modes

\* i2c_master_init: after three settings the clocks, each of which falls at 2k + 1 and rises at 2k.
LEMMA ClearProgramIs ==
    ASSUME I2cClocks, I2cAssumption
    PROVE  /\ ClearProgram[1] = <<1, 1, FALSE>>
           /\ ClearProgram[2] = <<0, 1, FALSE>> /\ ClearProgram[3] = <<0, 1, FALSE>>
           /\ \A k \in 2..(ClearClocks + 1) :
                 /\ ClearProgram[2 * k] = <<1, 1, FALSE>>
                 /\ ClearProgram[2 * k + 1] = <<1, 0, FALSE>>
           /\ ClearProgram[2 * ClearClocks + 4] = <<1, 0, FALSE>>
           /\ ClearProgram[2 * ClearClocks + 5] = <<0, 0, FALSE>>
           /\ ClearProgram[2 * ClearClocks + 6] = <<1, 0, FALSE>>
<1> DEFINE C == ClearClocks
<1>0. C \in Nat /\ C > 2
    BY BitsType DEF I2cClocks
<1>1. ASSUME NEW t \in 1..(2 * C + 6)
      PROVE  ClearProgram[t] = IF t = 1 THEN DC(1, 1)
                ELSE IF t <= 3 THEN DC(0, 1)
                ELSE IF t = 2 * C + 5 THEN DC(0, 0)
                ELSE IF t <= 2 * C + 3 /\ t % 2 = 0 THEN DC(1, 1) ELSE DC(1, 0)
    BY ONLY t \in 1..(2 * C + 6), Zenon DEF ClearProgram
<1> HIDE DEF C
<1>2. ClearProgram[1] = DC(1, 1)
    <2>1. 1 \in 1..(2 * C + 6)
        BY <1>0
    <2> QED  BY ONLY <1>1, <2>1, Zenon
<1>3. ClearProgram[2] = DC(0, 1)
    <2>1. 2 \in 1..(2 * C + 6) /\ 2 # 1 /\ 2 <= 3
        BY <1>0
    <2> QED  BY ONLY <1>1, <2>1, Zenon
<1>4. ClearProgram[3] = DC(0, 1)
    <2>1. 3 \in 1..(2 * C + 6) /\ 3 # 1 /\ 3 <= 3
        BY <1>0
    <2> QED  BY ONLY <1>1, <2>1, Zenon
<1>5. ASSUME NEW k \in 2..(C + 1)
      PROVE  ClearProgram[2 * k] = DC(1, 1) /\ ClearProgram[2 * k + 1] = DC(1, 0)
    <2>1. /\ 2 * k \in 1..(2 * C + 6) /\ 2 * k # 1 /\ ~(2 * k <= 3) /\ 2 * k # 2 * C + 5
          /\ 2 * k <= 2 * C + 3 /\ (2 * k) % 2 = 0
        BY <1>0
    <2>2. /\ 2 * k + 1 \in 1..(2 * C + 6) /\ 2 * k + 1 # 1 /\ ~(2 * k + 1 <= 3) /\ 2 * k + 1 # 2 * C + 5
          /\ (2 * k + 1) % 2 = 1 /\ 1 # 0
        BY <1>0
    <2> QED  BY ONLY <1>1, <2>1, <2>2, Zenon
<1>6. ClearProgram[2 * C + 4] = DC(1, 0)
    <2>1. /\ 2 * C + 4 \in 1..(2 * C + 6) /\ 2 * C + 4 # 1 /\ ~(2 * C + 4 <= 3) /\ 2 * C + 4 # 2 * C + 5
          /\ ~(2 * C + 4 <= 2 * C + 3)
        BY <1>0
    <2> QED  BY ONLY <1>1, <2>1, Zenon
<1>7. ClearProgram[2 * C + 5] = DC(0, 0)
    <2>1. 2 * C + 5 \in 1..(2 * C + 6) /\ 2 * C + 5 # 1 /\ ~(2 * C + 5 <= 3)
        BY <1>0
    <2> QED  BY ONLY <1>1, <2>1, Zenon
<1>8. ClearProgram[2 * C + 6] = DC(1, 0)
    <2>1. /\ 2 * C + 6 \in 1..(2 * C + 6) /\ 2 * C + 6 # 1 /\ ~(2 * C + 6 <= 3) /\ 2 * C + 6 # 2 * C + 5
          /\ ~(2 * C + 6 <= 2 * C + 3)
        BY <1>0
    <2> QED  BY ONLY <1>1, <2>1, Zenon
<1> QED
    BY ONLY <1>2, <1>3, <1>4, <1>5, <1>6, <1>7, <1>8, Zenon DEF DC, C

LEMMA ClocksAt ==
    ASSUME I2cClocks, I2cAssumption
    PROVE  /\ \A t \in (2 * ClearClocks + 3)..(2 * ClearClocks + 6) :
                 Clocks(t) = ClearClocks /\ Clocks(t - 1) = ClearClocks
           /\ \A k \in 2..(ClearClocks + 1) :
                 /\ Clocks(2 * k) = k - 1
                 /\ Clocks(2 * k - 1) = k - 2
                 /\ k > 2 => Clocks(2 * k - 2) = k - 2
<1>0. ClearClocks \in Nat /\ ClearClocks > 2
    BY BitsType DEF I2cClocks
<1> QED
    BY <1>0 DEF Clocks

\* The kinds of settings, with n of them left.
Lowers(n) == Sets(1, 0, FALSE) /\ sda = 1 /\ scl = 1 /\ n > 4 /\ Clocks(n) \in Nat /\ Clocks(n - 1) = Clocks(n)

Prepares(n) == /\ \E a \in {0, 1} : Sets(a, 0, FALSE)
               /\ scl = 0 /\ n > 4 /\ Clocks(n) \in Nat /\ Clocks(n - 1) = Clocks(n)

Raises(n) == /\ Sets(1, 1, FALSE) /\ sda = 1 /\ scl = 0 /\ n > 3
             /\ Clocks(n) \in Nat \ {0} /\ Clocks(n - 1) = Clocks(n) - 1
             /\ n = 4 => Clocks(n) = 1

LEMMA ClearingAt ==
    ASSUME I2cClocks, I2cAssumption, i2c_master_setDC, Runs(ClearProgram, 2 * ClearClocks + 6),
           Len(todo) = 2 * ClearClocks + 6 => sda = 1 /\ scl = 1
    PROVE  \/ Lowers(Len(todo)) \/ Prepares(Len(todo)) \/ Raises(Len(todo))
           \/ Len(todo) = 3 /\ Sets(0, 1, FALSE) /\ sda = 1 /\ scl = 1
           \/ Len(todo) = 2 /\ Sets(0, 1, FALSE) /\ sda = 0 /\ scl = 1
           \/ Len(todo) = 1 /\ Sets(1, 1, FALSE) /\ sda = 0 /\ scl = 1
<1> DEFINE C == ClearClocks
           n == Len(todo)
           P == ClearProgram
<1>0. C \in Nat /\ C > 2 /\ 2 * C + 6 \in Nat
    <2>1. C \in Nat /\ Bits \in Nat \ {0} /\ 2 * Bits < C
        BY BitsType DEF I2cClocks
    <2> HIDE DEF C
    <2> QED  BY ONLY <2>1
<1>1. /\ P[1] = <<1, 1, FALSE>> /\ P[2] = <<0, 1, FALSE>> /\ P[3] = <<0, 1, FALSE>>
      /\ \A k \in 2..(C + 1) : P[2 * k] = <<1, 1, FALSE>> /\ P[2 * k + 1] = <<1, 0, FALSE>>
      /\ P[2 * C + 4] = <<1, 0, FALSE>> /\ P[2 * C + 5] = <<0, 0, FALSE>> /\ P[2 * C + 6] = <<1, 0, FALSE>>
    BY ClearProgramIs
<1>2. n = 2 * C + 6 => sda = 1 /\ scl = 1
    OBVIOUS
<1>3. /\ n \in 1..(2 * C + 6) /\ \A a, c, look : P[n] = <<a, c, look>> => Sets(a, c, look)
      /\ \A k, a, c, look : (k \in 2..(2 * C + 6) /\ n = k - 1 /\ P[k] = <<a, c, look>>) => sda = a /\ scl = c
    BY <1>0, RunsOn, RunsSets, RunsWas
<1>4. /\ \A t \in (2 * C + 3)..(2 * C + 6) : Clocks(t) = C /\ Clocks(t - 1) = C
      /\ \A k \in 2..(C + 1) : /\ Clocks(2 * k) = k - 1
                               /\ Clocks(2 * k - 1) = k - 2
                               /\ k > 2 => Clocks(2 * k - 2) = k - 2
    BY ClocksAt
<1> SUFFICES \/ Lowers(n) \/ Prepares(n) \/ Raises(n)
             \/ n = 3 /\ Sets(0, 1, FALSE) /\ sda = 1 /\ scl = 1
             \/ n = 2 /\ Sets(0, 1, FALSE) /\ sda = 0 /\ scl = 1
             \/ n = 1 /\ Sets(1, 1, FALSE) /\ sda = 0 /\ scl = 1
    OBVIOUS
<1> HIDE DEF n, P, C
<1>5. CASE n = 2 * C + 6
    <2>1. n > 4 /\ n \in (2 * C + 3)..(2 * C + 6)
        BY ONLY <1>0, <1>5
    <2>2. Sets(1, 0, FALSE)
        BY ONLY <1>1, <1>3, <1>5, Zenon
    <2>3. Lowers(n)
        BY ONLY <1>0, <1>2, <1>4, <1>5, <2>1, <2>2, Zenon DEF Lowers
    <2> QED  BY <2>3
<1>6. CASE n = 2 * C + 5 \/ n = 2 * C + 4 \/ n = 2 * C + 3
    <2>1. n > 4 /\ n \in (2 * C + 3)..(2 * C + 6)
        BY ONLY <1>0, <1>6
    <2>2. P[2 * C + 3] = <<1, 0, FALSE>>
        <3>1. C + 1 \in 2..(C + 1) /\ 2 * (C + 1) + 1 = 2 * C + 3
            BY ONLY <1>0
        <3> QED  BY ONLY <1>1, <3>1, Zenon
    <2>3. \E a \in {0, 1} : Sets(a, 0, FALSE)
        BY ONLY <1>1, <1>3, <1>6, <2>2, Zenon
    <2>4. scl = 0
        <3>1. /\ 2 * C + 6 \in 2..(2 * C + 6) /\ 2 * C + 5 \in 2..(2 * C + 6) /\ 2 * C + 4 \in 2..(2 * C + 6)
              /\ n = (2 * C + 6) - 1 \/ n = (2 * C + 5) - 1 \/ n = (2 * C + 4) - 1
            BY ONLY <1>0, <1>6
        <3> QED  BY ONLY <1>1, <1>3, <3>1, Zenon
    <2>5. Prepares(n)
        BY ONLY <1>0, <1>4, <2>1, <2>3, <2>4, Zenon DEF Prepares
    <2> QED  BY <2>5
<1>7. CASE n \in 4..(2 * C + 2)
    <2>1. PICK k \in 1..(C + 1) : n = 2 * k \/ n = 2 * k - 1
        <3>1. n \in 1..(2 * (C + 1)) /\ C + 1 \in Nat
            BY <1>0, <1>7
        <3> QED  BY <3>1, HalfOf
    <2>2. CASE n = 2 * k
        <3>1. /\ k \in 2..(C + 1) /\ n > 3 /\ n - 1 = 2 * k - 1 /\ k - 1 \in Nat \ {0} /\ k - 2 = (k - 1) - 1
              /\ 2 * k + 1 \in 2..(2 * C + 6) /\ n = (2 * k + 1) - 1 /\ (n = 4 => k - 1 = 1)
            BY ONLY <1>0, <1>7, <2>2, k \in 1..(C + 1)
        <3>2. Sets(1, 1, FALSE) /\ sda = 1 /\ scl = 0
            BY ONLY <1>1, <1>3, <2>2, <3>1, Zenon
        <3>3. Raises(n)
            BY ONLY <1>4, <2>2, <3>1, <3>2, Zenon DEF Raises
        <3> QED  BY <3>3
    <2>3. CASE n = 2 * k - 1
        <3>1. /\ k \in 2..(C + 1) /\ k > 2 /\ n > 4 /\ n - 1 = 2 * k - 2 /\ k - 2 \in Nat
              /\ 2 * k \in 2..(2 * C + 6) /\ n = 2 * k - 1
              /\ k - 1 \in 2..(C + 1) /\ 2 * (k - 1) + 1 = n
            BY ONLY <1>0, <1>7, <2>3, k \in 1..(C + 1)
        <3>2. Sets(1, 0, FALSE)
            <4>1. P[n] = <<1, 0, FALSE>>
                BY ONLY <1>1, <3>1, Zenon
            <4> QED  BY ONLY <1>3, <4>1, Zenon
        <3>3. sda = 1 /\ scl = 1
            BY ONLY <1>1, <1>3, <3>1, Zenon
        <3>4. Lowers(n)
            BY ONLY <1>4, <3>1, <3>2, <3>3, Zenon DEF Lowers
        <3> QED  BY <3>4
    <2> QED  BY <2>1, <2>2, <2>3
<1>8. CASE n = 3
    <2>1. 4 \in 2..(2 * C + 6) /\ n = 4 - 1 /\ 2 \in 2..(C + 1) /\ 2 * 2 = 4
        BY ONLY <1>0, <1>8
    <2> QED  BY ONLY <1>1, <1>3, <1>8, <2>1, Zenon
<1>9. CASE n = 2
    <2>1. 3 \in 2..(2 * C + 6) /\ n = 3 - 1
        BY ONLY <1>0, <1>9
    <2> QED  BY ONLY <1>1, <1>3, <1>9, <2>1, Zenon
<1>10. CASE n = 1
    <2>1. 2 \in 2..(2 * C + 6) /\ n = 2 - 1
        BY ONLY <1>0, <1>10
    <2> QED  BY ONLY <1>1, <1>3, <1>10, <2>1, Zenon
<1>11. \/ n = 2 * C + 6 \/ n = 2 * C + 5 \/ n = 2 * C + 4 \/ n = 2 * C + 3 \/ n \in 4..(2 * C + 2)
       \/ n = 3 \/ n = 2 \/ n = 1
    BY ONLY <1>0, <1>3
<1> QED
    BY ONLY <1>5, <1>6, <1>7, <1>8, <1>9, <1>10, <1>11, Zenon

LEMMA LastHeard ==
    ASSUME Records, NEW x
    PROVE  Last(heard \o <<x>>) = x
<1>1. heard \in Seq(Told)
    BY DEF Records
<1>2. heard \o <<x>> = Append(heard, x)
    BY <1>1
<1>3. Len(heard \o <<x>>) = Len(heard) + 1 /\ (heard \o <<x>>)[Len(heard) + 1] = x
    BY <1>1
<1> QED
    BY ONLY <1>3, Zenon DEF Last

\* How i2c_master_init goes on: what of the slave holds with n settings left.
ClearAt(s, c, h, n) ==
    IF n > 3 THEN Frees(s, c, Clocks(n))
    ELSE IF n = 3 THEN s.pull = 1
    ELSE IF n > 0 THEN s = Free("takes")
    ELSE s = Free("idle") /\ Last(h) = <<"stop">>

Clears(n) ==
    Settles /\ retVal' = retVal /\ (~cut => ClearAt(slave', scl', heard', n - 1))

LEMMA ClearsLowers ==
    ASSUME I2cAssumption, Wires, Records, NEW n \in Nat, Lowers(n), ~cut => ClearAt(slave, scl, heard, n)
    PROVE  Clears(n)
<1>1. Sets(1, 0, FALSE) /\ sda = 1 /\ scl = 1 /\ n > 4 /\ Clocks(n) \in Nat /\ Clocks(n - 1) = Clocks(n)
    BY DEF Lowers
<1>2. Settles /\ retVal' = retVal
    BY <1>1, Settled
<1>3. scl' = 0 /\ n > 3 /\ n - 1 > 3 /\ SlaveOK(slave, 1)
    BY <1>1 DEF Sets, Wires
<1>4. ASSUME ~cut
      PROVE  Frees(slave', 0, Clocks(n))
    <2>1. Frees(slave, 1, Clocks(n))
        BY ONLY <1>1, <1>3, <1>4, ~cut => ClearAt(slave, scl, heard, n), Zenon DEF ClearAt
    <2>2. PICK r \in Turns(slave) : slave' = r.slave
        BY <1>1, FallStep
    <2>3. Frees(r.slave, 0, Clocks(n))
        BY <1>1, <1>3, <2>1, FreesFalls
    <2> QED  BY ONLY <2>2, <2>3, Zenon
<1>5. ~cut => ClearAt(slave', scl', heard', n - 1)
    BY ONLY <1>1, <1>3, <1>4, Zenon DEF ClearAt
<1> QED
    BY <1>2, <1>5 DEF Clears

LEMMA ClearsPrepares ==
    ASSUME I2cAssumption, Wires, Records, NEW n \in Nat, Prepares(n), ~cut => ClearAt(slave, scl, heard, n)
    PROVE  Clears(n)
<1>1. PICK a \in {0, 1} : Sets(a, 0, FALSE)
    BY DEF Prepares
<1>2. scl = 0 /\ n > 4 /\ Clocks(n) \in Nat /\ Clocks(n - 1) = Clocks(n)
    BY DEF Prepares
<1>3. Settles /\ retVal' = retVal
    BY <1>1, <1>2, Settled
<1>4. slave' = slave
    BY <1>1, <1>2, StaysStep
<1>5. scl' = 0 /\ n > 3 /\ n - 1 > 3
    BY <1>1, <1>2 DEF Sets
<1>6. ~cut => ClearAt(slave', scl', heard', n - 1)
    BY ONLY <1>2, <1>4, <1>5, ~cut => ClearAt(slave, scl, heard, n), Zenon DEF ClearAt
<1> QED
    BY <1>3, <1>6 DEF Clears

LEMMA ClearsRaises ==
    ASSUME I2cAssumption, Wires, Records, NEW n \in Nat, Raises(n), ~cut => ClearAt(slave, scl, heard, n)
    PROVE  Clears(n)
<1>1. /\ Sets(1, 1, FALSE) /\ sda = 1 /\ scl = 0 /\ n > 3
      /\ Clocks(n) \in Nat \ {0} /\ Clocks(n - 1) = Clocks(n) - 1
      /\ n = 4 => Clocks(n) = 1
    BY DEF Raises
<1>2. Settles /\ retVal' = retVal
    BY <1>1, Settled
<1>3. scl' = 1 /\ SlaveOK(slave, 0) /\ SlaveOK(slave', 1)
    <2>1. scl' = 1
        BY <1>1 DEF Sets
    <2>2. SlaveOK(slave', scl')
        BY <1>2 DEF Settles, Wires
    <2>3. SlaveOK(slave, scl)
        BY DEF Wires
    <2> QED  BY ONLY <1>1, <2>1, <2>2, <2>3, Zenon
<1>4. ASSUME ~cut
      PROVE  Frees(slave', 1, Clocks(n) - 1)
    <2>1. Frees(slave, 0, Clocks(n))
        BY ONLY <1>1, <1>4, ~cut => ClearAt(slave, scl, heard, n), Zenon DEF ClearAt
    <2>2. slave' = IF slave.mode \in {"takes", "waits"} THEN [slave EXCEPT !.byte = Append(@, 1)] ELSE slave
        BY <1>1, RiseStep
    <2> QED  BY <1>1, <1>3, <2>1, <2>2, FreesRises
<1>5. ~cut => ClearAt(slave', scl', heard', n - 1)
    <2>1. CASE n = 4
        <3>1. Clocks(n) - 1 = 0 /\ n - 1 = 3 /\ ~(n - 1 > 3)
            BY ONLY <1>1, <2>1
        <3>2. ~cut => slave'.pull = 1
            <4>1. ASSUME ~cut
                  PROVE  slave'.pull = 1
                <5>1. Frees(slave', 1, 0)
                    BY ONLY <1>4, <3>1, <4>1, Zenon
                <5> QED  BY <1>3, <5>1, FreesEnd
            <4> QED  BY <4>1
        <3> QED  BY ONLY <3>1, <3>2, Zenon DEF ClearAt
    <2>2. CASE n # 4
        <3>1. n - 1 > 3
            BY ONLY <1>1, <2>2, n \in Nat
        <3> QED  BY ONLY <1>1, <1>3, <1>4, <3>1, Zenon DEF ClearAt
    <2> QED  BY <2>1, <2>2
<1> QED
    BY <1>2, <1>5 DEF Clears

LEMMA ClearsStops ==
    ASSUME I2cAssumption, Wires, Records, NEW n \in Nat, ~cut => ClearAt(slave, scl, heard, n),
           \/ n = 3 /\ Sets(0, 1, FALSE) /\ sda = 1 /\ scl = 1
           \/ n = 2 /\ Sets(0, 1, FALSE) /\ sda = 0 /\ scl = 1
           \/ n = 1 /\ Sets(1, 1, FALSE) /\ sda = 0 /\ scl = 1
    PROVE  Clears(n)
<1>1. Settles /\ retVal' = retVal
    BY Settled
<1>2. CASE n = 3 /\ Sets(0, 1, FALSE) /\ sda = 1 /\ scl = 1
    <2>1. ~(n > 3) /\ ~(n - 1 > 3) /\ n - 1 # 3 /\ n - 1 > 0
        BY ONLY <1>2
    <2>2. ASSUME ~cut
          PROVE  slave' = Free("takes")
        <3>1. slave.pull = 1
            BY ONLY <1>2, <2>1, <2>2, ~cut => ClearAt(slave, scl, heard, n), Zenon DEF ClearAt
        <3> QED  BY <1>2, <3>1, StartStep
    <2>3. ~cut => ClearAt(slave', scl', heard', n - 1)
        BY ONLY <2>1, <2>2, Zenon DEF ClearAt
    <2> QED  BY <1>1, <2>3 DEF Clears
<1>3. CASE n = 2 /\ Sets(0, 1, FALSE) /\ sda = 0 /\ scl = 1
    <2>1. ~(n > 3) /\ n # 3 /\ n > 0 /\ ~(n - 1 > 3) /\ n - 1 # 3 /\ n - 1 > 0
        BY ONLY <1>3
    <2>2. slave' = slave
        BY <1>3, StaysStep
    <2>3. ~cut => ClearAt(slave', scl', heard', n - 1)
        BY ONLY <2>1, <2>2, ~cut => ClearAt(slave, scl, heard, n), Zenon DEF ClearAt
    <2> QED  BY <1>1, <2>3 DEF Clears
<1>4. CASE n = 1 /\ Sets(1, 1, FALSE) /\ sda = 0 /\ scl = 1
    <2>1. ~(n > 3) /\ n # 3 /\ n > 0 /\ ~(n - 1 > 3) /\ n - 1 # 3 /\ ~(n - 1 > 0)
        BY ONLY <1>4
    <2>2. ASSUME ~cut
          PROVE  slave' = Free("idle") /\ Last(heard') = <<"stop">>
        <3>1. slave = Free("takes")
            BY ONLY <2>1, <2>2, ~cut => ClearAt(slave, scl, heard, n), Zenon DEF ClearAt
        <3>2. slave.pull = 1
            BY <3>1 DEF Free, Slave
        <3>3. slave' = Free("idle") /\ heard' = heard \o <<<<"stop">>>>
            BY <1>4, <3>2, StopStep
        <3>4. Last(heard \o <<<<"stop">>>>) = <<"stop">>
            BY LastHeard
        <3> QED  BY ONLY <3>3, <3>4, Zenon
    <2>3. ~cut => ClearAt(slave', scl', heard', n - 1)
        BY ONLY <2>1, <2>2, Zenon DEF ClearAt
    <2> QED  BY <1>1, <2>3 DEF Clears
<1> QED
    BY <1>2, <1>3, <1>4

LEMMA ClearingStep ==
    ASSUME I2cClocks, I2cAssumption, Wires, Records, Clearing, i2c_master_setDC
    PROVE  Wires' /\ Records' /\ Clearing'
<1>0. 2 * ClearClocks + 6 \in Nat
    BY BitsType
<1>1. /\ call = <<"init">> /\ phase = "idle" /\ retVal = <<>>
      /\ Runs(ClearProgram, 2 * ClearClocks + 6)
      /\ Len(todo) = 2 * ClearClocks + 6 => sda = 1 /\ scl = 1
      /\ ~cut => ClearAt(slave, scl, heard, Len(todo))
    BY Zenon DEF Clearing, ClearAt
<1>2. /\ Len(todo) \in 1..(2 * ClearClocks + 6) /\ Len(todo') = Len(todo) - 1
      /\ Len(todo') # 2 * ClearClocks + 6
      /\ Runs(ClearProgram, 2 * ClearClocks + 6)'
    BY <1>0, <1>1, RunsOn
<1>3. Clears(Len(todo))
    <2>1. \/ Lowers(Len(todo)) \/ Prepares(Len(todo)) \/ Raises(Len(todo))
          \/ Len(todo) = 3 /\ Sets(0, 1, FALSE) /\ sda = 1 /\ scl = 1
          \/ Len(todo) = 2 /\ Sets(0, 1, FALSE) /\ sda = 0 /\ scl = 1
          \/ Len(todo) = 1 /\ Sets(1, 1, FALSE) /\ sda = 0 /\ scl = 1
        BY <1>1, ClearingAt
    <2>2. Len(todo) \in Nat
        BY <1>2
    <2> QED  BY <1>1, <2>1, <2>2, ClearsLowers, ClearsPrepares, ClearsRaises, ClearsStops
<1>4. /\ call' = <<"init">> /\ phase' = "idle" /\ retVal' = <<>> /\ cut' = cut /\ Wires' /\ Records'
      /\ ~cut' => ClearAt(slave', scl', heard', Len(todo'))
    BY ONLY <1>1, <1>2, <1>3, Zenon DEF Clears, Settles
<1>5. Clearing'
    BY ONLY <1>2, <1>4, Zenon DEF Clearing, ClearAt
<1> QED
    BY <1>4, <1>5

---------------------------------------------------------------------------
(* What a call sets out to do: its settings are its program.           *)

\* The first n settings of a program of size settings.
Listed(q, program, size, n) ==
    /\ q \in Seq(Settings) /\ Len(q) = n
    /\ \A j \in 1..n : q[j] = program[size + 1 - j]

\* The n settings after the first p.
Follows(q, program, size, p, n) ==
    /\ q \in Seq(Settings) /\ Len(q) = n
    /\ \A j \in 1..n : q[j] = program[size + 1 - (p + j)]

\* They come in n lists of z settings each.
Pieces(s, program, size, p, z, n) ==
    /\ s \in Seq(Seq(Settings)) /\ Len(s) = n
    /\ \A i \in 1..n : /\ Len(s[i]) = z
                       /\ \A k \in 1..z : s[i][k] = program[size + 1 - (p + (z * (i - 1) + k))]

LEMMA ListedOn ==
    ASSUME NEW a, NEW program, NEW size \in Nat, NEW p \in Nat, Listed(a, program, size, p),
           NEW b, NEW n \in Nat, Follows(b, program, size, p, n)
    PROVE  Listed(a \o b, program, size, p + n)
<1>0. b \in Seq(Settings) /\ Len(b) = n /\ \A j \in 1..n : b[j] = program[size + 1 - (p + j)]
    BY DEF Follows
<1>1. a \in Seq(Settings) /\ Len(a) = p /\ \A j \in 1..p : a[j] = program[size + 1 - j]
    BY DEF Listed
<1>2. /\ a \o b \in Seq(Settings) /\ Len(a \o b) = p + n
      /\ \A j \in 1..(p + n) : (a \o b)[j] = IF j <= p THEN a[j] ELSE b[j - p]
    <2>1. /\ a \o b \in Seq(Settings) /\ Len(a \o b) = Len(a) + Len(b)
          /\ \A j \in 1..(Len(a) + Len(b)) : (a \o b)[j] = IF j <= Len(a) THEN a[j] ELSE b[j - Len(a)]
        BY ONLY <1>0, <1>1, ConcatProperties
    <2> QED  BY ONLY <1>0, <1>1, <2>1, Zenon
<1>3. ASSUME NEW j \in 1..(p + n)
      PROVE  (a \o b)[j] = program[size + 1 - j]
    <2>1. CASE j <= p
        <3>1. j \in 1..p
            BY <2>1
        <3> QED  BY ONLY <1>1, <1>2, <2>1, <3>1, j \in 1..(p + n), Zenon
    <2>2. CASE ~(j <= p)
        <3>1. j - p \in 1..n /\ p + (j - p) = j
            BY <2>2
        <3>2. b[j - p] = program[size + 1 - (p + (j - p))]
            BY ONLY <1>0, <3>1, Zenon
        <3> QED  BY ONLY <1>2, <2>2, <3>1, <3>2, j \in 1..(p + n), Zenon
    <2> QED  BY <2>1, <2>2
<1> QED
    BY ONLY <1>2, <1>3, Zenon DEF Listed

LEMMA ListedRuns ==
    ASSUME NEW program, NEW size \in Nat, Listed(todo', program, size, size)
    PROVE  Runs(program, size)' /\ Len(todo') = size
<1>1. /\ todo' \in Seq(Settings) /\ Len(todo') = size
      /\ \A j \in 1..size : todo'[j] = program[size + 1 - j]
    BY DEF Listed
<1>2. Len(todo') \in 0..size /\ ~(Len(todo') < size)
    BY ONLY <1>1, size \in Nat
<1> QED
    BY ONLY <1>1, <1>2, Zenon DEF Runs

\* A list of lists of the same length z, one after the other.
LEMMA FlattenPieces ==
    ASSUME NEW s \in Seq(Seq(Settings)), NEW n \in Nat, n = Len(s), NEW z \in {2, 3}, NEW V,
           \A i \in 1..n : Len(s[i]) = z /\ \A k \in 1..z : s[i][k] = V[z * (i - 1) + k]
    PROVE  FlattenSeq(s) = Stretch(V, z * n)
<1> DEFINE P == [i \in Nat |-> z * (i - 1)]
<1>1. P[1] = 0 /\ P[n + 1] = z * n
    BY DEF P
<1>2. ASSUME NEW i \in 1..Len(s)
      PROVE  /\ P[i] \in Nat /\ P[i + 1] = P[i] + Len(s[i])
             /\ \A k \in 1..Len(s[i]) : s[i][k] = V[P[i] + k]
    <2>1. i \in 1..n /\ i \in Nat /\ i + 1 \in Nat
        OBVIOUS
    <2>2. P[i] = z * (i - 1) /\ P[i + 1] = z * ((i + 1) - 1)
        BY ONLY <2>1, Zenon DEF P
    <2>3. Len(s[i]) = z /\ \A k \in 1..z : s[i][k] = V[z * (i - 1) + k]
        BY ONLY <2>1, \A j \in 1..n : Len(s[j]) = z /\ \A k \in 1..z : s[j][k] = V[z * (j - 1) + k], Zenon
    <2>4. z * (i - 1) \in Nat /\ z * ((i + 1) - 1) = z * (i - 1) + z
        BY ONLY <2>1, z \in {2, 3}
    <2> QED  BY ONLY <2>2, <2>3, <2>4, Zenon
<1> HIDE DEF P
<1>3. GoesOn(s, Settings, P, V)
    BY ONLY <1>1, <1>2, s \in Seq(Seq(Settings)), Zenon DEF GoesOn
<1>4. FlattenSeq(s) = Stretch(V, P[n + 1])
    BY ONLY <1>3, n \in Nat, n = Len(s), FlattenRun
<1> QED
    BY ONLY <1>1, <1>4, Zenon

\* The middle of a list of settings, that of pieces, when p come before it.
LEMMA PiecesListed ==
    ASSUME NEW s, NEW program, NEW size \in Nat, NEW p \in Nat, NEW z \in {2, 3}, NEW n \in Nat,
           Pieces(s, program, size, p, z, n)
    PROVE  Follows(FlattenSeq(s), program, size, p, z * n)
<1>p. /\ s \in Seq(Seq(Settings)) /\ Len(s) = n
      /\ \A i \in 1..n : /\ Len(s[i]) = z
                         /\ \A k \in 1..z : s[i][k] = program[size + 1 - (p + (z * (i - 1) + k))]
    BY DEF Pieces
<1> DEFINE V == [j \in Nat |-> program[size + 1 - (p + j)]]
<1>0. z * n \in Nat
    OBVIOUS
<1>1. \A j \in Nat : V[j] = program[size + 1 - (p + j)]
    BY Zenon
<1> HIDE DEF V
<1>2. ASSUME NEW i \in 1..n
      PROVE  Len(s[i]) = z /\ \A k \in 1..z : s[i][k] = V[z * (i - 1) + k]
    <2>1. ASSUME NEW k \in 1..z
          PROVE  s[i][k] = V[z * (i - 1) + k]
        <3>1. z * (i - 1) + k \in Nat
            BY ONLY i \in 1..n, k \in 1..z, z \in {2, 3}, n \in Nat
        <3> QED  BY ONLY <1>p, <1>1, <3>1, i \in 1..n, k \in 1..z, Zenon
    <2> QED  BY ONLY <1>p, <2>1, i \in 1..n, Zenon
<1>3. FlattenSeq(s) = Stretch(V, z * n)
    BY ONLY <1>p, <1>2, FlattenPieces, n \in Nat, z \in {2, 3}
<1>4. \A j \in 1..(z * n) : V[j] \in Settings
    <2>1. ASSUME NEW j \in 1..(z * n)
          PROVE  V[j] \in Settings
        <3>1. PICK i \in 1..n, k \in 1..z : j = z * (i - 1) + k
            <4>1. CASE z = 2
                <5>1. PICK h \in 1..n : j = 2 * h \/ j = 2 * h - 1
                    BY <4>1, HalfOf
                <5>2. /\ j = 2 * h => 2 \in 1..z /\ j = z * (h - 1) + 2
                      /\ j = 2 * h - 1 => 1 \in 1..z /\ j = z * (h - 1) + 1
                    BY <4>1
                <5> QED  BY <5>1, <5>2
            <4>2. CASE z = 3
                <5>1. PICK h \in 1..n : j = 3 * h \/ j = 3 * h - 1 \/ j = 3 * h - 2
                    BY <4>2, ThirdOf
                <5>2. /\ j = 3 * h => 3 \in 1..z /\ j = z * (h - 1) + 3
                      /\ j = 3 * h - 1 => 2 \in 1..z /\ j = z * (h - 1) + 2
                      /\ j = 3 * h - 2 => 1 \in 1..z /\ j = z * (h - 1) + 1
                    BY <4>2
                <5> QED  BY <5>1, <5>2
            <4> QED  BY <4>1, <4>2
        <3>2. s[i][k] = V[j] /\ Len(s[i]) = z
            BY ONLY <1>2, <3>1, Zenon
        <3>3. s[i] \in Seq(Settings)
            BY ONLY <1>p, <3>1, ElementOfSeq
        <3>4. s[i][k] \in Settings
            <4>1. k \in 1..Len(s[i])
                BY ONLY <3>1, <3>2, Zenon
            <4> QED  BY ONLY <3>3, <4>1, ElementOfSeq
        <3> QED  BY ONLY <3>2, <3>4, Zenon
    <2> QED  BY <2>1
<1>5. /\ Stretch(V, z * n) \in Seq(Settings) /\ Len(Stretch(V, z * n)) = z * n
      /\ \A j \in 1..(z * n) : Stretch(V, z * n)[j] = V[j]
    BY ONLY <1>0, <1>4, RunValues
<1>6. \A j \in 1..(z * n) : j \in Nat
    BY <1>0
<1> QED
    BY ONLY <1>1, <1>3, <1>5, <1>6, Zenon DEF Follows

LEMMA SettingType ==
    ASSUME NEW a \in {0, 1}, NEW c \in {0, 1}
    PROVE  DC(a, c) \in Settings /\ GetDC(a, c) \in Settings
    BY DEF DC, GetDC, Settings

LEMMA FirstListed ==
    ASSUME NEW d \in Settings, NEW program, NEW size \in Nat, program[size] = d
    PROVE  Listed(<<d>>, program, size, 1)
<1>1. <<d>> \in Seq(Settings) /\ Len(<<d>>) = 1 /\ <<d>>[1] = d
    OBVIOUS
<1>2. \A j \in 1..1 : size + 1 - j = size /\ j = 1
    OBVIOUS
<1> QED
    BY ONLY <1>1, <1>2, program[size] = d, Zenon DEF Listed

LEMMA WriteListed ==
    ASSUME I2cAssumption, NEW w \in Words, m_nLastSDA \in {0, 1}
    PROVE  Listed(writeByte(w), SendProgram(w, m_nLastSDA), 3 * Bits + 1, 3 * Bits + 1)
<1> DEFINE P == SendProgram(w, m_nLastSDA)
           s == [i \in 1..Bits |-> <<DC(w[i], 0), DC(w[i], 1), DC(w[i], 0)>>]
           N == 3 * Bits + 1
<1>0. Bits \in Nat \ {0} /\ N \in Nat /\ 1 + 3 * Bits = N /\ 1 + 3 * Bits <= N
    BY BitsType
<1>1. /\ P[N] = DC(m_nLastSDA, 0)
      /\ \A k \in 1..Bits : /\ P[3 * k] = DC(w[Bits + 1 - k], 0)
                            /\ P[3 * k - 1] = DC(w[Bits + 1 - k], 1)
                            /\ P[3 * k - 2] = DC(w[Bits + 1 - k], 0)
    BY SendProgramIs, Zenon DEF DC
<1> HIDE DEF P
<1>2. Listed(<<DC(m_nLastSDA, 0)>>, P, N, 1)
    <2>1. DC(m_nLastSDA, 0) \in Settings
        BY SettingType
    <2> QED  BY ONLY <1>0, <1>1, <2>1, FirstListed, Zenon
<1>3. ASSUME NEW i \in 1..Bits
      PROVE  /\ s[i] \in Seq(Settings) /\ Len(s[i]) = 3
             /\ s[i][1] = P[N + 1 - (1 + (3 * (i - 1) + 1))]
             /\ s[i][2] = P[N + 1 - (1 + (3 * (i - 1) + 2))]
             /\ s[i][3] = P[N + 1 - (1 + (3 * (i - 1) + 3))]
    <2>1. s[i] = <<DC(w[i], 0), DC(w[i], 1), DC(w[i], 0)>>
        BY Zenon
    <2>2. DC(w[i], 0) \in Settings /\ DC(w[i], 1) \in Settings
        BY WordType, SettingType
    <2>3. s[i] \in Seq(Settings) /\ Len(s[i]) = 3 /\ s[i][1] = DC(w[i], 0) /\ s[i][2] = DC(w[i], 1) /\ s[i][3] = DC(w[i], 0)
        BY ONLY <2>1, <2>2
    <2>4. /\ Bits + 1 - i \in 1..Bits /\ Bits + 1 - (Bits + 1 - i) = i
          /\ N + 1 - (1 + (3 * (i - 1) + 1)) = 3 * (Bits + 1 - i)
          /\ N + 1 - (1 + (3 * (i - 1) + 2)) = 3 * (Bits + 1 - i) - 1
          /\ N + 1 - (1 + (3 * (i - 1) + 3)) = 3 * (Bits + 1 - i) - 2
        BY <1>0
    <2>5. /\ P[3 * (Bits + 1 - i)] = DC(w[i], 0) /\ P[3 * (Bits + 1 - i) - 1] = DC(w[i], 1)
          /\ P[3 * (Bits + 1 - i) - 2] = DC(w[i], 0)
        BY ONLY <1>1, <2>4, Zenon
    <2> HIDE DEF s, N
    <2> QED  BY ONLY <2>3, <2>4, <2>5, Zenon
<1>4. s \in Seq(Seq(Settings)) /\ Len(s) = Bits
    <2>1. \A i \in 1..Bits : s[i] \in Seq(Settings)
        BY <1>3, Zenon
    <2>2. s = [i \in 1..Bits |-> s[i]]
        BY Zenon
    <2> HIDE DEF s
    <2>3. s \in [1..Bits -> Seq(Settings)]
        BY ONLY <2>1, <2>2, Zenon
    <2> QED  BY ONLY <1>0, <2>3
<1> DEFINE b == FlattenSeq(s)
<1>5. Follows(b, P, N, 1, 3 * Bits)
    <2> HIDE DEF s, N
    <2>1. \A i \in 1..Bits : Len(s[i]) = 3 /\ \A k \in 1..3 : s[i][k] = P[N + 1 - (1 + (3 * (i - 1) + k))]
        <3>1. ASSUME NEW i \in 1..Bits, NEW k \in 1..3
              PROVE  s[i][k] = P[N + 1 - (1 + (3 * (i - 1) + k))]
            <4>1. k = 1 \/ k = 2 \/ k = 3
                OBVIOUS
            <4> QED  BY ONLY <1>3, <4>1, i \in 1..Bits, Zenon
        <3> QED  BY ONLY <1>3, <3>1, Zenon
    <2>2. 3 \in {2, 3} /\ 1 \in Nat /\ Bits \in Nat
        BY ONLY <1>0
    <2>3. Pieces(s, P, N, 1, 3, Bits)
        BY ONLY <1>4, <2>1, Zenon DEF Pieces
    <2> QED  BY ONLY <1>0, <2>2, <2>3, PiecesListed
<1>6. writeByte(w) = <<DC(m_nLastSDA, 0)>> \o b
    BY Zenon DEF writeByte
<1>7. Listed(<<DC(m_nLastSDA, 0)>> \o b, P, N, 1 + 3 * Bits)
    <2> HIDE DEF b, N
    <2>1. 1 \in Nat /\ 3 * Bits \in Nat
        BY ONLY <1>0
    <2> QED  BY ONLY <1>0, <1>2, <1>5, <2>1, ListedOn
<1> QED
    BY ONLY <1>0, <1>6, <1>7, Zenon DEF P

LEMMA RepeatPieces ==
    ASSUME NEW n \in Nat, NEW d \in Settings, NEW e \in Settings,
           NEW program, NEW size \in Nat, NEW p \in Nat,
           \A i \in 1..n : /\ program[size + 1 - (p + (2 * (i - 1) + 1))] = d
                           /\ program[size + 1 - (p + (2 * (i - 1) + 2))] = e
    PROVE  Follows(Repeat(n, <<d, e>>), program, size, p, 2 * n)
<1> DEFINE s == [i \in 1..n |-> <<d, e>>]
<1>1. <<d, e>> \in Seq(Settings) /\ Len(<<d, e>>) = 2 /\ <<d, e>>[1] = d /\ <<d, e>>[2] = e
    OBVIOUS
<1>2. \A i \in 1..n : s[i] = <<d, e>>
    BY Zenon
<1>3. s \in Seq(Seq(Settings)) /\ n = Len(s)
    <2>1. s \in [1..n -> Seq(Settings)]
        BY ONLY <1>1, Zenon
    <2> HIDE DEF s
    <2> QED  BY ONLY <2>1, n \in Nat
<1> HIDE DEF s
<1>4. \A i \in 1..n : Len(s[i]) = 2 /\ \A k \in 1..2 : s[i][k] = program[size + 1 - (p + (2 * (i - 1) + k))]
    <2>1. ASSUME NEW i \in 1..n, NEW k \in 1..2
          PROVE  s[i][k] = program[size + 1 - (p + (2 * (i - 1) + k))]
        <3>1. k = 1 \/ k = 2
            OBVIOUS
        <3> QED  BY ONLY <1>1, <1>2, <3>1, i \in 1..n,
                    \A h \in 1..n : /\ program[size + 1 - (p + (2 * (h - 1) + 1))] = d
                                    /\ program[size + 1 - (p + (2 * (h - 1) + 2))] = e, Zenon
    <2> QED  BY ONLY <1>1, <1>2, <2>1, Zenon
<1>5. 2 \in {2, 3}
    OBVIOUS
<1>6. Follows(FlattenSeq(s), program, size, p, 2 * n)
    <2>1. Pieces(s, program, size, p, 2, n)
        BY ONLY <1>3, <1>4, Zenon DEF Pieces
    <2> QED  BY ONLY <1>5, <2>1, n \in Nat, size \in Nat, p \in Nat, PiecesListed
<1>7. Repeat(n, <<d, e>>) = FlattenSeq(s)
    BY Zenon DEF Repeat, s
<1> QED
    BY ONLY <1>6, <1>7, Zenon

LEMMA OneFollows ==
    ASSUME NEW d \in Settings, NEW program, NEW size \in Nat, NEW p \in Nat, program[size - p] = d
    PROVE  Follows(<<d>>, program, size, p, 1)
<1>1. <<d>> \in Seq(Settings) /\ Len(<<d>>) = 1 /\ <<d>>[1] = d
    OBVIOUS
<1>2. \A j \in 1..1 : size + 1 - (p + j) = size - p /\ j = 1
    OBVIOUS
<1> QED
    BY ONLY <1>1, <1>2, program[size - p] = d, Zenon DEF Follows

LEMMA ReadListed ==
    ASSUME I2cAssumption, m_nLastSDA = 1
    PROVE  Listed(readByte, ReadProgram, 2 * Bits + 2, 2 * Bits + 2)
<1> DEFINE P == ReadProgram
           N == 2 * Bits + 2
           b == Repeat(Bits, <<DC(1, 0), GetDC(1, 1)>>)
<1>0. /\ Bits \in Nat \ {0} /\ N \in Nat /\ 1 + 2 * Bits \in Nat /\ 2 * Bits \in Nat /\ 1 \in Nat
      /\ 1 + 2 * Bits + 1 = N /\ N - (1 + 2 * Bits) = 1 /\ N - 1 = 2 * Bits + 1
    BY BitsType
<1>1. /\ P[N] = DC(1, 0) /\ P[N - 1] = DC(1, 0)
      /\ \A k \in 1..Bits : P[2 * k] = GetDC(1, 1) /\ P[2 * k - 1] = DC(1, 0)
    BY ONLY I2cAssumption, <1>0, ReadProgramIs, Zenon DEF DC, GetDC
<1>2. DC(1, 0) \in Settings /\ GetDC(1, 1) \in Settings
    BY SettingType
<1>3. readByte = (<<DC(1, 0)>> \o b) \o <<DC(1, 0)>>
    BY DEF readByte
<1>4. ASSUME NEW i \in 1..Bits
      PROVE  /\ P[N + 1 - (1 + (2 * (i - 1) + 1))] = DC(1, 0)
             /\ P[N + 1 - (1 + (2 * (i - 1) + 2))] = GetDC(1, 1)
    <2>1. /\ Bits + 1 - i \in 1..Bits
          /\ N + 1 - (1 + (2 * (i - 1) + 2)) = 2 * (Bits + 1 - i)
          /\ i = 1 => N + 1 - (1 + (2 * (i - 1) + 1)) = N - 1
          /\ i # 1 => Bits + 2 - i \in 1..Bits /\ N + 1 - (1 + (2 * (i - 1) + 1)) = 2 * (Bits + 2 - i) - 1
        BY <1>0
    <2> HIDE DEF P, N
    <2> QED  BY ONLY <1>1, <2>1, Zenon
<1> HIDE DEF P, N, b
<1>5. Listed(<<DC(1, 0)>>, P, N, 1)
    BY ONLY <1>0, <1>1, <1>2, FirstListed, Zenon
<1>6. Follows(b, P, N, 1, 2 * Bits)
    <2>1. Bits \in Nat
        BY ONLY <1>0
    <2> QED  BY ONLY <1>0, <1>2, <1>4, <2>1, RepeatPieces DEF b
<1>7. Listed(<<DC(1, 0)>> \o b, P, N, 1 + 2 * Bits)
    BY ONLY <1>0, <1>5, <1>6, ListedOn
<1>8. Follows(<<DC(1, 0)>>, P, N, 1 + 2 * Bits, 1)
    <2>1. P[N - (1 + 2 * Bits)] = DC(1, 0)
        <3>1. 1 \in 1..Bits /\ 2 * 1 - 1 = 1
            BY ONLY <1>0
        <3> QED  BY ONLY <1>0, <1>1, <3>1
    <2> QED  BY ONLY <1>0, <1>2, <2>1, OneFollows
<1>9. Listed((<<DC(1, 0)>> \o b) \o <<DC(1, 0)>>, P, N, 1 + 2 * Bits + 1)
    BY ONLY <1>0, <1>7, <1>8, ListedOn
<1> QED
    BY ONLY <1>0, <1>3, <1>9, Zenon DEF P, N

LEMMA ThreeAre ==
    ASSUME NEW d \in Settings, NEW e \in Settings, NEW f \in Settings
    PROVE  /\ <<d, e, f>> \in Seq(Settings) /\ Len(<<d, e, f>>) = 3
           /\ \A j \in 1..3 : /\ j = 1 => <<d, e, f>>[j] = d
                              /\ j = 2 => <<d, e, f>>[j] = e
                              /\ j = 3 => <<d, e, f>>[j] = f
    OBVIOUS

LEMMA ClearListed ==
    ASSUME I2cAssumption, I2cClocks
    PROVE  Listed(Clear, ClearProgram, 2 * ClearClocks + 6, 2 * ClearClocks + 6)
<1> DEFINE P == ClearProgram
           C == ClearClocks
           N == 2 * C + 6
           a == <<DC(1, 0), DC(0, 0), DC(1, 0)>>
           b == Repeat(C, <<DC(1, 0), DC(1, 1)>>)
           e == <<DC(0, 1), DC(0, 1), DC(1, 1)>>
<1>0. /\ C \in Nat /\ C > 2 /\ N \in Nat /\ 3 + 2 * C \in Nat /\ 2 * C \in Nat /\ 3 \in Nat
      /\ 3 + 2 * C + 3 = N
    BY BitsType DEF I2cClocks
<1>1. /\ P[1] = DC(1, 1) /\ P[2] = DC(0, 1) /\ P[3] = DC(0, 1)
      /\ P[2 * C + 4] = DC(1, 0) /\ P[2 * C + 5] = DC(0, 0) /\ P[2 * C + 6] = DC(1, 0)
      /\ \A k \in 2..(C + 1) : P[2 * k] = DC(1, 1) /\ P[2 * k + 1] = DC(1, 0)
    BY ONLY I2cAssumption, I2cClocks, ClearProgramIs, Zenon DEF DC
<1>2. /\ DC(1, 0) \in Settings /\ DC(0, 0) \in Settings /\ DC(1, 1) \in Settings /\ DC(0, 1) \in Settings
    BY SettingType
<1>3. Clear = (a \o b) \o e
    BY DEF Clear, StopFrom
<1>4. ASSUME NEW i \in 1..C
      PROVE  /\ P[N + 1 - (3 + (2 * (i - 1) + 1))] = DC(1, 0)
             /\ P[N + 1 - (3 + (2 * (i - 1) + 2))] = DC(1, 1)
    <2>1. /\ C + 2 - i \in 2..(C + 1)
          /\ N + 1 - (3 + (2 * (i - 1) + 2)) = 2 * (C + 2 - i)
          /\ N + 1 - (3 + (2 * (i - 1) + 1)) = 2 * (C + 2 - i) + 1
        BY <1>0
    <2> HIDE DEF P, N, C
    <2> QED  BY ONLY <1>1, <2>1, Zenon
<1>5. Listed(a, P, N, 3)
    <2>1. ASSUME NEW j \in 1..3
          PROVE  a[j] = P[N + 1 - j]
        <3>1. /\ j = 1 \/ j = 2 \/ j = 3
              /\ j = 1 => N + 1 - j = 2 * C + 6
              /\ j = 2 => N + 1 - j = 2 * C + 5
              /\ j = 3 => N + 1 - j = 2 * C + 4
            BY <1>0
        <3> HIDE DEF P, N, C
        <3>2. /\ j = 1 => a[j] = DC(1, 0)
              /\ j = 2 => a[j] = DC(0, 0)
              /\ j = 3 => a[j] = DC(1, 0)
            BY ONLY <1>2, ThreeAre, j \in 1..3
        <3> HIDE DEF a
        <3>3. CASE j = 1
            BY ONLY <1>1, <3>1, <3>2, <3>3
        <3>4. CASE j = 2
            BY ONLY <1>1, <3>1, <3>2, <3>4
        <3>5. CASE j = 3
            BY ONLY <1>1, <3>1, <3>2, <3>5
        <3> QED  BY ONLY <3>1, <3>3, <3>4, <3>5, Zenon
    <2> HIDE DEF P, N
    <2> QED  BY ONLY <1>2, <2>1, ThreeAre, Zenon DEF Listed
<1>6. Follows(e, P, N, 3 + 2 * C, 3)
    <2>1. ASSUME NEW j \in 1..3
          PROVE  e[j] = P[N + 1 - (3 + 2 * C + j)]
        <3>1. /\ j = 1 \/ j = 2 \/ j = 3
              /\ j = 1 => N + 1 - (3 + 2 * C + j) = 3
              /\ j = 2 => N + 1 - (3 + 2 * C + j) = 2
              /\ j = 3 => N + 1 - (3 + 2 * C + j) = 1
            BY <1>0
        <3> HIDE DEF P, N, C
        <3>2. /\ j = 1 => e[j] = DC(0, 1)
              /\ j = 2 => e[j] = DC(0, 1)
              /\ j = 3 => e[j] = DC(1, 1)
            BY ONLY <1>2, ThreeAre, j \in 1..3
        <3> HIDE DEF e
        <3>3. CASE j = 1
            BY ONLY <1>1, <3>1, <3>2, <3>3
        <3>4. CASE j = 2
            BY ONLY <1>1, <3>1, <3>2, <3>4
        <3>5. CASE j = 3
            BY ONLY <1>1, <3>1, <3>2, <3>5
        <3> QED  BY ONLY <3>1, <3>3, <3>4, <3>5, Zenon
    <2> HIDE DEF P, N, C
    <2> QED  BY ONLY <1>2, <2>1, ThreeAre, Zenon DEF Follows
<1> HIDE DEF P, N, C, a, e
<1>7. Follows(b, P, N, 3, 2 * C)
    BY ONLY <1>0, <1>2, <1>4, RepeatPieces
<1> HIDE DEF b
<1>8. Listed(a \o b, P, N, 3 + 2 * C)
    BY ONLY <1>0, <1>5, <1>7, ListedOn
<1>9. Listed((a \o b) \o e, P, N, 3 + 2 * C + 3)
    BY ONLY <1>0, <1>6, <1>8, ListedOn
<1> QED
    BY ONLY <1>0, <1>3, <1>9, Zenon DEF P, N, C

\* The calls of a few settings.
LEMMA StartRuns ==
    ASSUME NEW x \in {0, 1}, todo' = <<DC(1, x), DC(1, 1), DC(0, 1)>>
    PROVE  Runs(<<DC(0, 1), DC(1, 1), DC(1, x)>>, 3)' /\ Len(todo') = 3
<1>1. DC(1, x) \in Settings /\ DC(1, 1) \in Settings /\ DC(0, 1) \in Settings
    BY SettingType
<1>2. Listed(todo', <<DC(0, 1), DC(1, 1), DC(1, x)>>, 3, 3)
    BY <1>1 DEF Listed
<1> QED
    BY <1>2, ListedRuns

LEMMA StopRuns ==
    ASSUME todo' = <<DC(0, 0), DC(0, 1), DC(1, 1)>>
    PROVE  Runs(<<DC(1, 1), DC(0, 1), DC(0, 0)>>, 3)' /\ Len(todo') = 3
<1>1. DC(0, 0) \in Settings /\ DC(1, 1) \in Settings /\ DC(0, 1) \in Settings
    BY SettingType
<1>2. Listed(todo', <<DC(1, 1), DC(0, 1), DC(0, 0)>>, 3, 3)
    BY <1>1 DEF Listed
<1> QED
    BY <1>2, ListedRuns

LEMMA GetAckRuns ==
    ASSUME NEW x \in {0, 1}, todo' = <<DC(x, 0), DC(1, 0), GetDC(1, 1), DC(1, 0)>>
    PROVE  Runs(<<DC(1, 0), GetDC(1, 1), DC(1, 0), DC(x, 0)>>, 4)' /\ Len(todo') = 4
<1>1. DC(x, 0) \in Settings /\ DC(1, 0) \in Settings /\ GetDC(1, 1) \in Settings
    BY SettingType
<1>2. Listed(todo', <<DC(1, 0), GetDC(1, 1), DC(1, 0), DC(x, 0)>>, 4, 4)
    BY <1>1 DEF Listed
<1> QED
    BY <1>2, ListedRuns

LEMMA SetAckRuns ==
    ASSUME NEW x \in {0, 1}, todo' = <<DC(1, 0), DC(x, 0), DC(x, 1), DC(x, 0), DC(1, 0)>>
    PROVE  Runs(<<DC(1, 0), DC(x, 0), DC(x, 1), DC(x, 0), DC(1, 0)>>, 5)' /\ Len(todo') = 5
<1>1. DC(x, 0) \in Settings /\ DC(1, 0) \in Settings /\ DC(x, 1) \in Settings
    BY SettingType
<1>2. Listed(todo', <<DC(1, 0), DC(x, 0), DC(x, 1), DC(x, 0), DC(1, 0)>>, 5, 5)
    BY <1>1 DEF Listed
<1> QED
    BY <1>2, ListedRuns

---------------------------------------------------------------------------
(* Between the calls.                                                      *)

\* Where a call leaves the wires and the slave, as the phase tells it.
Rests ==
    /\ m_nLastSDA = sda /\ m_nLastSCL = scl
    /\ phase = "idle" => sda = 1 /\ scl = 1 /\ (~cut => slave = Free("idle"))
    /\ phase = "address" => sda = 0 /\ scl = 1 /\ (~cut => slave = Free("takes"))
    /\ phase \in {"sent read", "sent write"} =>
          /\ scl = 0
          /\ ~cut => /\ slave.mode = "acks"
                     /\ phase = "sent read" <=> slave.n = 0 /\ slave.byte[Bits] = 1
    /\ phase \in {"got read", "got write"} =>
          /\ sda = 1 /\ scl = 0 /\ retVal \in {<< 0 >>, << 1 >>}
          /\ ~cut => IF retVal = << 1 >> THEN slave = Free("deaf")
                     ELSE IF phase = "got read" THEN \E w \in Words : slave = Giving(w, 1)
                     ELSE slave = Slave("takes", <<>>, 1, 1)
    /\ phase = "answer" => sda = 1 /\ scl = 0 /\ (~cut => slave = Free("waits"))
    /\ phase \in {"read", "stop"} =>
          /\ sda = 1 /\ scl = 0
          /\ ~cut => IF phase = "stop" THEN slave = Free("deaf") ELSE \E w \in Words : slave = Giving(w, 1)

LEMMA RunsEnd ==
    ASSUME NEW program, NEW size \in Nat \ {0}, Runs(program, size), todo = <<>>
    PROVE  \A a, c, look : program[1] = <<a, c, look>> =>
               sda = a /\ scl = c /\ m_nLastSDA = sda /\ m_nLastSCL = scl
<1>1. Len(todo) < size /\ Len(todo) + 1 = 1
    OBVIOUS
<1>2. sda = program[1][1] /\ m_nLastSDA = sda /\ scl = program[1][2] /\ m_nLastSCL = scl
    BY <1>1 DEF Runs
<1> QED
    BY ONLY <1>2

LEMMA StartingRests ==
    ASSUME Starting, todo = <<>>
    PROVE  Rests
<1>1. PICK x \in {0, 1} : Runs(<<DC(0, 1), DC(1, 1), DC(1, x)>>, 3)
    BY DEF Starting
<1>2. <<DC(0, 1), DC(1, 1), DC(1, x)>>[1] = <<0, 1, FALSE>>
    BY DEF DC
<1>3. sda = 0 /\ scl = 1 /\ m_nLastSDA = sda /\ m_nLastSCL = scl
    BY ONLY <1>1, <1>2, todo = <<>>, RunsEnd
<1> QED
    BY <1>3 DEF Rests, Starting

LEMMA StoppingRests ==
    ASSUME Stopping, todo = <<>>
    PROVE  Rests
<1>1. Runs(<<DC(1, 1), DC(0, 1), DC(0, 0)>>, 3)
    BY DEF Stopping
<1>2. <<DC(1, 1), DC(0, 1), DC(0, 0)>>[1] = <<1, 1, FALSE>>
    BY DEF DC
<1>3. sda = 1 /\ scl = 1 /\ m_nLastSDA = sda /\ m_nLastSCL = scl
    BY ONLY <1>1, <1>2, todo = <<>>, RunsEnd
<1> QED
    BY <1>3 DEF Rests, Stopping

LEMMA ClearingRests ==
    ASSUME I2cAssumption, I2cClocks, Clearing, todo = <<>>
    PROVE  Rests
<1>1. Runs(ClearProgram, 2 * ClearClocks + 6) /\ ClearProgram[1] = <<1, 1, FALSE>>
    BY ClearProgramIs DEF Clearing
<1>2. 2 * ClearClocks + 6 \in Nat \ {0}
    BY BitsType
<1>3. sda = 1 /\ scl = 1 /\ m_nLastSDA = sda /\ m_nLastSCL = scl
    BY ONLY <1>1, <1>2, todo = <<>>, RunsEnd
<1>4. phase = "idle" /\ (~cut => slave = Free("idle"))
    <2>1. Len(todo) = 0
        OBVIOUS
    <2> QED  BY ONLY <2>1, Clearing DEF Clearing
<1> QED
    BY <1>3, <1>4 DEF Rests

LEMMA SendingRests ==
    ASSUME I2cAssumption, Sending, todo = <<>>
    PROVE  Rests
<1>1. PICK w \in Words :
        /\ phase \in {"sent read", "sent write"}
        /\ \E x \in {0, 1} : Runs(SendProgram(w, x), 3 * Bits + 1)
        /\ ~cut => /\ phase = "sent read" <=> slave.n = 0 /\ w[Bits] = 1
                   /\ slave.mode = "acks" /\ slave.byte = w
    BY Zenon DEF Sending
<1>2. PICK x \in {0, 1} : Runs(SendProgram(w, x), 3 * Bits + 1)
    BY <1>1
<1>3. SendProgram(w, x)[1] = <<w[Bits], 0, FALSE>>
    <2>1. 1 \in 1..Bits /\ 3 * 1 - 2 = 1 /\ Bits + 1 - 1 = Bits
        BY BitsType
    <2>2. SendProgram(w, x)[3 * 1 - 2] = <<w[Bits + 1 - 1], 0, FALSE>>
        BY ONLY I2cAssumption, w \in Words, x \in {0, 1}, <2>1, SendProgramIs, Zenon
    <2> QED  BY ONLY <2>1, <2>2
<1>4. 3 * Bits + 1 \in Nat \ {0}
    BY BitsType
<1>5. scl = 0 /\ m_nLastSDA = sda /\ m_nLastSCL = scl
    BY ONLY <1>2, <1>3, <1>4, todo = <<>>, RunsEnd
<1>6. ~cut => /\ slave.mode = "acks"
              /\ phase = "sent read" <=> slave.n = 0 /\ slave.byte[Bits] = 1
    BY ONLY <1>1, Zenon
<1> QED
    BY ONLY <1>1, <1>5, <1>6 DEF Rests

LEMMA AskingRests ==
    ASSUME Asking, todo = <<>>
    PROVE  Rests
<1>1. PICK x \in {0, 1} : Runs(<<DC(1, 0), GetDC(1, 1), DC(1, 0), DC(x, 0)>>, 4)
    BY DEF Asking
<1>2. <<DC(1, 0), GetDC(1, 1), DC(1, 0), DC(x, 0)>>[1] = <<1, 0, FALSE>>
    BY DEF DC, GetDC
<1>3. sda = 1 /\ scl = 0 /\ m_nLastSDA = sda /\ m_nLastSCL = scl
    BY ONLY <1>1, <1>2, todo = <<>>, RunsEnd
<1>4. ~(Len(todo) > 1)
    OBVIOUS
<1>5. /\ phase \in {"got read", "got write"} /\ retVal \in {<< 0 >>, << 1 >>}
      /\ ~cut => IF retVal = << 1 >> THEN slave = Free("deaf")
                 ELSE IF phase = "got read" THEN \E w \in Words : slave = Giving(w, 1)
                 ELSE slave = Slave("takes", <<>>, 1, 1)
    BY ONLY <1>4, Asking, todo = <<>>, Zenon DEF Asking
<1> QED
    BY ONLY <1>3, <1>5 DEF Rests

LEMMA ReadingRests ==
    ASSUME I2cAssumption, Reading, todo = <<>>
    PROVE  Rests
<1>1. Runs(ReadProgram, 2 * Bits + 2)
    BY DEF Reading
<1>2. ReadProgram[1] = <<1, 0, FALSE>>
    <2>1. 1 \in 1..Bits /\ 2 * 1 - 1 = 1
        BY BitsType
    <2> QED  BY ONLY I2cAssumption, <2>1, ReadProgramIs
<1>3. 2 * Bits + 2 \in Nat \ {0}
    BY BitsType
<1>4. sda = 1 /\ scl = 0 /\ m_nLastSDA = sda /\ m_nLastSCL = scl
    BY ONLY <1>1, <1>2, <1>3, todo = <<>>, RunsEnd
<1> QED
    BY <1>4 DEF Rests, Reading

LEMMA AnsweringRests ==
    ASSUME Answering, todo = <<>>
    PROVE  Rests
<1>1. PICK x \in {0, 1} :
        /\ phase = (IF x = 0 THEN "read" ELSE "stop")
        /\ Runs(<<DC(1, 0), DC(x, 0), DC(x, 1), DC(x, 0), DC(1, 0)>>, 5)
        /\ ~cut => IF x = 1 THEN slave = Free("deaf") ELSE \E w \in Words : slave = Giving(w, 1)
    <2>1. ~(Len(todo) > 1)
        OBVIOUS
    <2> QED  BY ONLY <2>1, Answering, Zenon DEF Answering
<1>2. <<DC(1, 0), DC(x, 0), DC(x, 1), DC(x, 0), DC(1, 0)>>[1] = <<1, 0, FALSE>>
    BY DEF DC
<1>3. sda = 1 /\ scl = 0 /\ m_nLastSDA = sda /\ m_nLastSCL = scl
    BY ONLY <1>1, <1>2, todo = <<>>, RunsEnd
<1> QED
    BY <1>1, <1>3 DEF Rests

LEMMA AtRest ==
    ASSUME I2cAssumption, I2cClocks, I2cInv, todo = <<>>
    PROVE  Rests /\ Wires
    BY ClearingRests, StartingRests, StoppingRests, SendingRests, AskingRests, ReadingRests,
       AnsweringRests DEF I2cInv

LEMMA CallKeeps ==
    ASSUME Wires, NEW c, NEW settings, NEW next, Call(c, settings, next)
    PROVE  /\ Wires' /\ Records'
           /\ call' = c /\ todo' = settings /\ phase' = next /\ heard' = <<>> /\ retVal' = <<>>
           /\ m_nLastSDA' = m_nLastSDA /\ m_nLastSCL' = m_nLastSCL /\ sda' = sda /\ scl' = scl
           /\ slave' = slave /\ cut' = cut
    BY DEF Call, Wires, Records, SlaveOK

LEMMA ZeroIsNotOne == << 0 >> # << 1 >>
<1>1. << 0 >>[1] = 0 /\ << 1 >>[1] = 1
    OBVIOUS
<1> QED
    BY ONLY <1>1

LEMMA LeavesFree ==
    ASSUME Rests, MayLeave
    PROVE  sda = 1 /\ scl = 0 /\ m_nLastSDA = 1 /\ m_nLastSCL = 0 /\ (~cut => slave.pull = 1)
<1>1. Free("deaf").pull = 1 /\ Slave("takes", <<>>, 1, 1).pull = 1
    BY DEF Free, Slave
<1>2. CASE phase = "stop"
    BY <1>1, <1>2 DEF Rests
<1>3. CASE phase = "got write"
    BY <1>1, <1>3 DEF Rests
<1>4. CASE phase = "got read" /\ retVal # << 0 >>
    BY <1>1, <1>4 DEF Rests
<1> QED
    BY <1>2, <1>3, <1>4 DEF MayLeave, Ready, Acked

LEMMA StartCall ==
    ASSUME Rests, Wires, i2c_master_start
    PROVE  Wires' /\ Records' /\ Starting'
<1>1. sda = 1 /\ m_nLastSDA = 1 /\ scl = m_nLastSCL /\ (~cut => slave.pull = 1)
    <2>1. CASE Ready({"idle"})
        BY <2>1 DEF Rests, Ready, Free, Slave
    <2>2. CASE MayLeave
        BY <2>2, LeavesFree
    <2> QED  BY <2>1, <2>2 DEF i2c_master_start
<1>2. Call(<<"start">>, Start, "address")
    BY DEF i2c_master_start
<1>3. /\ Wires' /\ Records'
      /\ call' = <<"start">> /\ todo' = Start /\ phase' = "address" /\ heard' = <<>> /\ retVal' = <<>>
      /\ m_nLastSDA' = m_nLastSDA /\ m_nLastSCL' = m_nLastSCL /\ sda' = sda /\ scl' = scl
      /\ slave' = slave /\ cut' = cut
    BY ONLY <1>2, Wires, CallKeeps, Zenon
<1>4. PICK x \in {0, 1} : x = scl
    BY DEF Wires
<1>5. todo' = <<DC(1, x), DC(1, 1), DC(0, 1)>>
    BY <1>1, <1>3, <1>4 DEF Start
<1>6. Runs(<<DC(0, 1), DC(1, 1), DC(1, x)>>, 3)' /\ Len(todo') = 3
    BY ONLY <1>5, StartRuns
<1>7. From(3, 1, x)'
    BY <1>1, <1>3, <1>4 DEF From
<1>8. todo' # <<>>
    BY ONLY <1>6
<1> QED
    BY ONLY <1>1, <1>3, <1>6, <1>7, <1>8 DEF Starting

LEMMA StopCall ==
    ASSUME Rests, Wires, i2c_master_stop
    PROVE  Wires' /\ Records' /\ Stopping'
<1>1. sda = 1 /\ m_nLastSDA = 1 /\ scl = 0 /\ m_nLastSCL = 0 /\ (~cut => slave.pull = 1)
    BY LeavesFree DEF i2c_master_stop
<1>2. Call(<<"stop">>, StopFrom(m_nLastSCL), "idle")
    BY DEF i2c_master_stop
<1>3. /\ Wires' /\ Records'
      /\ call' = <<"stop">> /\ todo' = StopFrom(m_nLastSCL) /\ phase' = "idle" /\ heard' = <<>> /\ retVal' = <<>>
      /\ m_nLastSDA' = m_nLastSDA /\ m_nLastSCL' = m_nLastSCL /\ sda' = sda /\ scl' = scl
      /\ slave' = slave /\ cut' = cut
    BY ONLY <1>2, Wires, CallKeeps, Zenon
<1>5. todo' = <<DC(0, 0), DC(0, 1), DC(1, 1)>>
    BY <1>1, <1>3 DEF StopFrom
<1>6. Runs(<<DC(1, 1), DC(0, 1), DC(0, 0)>>, 3)' /\ Len(todo') = 3
    BY ONLY <1>5, StopRuns
<1>7. From(3, 1, 0)'
    BY <1>1, <1>3 DEF From
<1>8. todo' # <<>>
    BY ONLY <1>6
<1> QED
    BY ONLY <1>1, <1>3, <1>6, <1>7, <1>8 DEF Stopping

LEMMA CheckCall ==
    ASSUME Rests, Wires, i2c_master_checkAck
    PROVE  Wires' /\ Records' /\ Asking'
<1> DEFINE next == IF phase = "sent read" THEN "got read" ELSE "got write"
<1>1. phase \in {"sent read", "sent write"}
    BY DEF i2c_master_checkAck, Ready
<1>2. Call(<<"check">>, getAck, next)
    BY DEF i2c_master_checkAck
<1> HIDE DEF next
<1>3. /\ Wires' /\ Records'
      /\ call' = <<"check">> /\ todo' = getAck /\ phase' = next /\ heard' = <<>> /\ retVal' = <<>>
      /\ m_nLastSDA' = m_nLastSDA /\ m_nLastSCL' = m_nLastSCL /\ sda' = sda /\ scl' = scl
      /\ slave' = slave /\ cut' = cut
    BY ONLY <1>2, Wires, CallKeeps, Zenon
<1>4. PICK x \in {0, 1} : x = sda
    BY DEF Wires
<1>5. /\ m_nLastSDA = x /\ m_nLastSCL = 0 /\ scl = 0
      /\ ~cut => /\ slave.mode = "acks"
                 /\ phase = "sent read" <=> slave.n = 0 /\ slave.byte[Bits] = 1
    BY ONLY Rests, <1>1, <1>4 DEF Rests
<1>6. Runs(<<DC(1, 0), GetDC(1, 1), DC(1, 0), DC(x, 0)>>, 4)' /\ Len(todo') = 4
    <2>1. todo' = <<DC(x, 0), DC(1, 0), GetDC(1, 1), DC(1, 0)>>
        BY ONLY <1>3, <1>5 DEF getAck
    <2> QED  BY ONLY <2>1, GetAckRuns
<1>7. From(4, x, 0)'
    BY ONLY <1>3, <1>4, <1>5 DEF From
<1>8. todo' # <<>> /\ Len(todo') > 1 /\ Len(todo') # 1
    BY ONLY <1>6
<1>9. phase' \in {"got read", "got write"} /\ (phase' = "got read" <=> phase = "sent read")
    BY ONLY <1>3 DEF next
<1> QED
    BY ONLY <1>3, <1>5, <1>6, <1>7, <1>8, <1>9 DEF Asking

LEMMA AnswerCall ==
    ASSUME Rests, Wires, NEW level \in {0, 1}, i2c_master_send_ack(level)
    PROVE  Wires' /\ Records' /\ Answering'
<1> DEFINE next == IF level = 0 THEN "read" ELSE "stop"
<1>1. phase = "answer"
    BY DEF i2c_master_send_ack, Ready
<1>2. Call(<<"answer", level>>, setAck(level), next)
    BY DEF i2c_master_send_ack
<1> HIDE DEF next
<1>3. /\ Wires' /\ Records'
      /\ call' = <<"answer", level>> /\ todo' = setAck(level) /\ phase' = next /\ heard' = <<>> /\ retVal' = <<>>
      /\ m_nLastSDA' = m_nLastSDA /\ m_nLastSCL' = m_nLastSCL /\ sda' = sda /\ scl' = scl
      /\ slave' = slave /\ cut' = cut
    BY ONLY <1>2, Wires, CallKeeps, Zenon
<1>5. m_nLastSDA = 1 /\ m_nLastSCL = 0 /\ sda = 1 /\ scl = 0 /\ (~cut => slave = Slave("waits", <<>>, 1, 0))
    BY ONLY Rests, <1>1 DEF Rests, Free
<1>6. Runs(<<DC(1, 0), DC(level, 0), DC(level, 1), DC(level, 0), DC(1, 0)>>, 5)' /\ Len(todo') = 5
    <2>1. todo' = <<DC(1, 0), DC(level, 0), DC(level, 1), DC(level, 0), DC(1, 0)>>
        BY ONLY <1>3, <1>5 DEF setAck
    <2> QED  BY ONLY <2>1, SetAckRuns
<1>7. From(5, 1, 0)'
    BY ONLY <1>3, <1>5 DEF From
<1>8. Len(todo') > 1 /\ Len(todo') # 2
    BY ONLY <1>6
<1> QED
    BY ONLY <1>3, <1>5, <1>6, <1>7, <1>8 DEF Answering, next

LEMMA ReadCall ==
    ASSUME I2cAssumption, Rests, Wires, i2c_master_readByte
    PROVE  Wires' /\ Records' /\ Reading'
<1>1. /\ m_nLastSDA = 1 /\ m_nLastSCL = 0 /\ sda = 1 /\ scl = 0
      /\ ~cut => \E w \in Words : slave = Giving(w, 1)
    <2>1. CASE phase = "read"
        BY <2>1 DEF Rests
    <2>2. CASE phase = "got read" /\ retVal = << 0 >>
        <3>1. retVal # << 1 >>
            BY ONLY <2>2, ZeroIsNotOne, Zenon
        <3> QED  BY ONLY <2>2, <3>1, Rests DEF Rests
    <2> QED  BY <2>1, <2>2 DEF i2c_master_readByte, Ready, Acked
<1>2. Call(<<"read">>, readByte, "answer")
    BY DEF i2c_master_readByte
<1>3. /\ Wires' /\ Records'
      /\ call' = <<"read">> /\ todo' = readByte /\ phase' = "answer" /\ heard' = <<>> /\ retVal' = <<>>
      /\ m_nLastSDA' = m_nLastSDA /\ m_nLastSCL' = m_nLastSCL /\ sda' = sda /\ scl' = scl
      /\ slave' = slave /\ cut' = cut
    BY ONLY <1>2, Wires, CallKeeps, Zenon
<1>4. 2 * Bits + 2 \in Nat /\ 2 * Bits + 2 # 0
    BY BitsType
<1>5. Runs(ReadProgram, 2 * Bits + 2)' /\ Len(todo') = 2 * Bits + 2
    <2>1. Listed(todo', ReadProgram, 2 * Bits + 2, 2 * Bits + 2)
        BY ONLY I2cAssumption, <1>1, <1>3, ReadListed
    <2> QED  BY ONLY <1>4, <2>1, ListedRuns
<1>6. From(2 * Bits + 2, 1, 0)'
    BY ONLY <1>1, <1>3 DEF From
<1>7. Len(retVal') = Got(Len(todo')) /\ Len(retVal') = 0 /\ todo' # <<>>
    <2>1. Len(<<>>) = 0
        OBVIOUS
    <2>2. Len(todo') # 0
        BY ONLY <1>4, <1>5
    <2>3. todo' # <<>>
        BY ONLY <2>1, <2>2, Zenon
    <2> QED  BY ONLY I2cAssumption, <1>3, <1>5, <2>1, <2>3, GotAt, Zenon
<1>8. ~cut' => \E w \in Words : /\ \A i \in 1..Len(retVal') : retVal'[i] = w[i]
                                /\ slave' = Giving(w, IF scl' = 1 THEN Len(retVal') ELSE Len(retVal') + 1)
    <2>1. scl' # 1 /\ 0 + 1 = 1 /\ \A i \in 1..0 : FALSE
        BY ONLY <1>1, <1>3
    <2> QED  BY ONLY <1>1, <1>3, <1>7, <2>1
<1> QED
    BY ONLY <1>3, <1>5, <1>6, <1>7, <1>8 DEF Reading

LEMMA WriteCall ==
    ASSUME I2cAssumption, Rests, Wires, NEW w \in Words, i2c_master_writeByte(w)
    PROVE  Wires' /\ Records' /\ Sending'
<1> DEFINE next == IF phase = "address" /\ w[Bits] = 1 THEN "sent read" ELSE "sent write"
           N == 3 * Bits + 1
<1>1. PICK x \in {0, 1} : x = sda
    BY DEF Wires
<1>2. /\ m_nLastSDA = x /\ m_nLastSCL = scl /\ scl = 1 - x
      /\ ~cut => slave.mode = "takes" /\ slave.byte = <<>> /\ (slave.n = 0 <=> phase = "address")
    <2>1. CASE phase = "address"
        BY <1>1, <2>1 DEF Rests, Free, Slave
    <2>2. CASE phase = "got write" /\ retVal = << 0 >>
        <3>1. retVal # << 1 >>
            BY ONLY <2>2, ZeroIsNotOne, Zenon
        <3>2. /\ m_nLastSDA = sda /\ m_nLastSCL = scl /\ sda = 1 /\ scl = 0
              /\ ~cut => slave = Slave("takes", <<>>, 1, 1)
            BY ONLY <2>2, <3>1, Rests DEF Rests
        <3>3. phase # "address" /\ scl = 1 - x
            <4>1. phase = "got write" /\ sda = 1 /\ scl = 0
                BY ONLY <2>2, <3>2, Zenon
            <4>2. phase # "address"
                BY ONLY <4>1
            <4>3. x = 1
                BY ONLY <1>1, <4>1, Zenon
            <4>4. 1 - 1 = 0
                OBVIOUS
            <4> QED  BY ONLY <4>1, <4>2, <4>3, <4>4, Zenon
        <3>4. Slave("takes", <<>>, 1, 1).mode = "takes" /\ Slave("takes", <<>>, 1, 1).byte = <<>>
              /\ Slave("takes", <<>>, 1, 1).n # 0
            BY DEF Slave
        <3> QED  BY ONLY <1>1, <3>2, <3>3, <3>4, Zenon
    <2> QED  BY <2>1, <2>2 DEF i2c_master_writeByte, Ready, Acked
<1>3. Call(<<"byte", w>>, writeByte(w), next)
    BY DEF i2c_master_writeByte
<1> HIDE DEF next
<1>4. /\ Wires' /\ Records'
      /\ call' = <<"byte", w>> /\ todo' = writeByte(w) /\ phase' = next /\ heard' = <<>> /\ retVal' = <<>>
      /\ m_nLastSDA' = m_nLastSDA /\ m_nLastSCL' = m_nLastSCL /\ sda' = sda /\ scl' = scl
      /\ slave' = slave /\ cut' = cut
    BY ONLY <1>3, Wires, CallKeeps, Zenon
<1>5. N \in Nat /\ N # 0
    BY BitsType
<1>6. Runs(SendProgram(w, x), N)' /\ Len(todo') = N
    <2>1. Listed(todo', SendProgram(w, x), N, N)
        BY ONLY I2cAssumption, w \in Words, x \in {0, 1}, <1>2, <1>4, WriteListed, Zenon
    <2> QED  BY ONLY <1>5, <2>1, ListedRuns
<1>7. From(N, x, 1 - x)'
    BY ONLY <1>1, <1>2, <1>4 DEF From
<1>8. /\ phase' \in {"sent read", "sent write"}
      /\ phase' = "sent read" <=> phase = "address" /\ w[Bits] = 1
    BY ONLY <1>4 DEF next
<1>9. todo' # <<>> /\ Sent(Len(todo')) = 0
    <2>1. Len(<<>>) = 0
        OBVIOUS
    <2> QED  BY ONLY I2cAssumption, <1>5, <1>6, <2>1, SentAt, Zenon
<1>10. ~cut' => /\ phase' = "sent read" <=> slave'.n = 0 /\ w[Bits] = 1
                /\ slave'.mode = "takes" /\ heard' = <<>> /\ Len(slave'.byte) = Sent(Len(todo'))
                /\ \A i \in 1..Len(slave'.byte) : slave'.byte[i] = w[i]
    <2>1. Len(<<>>) = 0 /\ \A i \in 1..Len(<<>>) : FALSE
        OBVIOUS
    <2> QED  BY ONLY <1>2, <1>4, <1>8, <1>9, <2>1, Zenon
<1> QED
    BY ONLY w \in Words, x \in {0, 1}, <1>4, <1>6, <1>7, <1>8, <1>9, <1>10, Zenon DEF Sending

---------------------------------------------------------------------------
(* The invariant holds.                                                    *)

\* A slave as a reset may find it: the first k - 1 bits of a byte, and the one
\* that the wires show while they are high.
LEMMA HalfByte ==
    ASSUME I2cAssumption, NEW w \in Words, NEW k \in 1..Bits
    PROVE  LET q == Append(SubSeq(w, 1, k - 1), 1)
           IN  q \in Seq({0, 1}) /\ Len(q) = k /\ q[Len(q)] = 1 /\ q # <<>>
<1>1. w \in Seq({0, 1}) /\ Len(w) = Bits /\ Bits \in Nat
    BY WordType, BitsType
<1> DEFINE p == SubSeq(w, 1, k - 1)
<1>2. p \in Seq({0, 1}) /\ Len(p) = k - 1
    <2>1. /\ 1 \in 1..(Len(w) + 1) /\ k - 1 \in (1 - 1)..Len(w)
        BY <1>1
    <2> QED  BY ONLY <1>1, <2>1, k \in 1..Bits, SubSeqProperties
<1> HIDE DEF p
<1>3. Append(p, 1) \in Seq({0, 1}) /\ Len(Append(p, 1)) = k /\ Append(p, 1)[Len(Append(p, 1))] = 1
    BY ONLY <1>1, <1>2, k \in 1..Bits, AppendProperties
<1>4. Append(p, 1) # <<>>
    <2>1. Len(<<>>) = 0 /\ k # 0
        BY <1>1
    <2> QED  BY ONLY <1>3, <2>1, Zenon
<1> QED
    BY ONLY <1>3, <1>4, Zenon DEF p

\* What i2c_master_init may find, as far as the clocks matter.
Found(s, lost) == SlaveOK(s, 1) /\ (~lost => Frees(s, 1, ClearClocks))

LEMMA FoundFree ==
    ASSUME I2cAssumption, NEW mode \in {"idle", "deaf"}, NEW lost
    PROVE  Found(Free(mode), lost)
<1> DEFINE s == Free(mode)
<1>1. s.mode = mode /\ s.byte = <<>> /\ s.pull = 1 /\ s.n = 0
    BY DEF Free, Slave
<1>2. SlaveOK(s, 1)
    BY <1>1, BitsType DEF SlaveOK, Free, Slave, Modes
<1>3. Frees(s, 1, ClearClocks)
    BY <1>1 DEF Frees
<1> QED
    BY ONLY <1>2, <1>3, Zenon DEF Found

LEMMA FoundWaits ==
    ASSUME I2cAssumption, NEW lost
    PROVE  Found(Slave("waits", << 1 >>, 1, 0), lost)
<1> DEFINE s == Slave("waits", << 1 >>, 1, 0)
<1>1. s.mode = "waits" /\ s.byte = << 1 >> /\ s.pull = 1 /\ s.n = 0
    BY DEF Slave
<1>2. SlaveOK(s, 1)
    BY <1>1, BitsType DEF SlaveOK, Slave, Modes
<1>3. Frees(s, 1, ClearClocks)
    BY <1>1 DEF Frees
<1> QED
    BY ONLY <1>2, <1>3, Zenon DEF Found

LEMMA FoundTakes ==
    ASSUME I2cAssumption, I2cClocks, NEW w \in Words, NEW k \in 1..Bits, NEW n \in {0, 1}, NEW lost,
           ~lost => k # Bits
    PROVE  Found(Slave("takes", Append(SubSeq(w, 1, k - 1), 1), 1, n), lost)
<1> DEFINE q == Append(SubSeq(w, 1, k - 1), 1)
           s == Slave("takes", q, 1, n)
<1>0. Bits \in Nat \ {0} /\ ClearClocks \in Nat /\ 2 * Bits < ClearClocks /\ ClearClocks % (Bits + 1) = 1
    BY BitsType DEF I2cClocks
<1>1. q \in Seq({0, 1}) /\ Len(q) = k /\ q[Len(q)] = 1 /\ q # <<>>
    BY HalfByte
<1> HIDE DEF q
<1>2. s.mode = "takes" /\ s.byte = q /\ s.pull = 1 /\ s.n = n
    BY DEF Slave
<1>3. SlaveOK(s, 1)
    BY <1>0, <1>1, <1>2 DEF SlaveOK, Slave, Modes
<1> HIDE DEF s
<1>4. ASSUME ~lost
      PROVE  IF s.n = 0 THEN Len(s.byte) + ClearClocks >= 2 * Bits + 2
             ELSE (Len(s.byte) + ClearClocks) % (Bits + 1) # 0
    <2>1. k + ClearClocks >= 2 * Bits + 2
        BY <1>0
    <2>2. k \in 1..(Bits + 1 - 2) /\ Bits + 1 \in Nat \ {0}
        BY <1>0, <1>4
    <2>3. (k + ClearClocks) % (Bits + 1) # 0
        BY ONLY <1>0, <2>2, OneMore
    <2> QED  BY ONLY <1>1, <1>2, <2>1, <2>3, Zenon
<1> QED
    BY ONLY <1>1, <1>2, <1>3, <1>4, FreesTakes, Zenon DEF Found, s, q

LEMMA FoundGives ==
    ASSUME I2cAssumption, I2cClocks, NEW w \in Words, NEW k \in 1..Bits, NEW lost
    PROVE  Found(Giving(w, k), lost)
<1> DEFINE s == Giving(w, k)
<1>0. Bits \in Nat \ {0} /\ ClearClocks \in Nat /\ 2 * Bits < ClearClocks
    BY BitsType DEF I2cClocks
<1>1. w \in Seq({0, 1}) /\ Len(w) = Bits /\ w[k] \in {0, 1}
    BY WordType
<1>2. s.mode = "gives" /\ s.byte = w /\ s.pull = w[k] /\ s.n = k
    BY DEF Giving, Slave
<1>3. SlaveOK(s, 1)
    BY <1>0, <1>1, <1>2 DEF SlaveOK, Giving, Slave, Modes
<1> HIDE DEF s
<1>4. s.n + ClearClocks + 1 >= Bits + 2
    BY <1>0, <1>2
<1> QED
    BY ONLY <1>2, <1>3, <1>4, FreesGives, Zenon DEF Found, s

LEMMA FoundAcks ==
    ASSUME I2cAssumption, I2cClocks, NEW w \in Words, NEW n \in {0, 1}, NEW lost
    PROVE  Found(Slave("acks", w, 0, n), lost)
<1> DEFINE s == Slave("acks", w, 0, n)
<1>0. Bits \in Nat \ {0} /\ ClearClocks \in Nat /\ 2 * Bits < ClearClocks /\ ClearClocks % (Bits + 1) = 1
    BY BitsType DEF I2cClocks
<1>1. w \in Seq({0, 1}) /\ Len(w) = Bits
    BY WordType
<1>2. s.mode = "acks" /\ s.byte = w /\ s.pull = 0 /\ s.n = n
    BY DEF Slave
<1>3. SlaveOK(s, 1)
    BY <1>0, <1>1, <1>2 DEF SlaveOK, Slave, Modes
<1> HIDE DEF s
<1>4. ClearClocks + 1 >= Bits + 2
    BY <1>0
<1>5. (Bits + 1 + ClearClocks) % (Bits + 1) # 0
    <2>1. Bits + 1 \in Nat \ {0} /\ ClearClocks \in Int
        BY <1>0
    <2>2. (Bits + 1 + ClearClocks) % (Bits + 1) = ClearClocks % (Bits + 1)
        BY ONLY <2>1, Around
    <2> QED  BY ONLY <1>0, <2>2
<1> QED
    BY ONLY <1>2, <1>3, <1>4, <1>5, FreesAcks, Zenon DEF Found, s

LEMMA FoundInit ==
    ASSUME I2cAssumption, I2cClocks, I2cInit
    PROVE  Found(slave, cut) /\ cut \in BOOLEAN
<1>1. cut = (slave.mode = "takes" /\ Len(slave.byte) = Bits)
    BY DEF I2cInit
<1> DEFINE A == {Free("idle"), Free("deaf"), Slave("waits", << 1 >>, 1, 0)}
           B == {Slave("takes", Append(SubSeq(w, 1, k - 1), 1), 1, n) :
                    w \in Words, k \in 1..Bits, n \in {0, 1}}
           C == {Giving(w, k) : w \in Words, k \in 1..Bits}
           D == {Slave("acks", w, 0, n) : w \in Words, n \in {0, 1}}
<1>0. slave \in A \union B \union C \union D
    BY DEF I2cInit
<1>c. cut \in BOOLEAN
    BY <1>1
<1>2. CASE slave \in A
    BY <1>1, <1>2, FoundFree, FoundWaits
<1>3. CASE slave \in B
    <2>1. PICK w \in Words, k \in 1..Bits, n \in {0, 1} :
              slave = Slave("takes", Append(SubSeq(w, 1, k - 1), 1), 1, n)
        BY <1>3
    <2>2. slave.mode = "takes" /\ Len(slave.byte) = k
        <3>1. slave.mode = "takes" /\ slave.byte = Append(SubSeq(w, 1, k - 1), 1)
            BY <2>1 DEF Slave
        <3>2. Len(Append(SubSeq(w, 1, k - 1), 1)) = k
            BY HalfByte
        <3> QED  BY ONLY <3>1, <3>2
    <2>3. ~cut => k # Bits
        BY ONLY <1>1, <2>2, Zenon
    <2>4. Found(Slave("takes", Append(SubSeq(w, 1, k - 1), 1), 1, n), cut)
        BY ONLY I2cAssumption, I2cClocks, <2>3, w \in Words, k \in 1..Bits, n \in {0, 1}, FoundTakes, Zenon
    <2> QED  BY ONLY <1>1, <2>1, <2>4, Zenon
<1>4. CASE slave \in C
    BY <1>1, <1>4, FoundGives
<1>5. CASE slave \in D
    BY <1>1, <1>5, FoundAcks
<1> HIDE DEF A, B, C, D
<1> QED
    BY ONLY <1>0, <1>c, <1>2, <1>3, <1>4, <1>5

LEMMA ClearSets ==
    ASSUME I2cAssumption, I2cClocks, todo = Clear
    PROVE  /\ Runs(ClearProgram, 2 * ClearClocks + 6) /\ Len(todo) = 2 * ClearClocks + 6
<1> DEFINE N == 2 * ClearClocks + 6
<1>0. N \in Nat
    BY BitsType
<1>1. Listed(todo, ClearProgram, N, N)
    BY ONLY I2cAssumption, I2cClocks, todo = Clear, ClearListed, Zenon
<1> HIDE DEF N
<1>2. todo \in Seq(Settings) /\ Len(todo) = N /\ \A j \in 1..N : todo[j] = ClearProgram[N + 1 - j]
    BY ONLY <1>1, Zenon DEF Listed
<1>3. Len(todo) \in 0..N /\ ~(Len(todo) < N)
    BY ONLY <1>0, <1>2
<1>4. Runs(ClearProgram, N)
    BY ONLY <1>2, <1>3, Zenon DEF Runs
<1> QED
    BY ONLY <1>2, <1>4, Zenon DEF N

LEMMA I2cStarts ==
    ASSUME I2cAssumption, I2cClocks, I2cInit
    PROVE  I2cInv
<1>1. /\ m_nLastSDA = 0 /\ m_nLastSCL = 0 /\ sda = 1 /\ scl = 1 /\ todo = Clear /\ call = <<"init">>
      /\ retVal = <<>> /\ phase = "idle" /\ heard = <<>>
    BY DEF I2cInit
<1>2. Found(slave, cut) /\ cut \in BOOLEAN
    BY FoundInit
<1>3. Runs(ClearProgram, 2 * ClearClocks + 6) /\ Len(todo) = 2 * ClearClocks + 6
    BY ONLY I2cAssumption, I2cClocks, <1>1, ClearSets
<1>4. Len(todo) > 3 /\ Clocks(Len(todo)) = ClearClocks
    BY <1>3, BitsType DEF Clocks
<1>5. Clearing
    <2>1. ~cut => Frees(slave, scl, Clocks(Len(todo)))
        BY ONLY <1>1, <1>2, <1>4, Zenon DEF Found
    <2> QED  BY ONLY <1>1, <1>3, <1>4, <2>1, Zenon DEF Clearing
<1>6. Wires
    BY ONLY <1>1, <1>2 DEF Wires, Found
<1>7. Records
    BY ONLY <1>1 DEF Records
<1> QED
    BY <1>5, <1>6, <1>7 DEF I2cInv

LEMMA I2cSteps ==
    ASSUME I2cAssumption, I2cClocks, I2cInv, [I2cNext]_i2cVars
    PROVE  I2cInv'
<1>1. CASE i2c_master_setDC
    BY <1>1, ClearingStep, StartingStep, StoppingStep, SendingStep, AskingStep, ReadingStep,
       AnsweringStep DEF I2cInv
<1>2. CASE i2c_master_start
    <2>1. todo = <<>>
        BY <1>2 DEF i2c_master_start, MayLeave, Ready
    <2> QED  BY <1>2, <2>1, AtRest, StartCall DEF I2cInv
<1>3. CASE i2c_master_stop
    <2>1. todo = <<>>
        BY <1>3 DEF i2c_master_stop, MayLeave, Ready
    <2> QED  BY <1>3, <2>1, AtRest, StopCall DEF I2cInv
<1>4. ASSUME NEW w \in Words, i2c_master_writeByte(w)
      PROVE  I2cInv'
    <2>1. todo = <<>>
        BY <1>4 DEF i2c_master_writeByte, Ready
    <2> QED  BY <1>4, <2>1, AtRest, WriteCall DEF I2cInv
<1>5. CASE i2c_master_checkAck
    <2>1. todo = <<>>
        BY <1>5 DEF i2c_master_checkAck, Ready
    <2> QED  BY <1>5, <2>1, AtRest, CheckCall DEF I2cInv
<1>6. CASE i2c_master_readByte
    <2>1. todo = <<>>
        BY <1>6 DEF i2c_master_readByte, Ready
    <2> QED  BY <1>6, <2>1, AtRest, ReadCall DEF I2cInv
<1>7. ASSUME NEW level \in {0, 1}, i2c_master_send_ack(level)
      PROVE  I2cInv'
    <2>1. todo = <<>>
        BY <1>7 DEF i2c_master_send_ack, Ready
    <2> QED  BY <1>7, <2>1, AtRest, AnswerCall DEF I2cInv
<1>8. CASE UNCHANGED i2cVars
    <2>1. /\ m_nLastSDA' = m_nLastSDA /\ m_nLastSCL' = m_nLastSCL /\ sda' = sda /\ scl' = scl
          /\ todo' = todo /\ call' = call /\ retVal' = retVal /\ phase' = phase /\ slave' = slave
          /\ heard' = heard /\ cut' = cut
        BY <1>8 DEF i2cVars
    <2>2. Wires' /\ Records'
        BY ONLY I2cInv, <2>1 DEF I2cInv, Wires, Records, SlaveOK
    <2>3. /\ \A program, size : Runs(program, size) => Runs(program, size)'
          /\ \A size, a, c : From(size, a, c) => From(size, a, c)'
        BY ONLY <2>1, Zenon DEF Runs, From
    <2>4. Clearing => Clearing'
        BY ONLY <2>1, <2>3, Zenon DEF Clearing
    <2>5. Starting => Starting'
        BY ONLY <2>1, <2>3, Zenon DEF Starting
    <2>6. Stopping => Stopping'
        BY ONLY <2>1, <2>3, Zenon DEF Stopping
    <2>7. Sending => Sending'
        BY ONLY <2>1, <2>3, Zenon DEF Sending
    <2>8. Asking => Asking'
        BY ONLY <2>1, <2>3, Zenon DEF Asking
    <2>9. Reading => Reading'
        BY ONLY <2>1, <2>3, Zenon DEF Reading
    <2>10. Answering => Answering'
        BY ONLY <2>1, <2>3, Zenon DEF Answering
    <2> QED  BY ONLY I2cInv, <2>2, <2>4, <2>5, <2>6, <2>7, <2>8, <2>9, <2>10, Zenon DEF I2cInv
<1> QED
    BY <1>1, <1>2, <1>3, <1>4, <1>5, <1>6, <1>7, <1>8 DEF I2cNext

LEMMA KindTypes ==
    ASSUME I2cAssumption, I2cInv
    PROVE  todo \in Seq(Settings) /\ Len(retVal) <= Bits /\ phase \in Phases
<1>0. Bits \in Nat \ {0} /\ Len(<<>>) = 0
    BY BitsType
<1>1. CASE Clearing
    BY <1>0, <1>1 DEF Clearing, Runs, Phases
<1>2. CASE Starting
    BY <1>0, <1>2 DEF Starting, Runs, Phases
<1>3. CASE Stopping
    BY <1>0, <1>3 DEF Stopping, Runs, Phases
<1>4. CASE Sending
    <2>1. phase \in {"sent read", "sent write"} /\ retVal = <<>>
        BY ONLY <1>4, Zenon DEF Sending
    <2>2. PICK w \in Words, x \in {0, 1} : Runs(SendProgram(w, x), 3 * Bits + 1)
        BY ONLY <1>4, Zenon DEF Sending
    <2>3. todo \in Seq(Settings)
        BY ONLY <2>2 DEF Runs
    <2>4. 0 <= Bits
        BY ONLY <1>0
    <2>5. Len(retVal) <= Bits
        BY ONLY <1>0, <2>1, <2>4, Zenon
    <2>6. phase \in Phases
        BY ONLY <2>1 DEF Phases
    <2> QED  BY ONLY <2>3, <2>5, <2>6
<1>5. CASE Asking
    <2>1. phase \in {"got read", "got write"} /\ todo \in Seq(Settings)
        BY <1>5 DEF Asking, Runs
    <2>2. retVal = <<>> \/ retVal = << 0 >> \/ retVal = << 1 >>
        BY ONLY <1>5, Zenon DEF Asking
    <2>3. Len(<< 0 >>) = 1 /\ Len(<< 1 >>) = 1 /\ 0 <= Bits /\ 1 <= Bits
        BY <1>0
    <2>4. Len(retVal) <= Bits
        BY ONLY <1>0, <2>2, <2>3, Zenon
    <2> QED  BY ONLY <2>1, <2>4 DEF Phases
<1>6. CASE Reading
    <2>1. todo \in Seq(Settings) /\ Len(todo) \in 0..(2 * Bits + 2) /\ Len(retVal) = Got(Len(todo)) /\ phase = "answer"
        BY <1>6 DEF Reading, Runs
    <2>2. Got(Len(todo)) <= Bits
        BY ONLY <1>0, <2>1 DEF Got
    <2> QED  BY ONLY <2>1, <2>2 DEF Phases
<1>7. CASE Answering
    <2>1. PICK level \in {0, 1} : phase = (IF level = 0 THEN "read" ELSE "stop")
        BY <1>7 DEF Answering
    <2>2. todo \in Seq(Settings) /\ retVal = <<>>
        BY <1>7 DEF Answering, Runs
    <2> QED  BY ONLY <1>0, <2>1, <2>2 DEF Phases
<1> QED
    BY <1>1, <1>2, <1>3, <1>4, <1>5, <1>6, <1>7 DEF I2cInv

LEMMA I2cTyped ==
    ASSUME I2cAssumption, I2cInv
    PROVE  I2cTypeOK
<1>1. todo \in Seq({0, 1} \X {0, 1} \X BOOLEAN) /\ Len(retVal) <= Bits /\ phase \in Phases
    BY KindTypes DEF Settings
<1>2. /\ m_nLastSDA \in {0, 1} /\ m_nLastSCL \in {0, 1} /\ sda \in {0, 1} /\ scl \in {0, 1}
      /\ cut \in BOOLEAN /\ retVal \in Seq({0, 1})
      /\ slave \in [mode : Modes, byte : Seq({0, 1}), pull : {0, 1}, n : 0..Bits] /\ Len(slave.byte) <= Bits
    BY DEF I2cInv, Wires, Records, SlaveOK
<1> QED
    BY ONLY <1>1, <1>2 DEF I2cTypeOK

LEMMA OneHeard ==
    ASSUME NEW a, NEW q, q = <<a>>
    PROVE  q[1] = a
    OBVIOUS

\* What the slave has heard of each call when it is over.
LEMMA I2cMeant ==
    ASSUME I2cAssumption, I2cInv
    PROVE  I2cUnderstood
<1> SUFFICES ASSUME todo = <<>>, ~cut
             PROVE  IF call = <<"init">> THEN slave = Free("idle") /\ Last(heard) = <<"stop">>
                    ELSE heard = <<Meant>>
    BY Zenon DEF I2cUnderstood
<1>0. Len(todo) = 0 /\ ~(Len(todo) > 1)
    OBVIOUS
<1>1. CASE Clearing
    <2>1. call = <<"init">> /\ slave = Free("idle") /\ Last(heard) = <<"stop">>
        BY ONLY <1>0, <1>1, ~cut DEF Clearing
    <2> QED  BY ONLY <2>1, Zenon
<1>c. ASSUME call[1] \in {"start", "stop", "byte", "check", "read", "answer"}
      PROVE  call # <<"init">>
    <2>1. CASE call = <<"init">>
        <3>1. call[1] = "init"
            BY ONLY <2>1, OneHeard
        <3> QED  BY ONLY <1>c, <3>1
    <2> QED  BY ONLY <2>1, Zenon
<1>m. ASSUME call[1] \in {"start", "stop", "byte", "answer"}, heard = <<call>>
      PROVE  call # <<"init">> /\ heard = <<Meant>>
    <2>1. call[1] # "check" /\ call[1] # "read"
        BY ONLY <1>m
    <2> QED  BY ONLY <1>c, <1>m, <2>1, Zenon DEF Meant
<1>2. CASE Starting
    <2>1. call = <<"start">> /\ heard = <<call>>
        BY ONLY <1>2, todo = <<>>, ~cut, Zenon DEF Starting
    <2>2. call[1] \in {"start", "stop", "byte", "answer"}
        BY ONLY <2>1
    <2> QED  BY ONLY <1>m, <2>1, <2>2, Zenon
<1>3. CASE Stopping
    <2>1. call = <<"stop">> /\ heard = <<call>>
        BY ONLY <1>3, todo = <<>>, ~cut, Zenon DEF Stopping
    <2>2. call[1] \in {"start", "stop", "byte", "answer"}
        BY ONLY <2>1
    <2> QED  BY ONLY <1>m, <2>1, <2>2, Zenon
<1>4. CASE Sending
    <2>1. PICK w \in Words : call = <<"byte", w>> /\ heard = <<call>>
        BY ONLY <1>4, todo = <<>>, ~cut, Zenon DEF Sending
    <2>2. call[1] \in {"start", "stop", "byte", "answer"}
        BY ONLY <2>1
    <2> QED  BY ONLY <1>m, <2>1, <2>2, Zenon
<1>5. CASE Asking
    <2>1. call = <<"check">> /\ heard = <<<<"acks", retVal[1]>>>>
        BY ONLY <1>5, todo = <<>>, ~cut, Zenon DEF Asking
    <2>2. call[1] = "check"
        BY ONLY <2>1, OneHeard
    <2>3. call[1] \in {"start", "stop", "byte", "check", "read", "answer"}
        BY ONLY <2>2
    <2> QED  BY ONLY <1>c, <2>1, <2>2, <2>3, Zenon DEF Meant
<1>6. CASE Reading
    <2>1. call = <<"read">> /\ heard = <<<<"given", retVal>>>>
        BY ONLY <1>6, todo = <<>>, ~cut, Zenon DEF Reading
    <2>2. call[1] = "read" /\ call[1] # "check"
        BY ONLY <2>1
    <2>3. call[1] \in {"start", "stop", "byte", "check", "read", "answer"}
        BY ONLY <2>2
    <2> QED  BY ONLY <1>c, <2>1, <2>2, <2>3, Zenon DEF Meant
<1>7. CASE Answering
    <2>1. PICK level \in {0, 1} : call = <<"answer", level>> /\ heard = <<call>>
        BY ONLY <1>0, <1>7, ~cut, Zenon DEF Answering
    <2>2. call[1] \in {"start", "stop", "byte", "answer"}
        BY ONLY <2>1
    <2> QED  BY ONLY <1>m, <2>1, <2>2, Zenon
<1> QED
    BY <1>1, <1>2, <1>3, <1>4, <1>5, <1>6, <1>7 DEF I2cInv

\* In every state the call that runs is at its place among its settings, and the
\* slave where these have brought it.
THEOREM I2cInvHolds == ASSUME I2cAssumption, I2cClocks PROVE I2cSpec => []I2cInv
<1>1. I2cInit => I2cInv
    BY I2cStarts
<1>2. I2cInv /\ [I2cNext]_i2cVars => I2cInv'
    BY I2cSteps
<1> QED
    BY <1>1, <1>2, PTL DEF I2cSpec

\* The wires, the call and the slave have their types.
THEOREM I2cTypes == ASSUME I2cAssumption, I2cClocks PROVE I2cSpec => []I2cTypeOK
<1>1. I2cInv => I2cTypeOK
    BY I2cTyped
<1> QED
    BY <1>1, I2cInvHolds, PTL

\* Master and slave understand each other, whatever the width of a byte, the
\* bytes and the state in which a reset left the slave: i2c_master_init frees
\* the bus, and the slave hears of every call that call and nothing else.
THEOREM I2cUnderstoodHolds == ASSUME I2cAssumption, I2cClocks PROVE I2cSpec => []I2cUnderstood
<1>1. I2cInv => I2cUnderstood
    BY I2cMeant
<1> QED
    BY <1>1, I2cInvHolds, PTL
====
