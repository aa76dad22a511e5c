---- MODULE IksStack ----
(***************************************************************************)
(* ec/jabber/ikstack.c: the object stack that holds a tree.  Two chains of *)
(* chunks, one for structs and one for strings, from which blocks are cut  *)
(* and never given back alone.  A string that grows stays where it is if   *)
(* it is the last one of its chunk and there is room; else it moves.       *)
(*                                                                         *)
(* A byte is the number of the call that wrote it, or End.  Callers write  *)
(* the structs they are given.  An allocation that fails leaves the stack  *)
(* as it was, and does not appear here.                                    *)
(***************************************************************************)
EXTENDS Integers, Sequences, SequencesExt, FiniteSetsExt

CONSTANTS
    DEFAULT_ALIGNMENT,      \* a power of 2
    ChunkSizes,             \* what iks_stack_new may be asked for
    Sizes,                  \* of structs
    Lengths,                \* of strings
    MaxCalls                \* bound: calls on a stack

ASSUME StackAssumption ==
    /\ DEFAULT_ALIGNMENT \in {2, 4, 8} /\ MaxCalls \in Nat
    /\ ChunkSizes \union Sizes \union Lengths \subseteq Nat

VARIABLES
    chains,                 \* of "meta" and "data", the chunks, or none before
                            \* iks_stack_new and after iks_stack_delete
    allocated,              \* s->allocated
    calls,                  \* number of calls so far
    blocks                  \* history: what callers hold, and what they wrote there

stackVars == <<chains, allocated, calls, blocks>>

End  == 0                   \* the zero at the end of a string
Junk == -1

NoLast == -1

SIZEOF_CHUNK == 20
SIZEOF_STACK == 12

MIN_CHUNK_SIZE == DEFAULT_ALIGNMENT * 8
MIN_ALLOC_SIZE == DEFAULT_ALIGNMENT

ALIGN(x) == x + (DEFAULT_ALIGNMENT - (x % DEFAULT_ALIGNMENT))

Aligned(x) == IF x % DEFAULT_ALIGNMENT = 0 THEN x ELSE ALIGN(x)

AtLeast(n, x) == IF x < n THEN n ELSE x

\* A chunk; last is counted from 0, like used.
Chunk(size) == [size |-> size, used |-> 0, last |-> NoLast, data |-> [i \in 1 .. size |-> Junk]]

Open == chains # <<>>

StackInit == chains = <<>> /\ allocated = 0 /\ calls = 0 /\ blocks = {}

iks_stack_new ==
    /\ ~Open
    /\ \E m, d \in ChunkSizes :
          LET meta == Aligned(AtLeast(MIN_CHUNK_SIZE, m))
              data == Aligned(AtLeast(MIN_CHUNK_SIZE, d))
          IN  /\ chains' = [meta |-> <<Chunk(meta)>>, data |-> <<Chunk(data)>>]
              /\ allocated' = SIZEOF_STACK + meta + data + 2 * SIZEOF_CHUNK
    /\ calls' = 0 /\ blocks' = {}

\* The chain with room for size bytes in the chunk at: the first one that has
\* them, or a new one at the end.
find_space(chain, size) ==
    LET fits == {i \in DOMAIN chain : chain[i].size - chain[i].used >= size}
        new  == Chunk(AtLeast(size, 2 * Last(chain).size))
    IN  IF fits # {} THEN [chain |-> chain, at |-> Min(fits)]
        ELSE [chain |-> Append(chain, new), at |-> Len(chain) + 1]

\* The next size bytes of the chunk at are used, bytes written at their start.
Cut(chain, at, bytes, size) ==
    LET c == chain[at]
    IN  [chain EXCEPT ![at] = [c EXCEPT
            !.used = @ + size,
            !.data = [i \in 1 .. c.size |->
                        IF i - c.used \in DOMAIN bytes THEN bytes[i - c.used] ELSE @[i]]]]

WithLast(chain, at, last) == [chain EXCEPT ![at].last = last]

\* What the callers see after a call on a chain: a block is a place and the
\* bytes that were written there.
Block(name, at, from, bytes) == [chain |-> name, at |-> at, from |-> from, bytes |-> bytes]

Called(name, chain, gone, block) ==
    /\ chains' = [chains EXCEPT ![name] = chain]
    /\ allocated' = allocated
          + (IF Len(chain) > Len(chains[name]) THEN SIZEOF_CHUNK + Last(chain).size ELSE 0)
    /\ calls' = calls + 1
    /\ blocks' = (blocks \ gone) \union {block}

Bytes(n) == [i \in 1 .. n |-> calls + 1]

iks_stack_alloc(wanted) ==
    LET size  == Aligned(AtLeast(MIN_ALLOC_SIZE, wanted))
        found == find_space(chains.meta, size)
        from  == found.chain[found.at].used
    IN  Called("meta", Cut(found.chain, found.at, Bytes(size), size), {},
               Block("meta", found.at, from, Bytes(size)))

\* A string of the chain data at a new place, instead of the blocks gone.
Placed(string, gone) ==
    LET found == find_space(chains.data, Len(string) + 1)
        from  == found.chain[found.at].used
        bytes == Append(string, End)
    IN  Called("data", WithLast(Cut(found.chain, found.at, bytes, Len(bytes)), found.at, from),
               gone, Block("data", found.at, from, bytes))

iks_stack_strdup(len) == Placed(Bytes(len), {})

\* Slip: nothing is kept free for the zero of a string that grows in its place.
RoomFor_NoEnd(c, len) == c.size - c.used >= len - 1

RoomFor(c, len) == c.size - c.used > len

\* old is a string of the stack; a chunk knows its last string by its address.
iks_stack_strcat(old, len) ==
    LET c      == chains.data[old.at]
        string == Front(old.bytes) \o Bytes(len)
        bytes  == Append(string, End)
        grown  == [i \in 1 .. c.size |->
                     IF i - c.last \in DOMAIN bytes THEN bytes[i - c.last] ELSE c.data[i]]
    IN  IF c.last = old.from /\ RoomFor(c, len)
        THEN Called("data",
                 [chains.data EXCEPT ![old.at] = [c EXCEPT !.used = @ + len, !.data = grown]],
                 {old}, Block("data", old.at, old.from, bytes))
        ELSE Placed(string, {old})

\* Every chunk is freed, and with them what the callers held.
iks_stack_delete ==
    /\ Open
    /\ chains' = <<>> /\ allocated' = 0 /\ blocks' = {} /\ calls' = 0

Call ==
    /\ Open /\ calls < MaxCalls
    /\ \/ \E n \in Sizes : iks_stack_alloc(n)
       \/ \E n \in Lengths : iks_stack_strdup(n)
       \/ \E b \in blocks, n \in Lengths : b.chain = "data" /\ iks_stack_strcat(b, n)

StackNext == iks_stack_new \/ Call \/ iks_stack_delete

StackSpec == StackInit /\ [][StackNext]_stackVars

\* A loop of iks_stack_stat over the used bytes of a chain.
Total(numbers) ==
    LET UpTo[i \in 0 .. Len(numbers)] == IF i = 0 THEN 0 ELSE UpTo[i - 1] + numbers[i]
    IN  UpTo[Len(numbers)]

iks_stack_stat ==
    LET used(chain) == Total([i \in DOMAIN chain |-> chain[i].used])
    IN  [allocated |-> allocated, used |-> used(chains.meta) + used(chains.data)]

---------------------------------------------------------------------------
(* Properties.                                                             *)

\* The ranges of the variables; a closed stack has nothing.
StackTypeOK ==
    /\ calls \in 0 .. MaxCalls
    /\ Open => /\ \A name \in {"meta", "data"} :
                     /\ chains[name] # <<>>
                     /\ chains[name] \in Seq([size : Nat, used : Nat, last : Int, data : Seq(Int)])
               /\ DOMAIN chains = {"meta", "data"}
               /\ allocated \in Nat
               /\ blocks \subseteq [chain : {"meta", "data"}, at : Nat, from : Nat,
                                    bytes : Seq(Int)]
    /\ ~Open => allocated = 0 /\ blocks = {}

\* Every block the callers hold lies inside its chunk and still has the bytes
\* they wrote: no block reaches into another, whether strings were copied, grew
\* in place or moved.  The chunk knows of no more used bytes than it has.
BlocksKeepTheirBytes ==
    Open =>
        /\ \A name \in {"meta", "data"} : \A i \in DOMAIN chains[name] :
              chains[name][i].used <= chains[name][i].size
        /\ \A b \in blocks :
              LET c == chains[b.chain][b.at]
              IN  b.from + Len(b.bytes) <= c.used
                  /\ \A i \in DOMAIN b.bytes : c.data[b.from + i] = b.bytes[i]
        /\ \A b \in blocks : b.chain = "meta" => b.from % DEFAULT_ALIGNMENT = 0
        /\ iks_stack_stat.used <= iks_stack_stat.allocated
====
