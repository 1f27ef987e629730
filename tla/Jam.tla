--------------------------------- MODULE Jam --------------------------------
(***************************************************************************)
(* The boot feed (src/src/urb/boot.rs): a noun is jammed -- written as one *)
(* atom, with a back-reference for what was written before -- and the atom *)
(* spelled in base 64.  The recursion of encode is a stack of places still *)
(* to be written; one step writes the noun at the top one.  Cue and ReadUw *)
(* are how the Urbit runtime reads the result.                             *)
(*   A noun is its atoms, each at its place: the branches that lead to it  *)
(* from the root, 0 to the head of a cell and 1 to its tail.               *)
(***************************************************************************)
EXTENDS Bits

CONSTANTS
    DigitBits,  \* bits of a digit (6)
    GroupLen    \* digits between dots (5)

ASSUME JamAssumption ==
    /\ DigitBits \in Nat \ {0}
    /\ GroupLen \in Nat \ {0}

VARIABLES
    noun,  \* what is jammed
    todo,  \* the places in it still to be written, the next one first
    out,   \* the stream
    refs   \* where in the stream each noun was first written, by its key

jamVars == <<noun, todo, out, refs>>

Atom(le) == [p \in {<<>>} |-> le]
Cell(x, y) ==
    [p \in {<<0>> \o q : q \in DOMAIN x} \cup {<<1>> \o q : q \in DOMAIN y} |->
        IF p[1] = 0 THEN x[Tail(p)] ELSE y[Tail(p)]]

\* What the enum can hold: no place below an atom, both parts of a cell, and a
\* deepest atom.
IsNoun(n) ==
    /\ \A p \in DOMAIN n : p \in Seq(Bit) /\ n[p] \in Seq(Bit)
    /\ \A p, q \in DOMAIN n : IsPrefix(p, q) => p = q
    /\ \A p \in DOMAIN n : \A i \in DOMAIN p :
         \E q \in DOMAIN n : IsPrefix(Append(SubSeq(p, 1, i - 1), 1 - p[i]), q)
    /\ \E p \in DOMAIN n : \A q \in DOMAIN n : Len(q) <= Len(p)

Below(n, p) == {q \in DOMAIN n : IsPrefix(p, q)}
Rest(p, q) == SubSeq(q, Len(p) + 1, Len(q))

\* key: a noun, or the part of it at a place, by value.
KeyAt(n, p) == {<<Rest(p, q), Trim(n[q])>> : q \in Below(n, p)}
Key(n) == KeyAt(n, <<>>)

StartJam(n) ==
    /\ noun' = n
    /\ todo' = << <<>> >>
    /\ out' = <<>>
    /\ refs' = <<>>

Jammed == todo = <<>>

-----------------------------------------------------------------------------
(* encode, one noun at a time. *)

ThisKey(p) == KeyAt(noun, p)
IsCell(p) == p \notin DOMAIN noun
Known(p) == ThisKey(p) \in DOMAIN refs

With(f, x, v) == [y \in DOMAIN f \cup {x} |-> IF y = x THEN v ELSE f[y]]

\* A bug: the place after the tag is remembered.
RememberLate(p) == refs' = With(refs, ThisKey(p), Len(out) + 1)

Remember(p) == refs' = With(refs, ThisKey(p), Len(out))

Pointer(p) == <<1, 1>> \o MatNat(refs[ThisKey(p)])

\* Whether the pointer is longer than the atom.
PlainIsShorter(p) ==
    LET e == refs[ThisKey(p)]
    IN  SigBits(noun[p]) <= (IF e = 0 THEN 1 ELSE BitLength(e))

Write(bits, rest) ==
    /\ out' = out \o bits
    /\ todo' = rest
    /\ UNCHANGED noun

NewCell(p) ==
    /\ IsCell(p) /\ ~Known(p)
    /\ Write(<<1, 0>>, <<Append(p, 0), Append(p, 1)>> \o Tail(todo))
    /\ Remember(p)

KnownCell(p) ==
    /\ IsCell(p) /\ Known(p)
    /\ Write(Pointer(p), Tail(todo))
    /\ UNCHANGED refs

NewAtom(p) ==
    /\ ~IsCell(p) /\ ~Known(p)
    /\ Write(<<0>> \o Mat(noun[p]), Tail(todo))
    /\ Remember(p)

ShortAtom(p) ==
    /\ ~IsCell(p) /\ Known(p) /\ PlainIsShorter(p)
    /\ Write(<<0>> \o Mat(noun[p]), Tail(todo))
    /\ UNCHANGED refs

LongAtom(p) ==
    /\ ~IsCell(p) /\ Known(p) /\ ~PlainIsShorter(p)
    /\ Write(Pointer(p), Tail(todo))
    /\ UNCHANGED refs

Encode ==
    /\ ~Jammed
    /\ LET p == Head(todo) IN
         \/ NewCell(p)
         \/ KnownCell(p)
         \/ NewAtom(p)
         \/ ShortAtom(p)
         \/ LongAtom(p)

-----------------------------------------------------------------------------
(* atom_to_uw: the digits, each by its bits, a dot before every GroupLen-th   *)
(* from the right.                                                            *)

Dot == <<>>

Uw(le) ==
    LET digits  == Max({1, (SigBits(le) + DigitBits - 1) \div DigitBits})
        length  == digits + (digits - 1) \div GroupLen
        char(r) == IF r % (GroupLen + 1) = 0 THEN Dot
                   ELSE Cut(le, (r - r \div (GroupLen + 1) - 1) * DigitBits + 1, DigitBits)
    IN  [i \in 1..length |-> char(length + 1 - i)]

-----------------------------------------------------------------------------
(* The runtime. *)

\* ++cue: where it reads, the places it has still to fill, the atoms it has filled
\* in, and which place it was filling at each index of the stream.
CueStart == [at |-> 1, todo |-> << <<>> >>, atoms |-> {}, seen |-> {}]

\* No atom: what a pointer to nothing, or to a cell that is not read yet, stands for.
Broken == <<2>>

\* What is filled in at one place, moved to another.
Copied(atoms, from, to) ==
    {<<to \o Rest(from, a[1]), a[2]>> : a \in {a \in atoms : IsPrefix(from, a[1])}}

CueAtom(stream, s) ==
    LET a == Rub(stream, s.at + 1) IN
    [at    |-> a.next,
     todo  |-> Tail(s.todo),
     atoms |-> s.atoms \cup {<<Head(s.todo), a.atom>>},
     seen  |-> s.seen \cup {<<s.at - 1, Head(s.todo)>>}]

CueCell(s) ==
    LET p == Head(s.todo) IN
    [at    |-> s.at + 2,
     todo  |-> <<Append(p, 0), Append(p, 1)>> \o Tail(s.todo),
     atoms |-> s.atoms,
     seen  |-> s.seen \cup {<<s.at - 1, p>>}]

\* What was read from an index on, if all of it was.
ReadAt(s, index) ==
    {p[2] : p \in {p \in s.seen :
        p[1] = index /\ \A k \in DOMAIN s.todo : ~IsPrefix(p[2], s.todo[k])}}

CuePointer(stream, s) ==
    LET index == Rub(stream, s.at + 2)
        from  == ReadAt(s, NatOf(index.atom))
        p     == Head(s.todo)
    IN
    [at    |-> index.next,
     todo  |-> Tail(s.todo),
     atoms |-> s.atoms \cup (IF from = {} THEN {<<p, Broken>>}
                             ELSE UNION {Copied(s.atoms, q, p) : q \in from}),
     seen  |-> s.seen]

CueNext(stream, s) ==
    IF s.todo = <<>> THEN s
    ELSE IF BitAt(stream, s.at) = 0 THEN CueAtom(stream, s)
    ELSE IF BitAt(stream, s.at + 1) = 0 THEN CueCell(s)
    ELSE CuePointer(stream, s)

\* The reader after every number of nouns.
CueRun(stream) ==
    LET run[i \in Nat] == IF i = 0 THEN CueStart ELSE CueNext(stream, run[i - 1]) IN run

\* What it has read when nothing is left to fill; no noun takes less than two bits.
Cue(stream) ==
    LET run  == CueRun(stream)
        last == CHOOSE i \in 0..(Len(stream) \div 2) : run[i].todo = <<>>
    IN  IF \E i \in 0..(Len(stream) \div 2) : run[i].todo = <<>> THEN run[last].atoms ELSE {}

AtomAt(key, p) == (CHOOSE a \in key : a[1] = p)[2]

\* The atom a @uw text stands for; a text with a dot out of place stands for none.
Zero == [i \in 1..DigitBits |-> 0]

UwParses(text) ==
    /\ text # <<>> /\ text[1] # Dot
    /\ text[1] = Zero => Len(text) = 1
    /\ \A i \in DOMAIN text :
         (text[i] = Dot) <=> (Len(text) + 1 - i) % (GroupLen + 1) = 0

ReadUw(text) ==
    LET digits   == Len(text) - Len(text) \div (GroupLen + 1)
        digit(d) == text[Len(text) + 1 - (d + (d - 1) \div GroupLen)]
    IN  [i \in 1..(digits * DigitBits) |->
            digit((i - 1) \div DigitBits + 1)[((i - 1) % DigitBits) + 1]]
=============================================================================
