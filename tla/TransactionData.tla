--------------------------- MODULE TransactionData ---------------------------
(***************************************************************************)
(* Editing the commands of a transaction while intents are resolved        *)
(* (packages/myso/src/transactions/TransactionData.ts and                  *)
(* intents/CoinWithBalance.ts).  Commands refer to results of others by    *)
(* index, so replacing or inserting commands renumbers every reference.    *)
(* A reference is the position `at' (from 1) of a command and the element  *)
(* of its results, Whole for a Result; `means' is what it was made for.    *)
(***************************************************************************)
EXTENDS Integers, Sequences, FiniteSets

CONSTANTS MaxLength,   \* bound: commands of the transaction at the start
          MaxBlock,    \* bound: commands that replace or are inserted at once
          MaxEdits     \* bound: edits

ASSUME BoundsAssumption == MaxLength \in Nat /\ MaxBlock \in Nat /\ MaxEdits \in Nat

VARIABLES program, \* TransactionDataBuilder.commands: Seq of [id, args]
          created, \* commands ever made, each has its own id
          edits    \* edits so far

data == <<program, created, edits>>

Whole == -1                     \* Result, and not NestedResult
Elements == {Whole, 0, 1}
Lost == [id |-> 0, element |-> Whole]   \* what no result is

\* Sequences of new commands that begin at position `first' of cs: each uses at
\* most one result, of an earlier command of the block or one at a position of
\* `scope'.  A block in front of the transaction itself starts from nothing.
Id(cs, block, first, p) == IF p < first THEN cs[p].id ELSE block[p - first + 1]
Use(id, p, e) == [at |-> p, element |-> e, means |-> [id |-> id, element |-> e]]
Blocks(cs, first, n, scope) ==
    LET ids == [k \in 1 .. n |-> created + k]
        Uses(k) == {{}} \cup {{Use(Id(cs, ids, first, p), p, e)} :
                              p \in scope \cup first .. (first + k - 2), e \in Elements}
        Args == [1 .. n -> UNION {Uses(k) : k \in 1 .. n}]
    IN {[k \in 1 .. n |-> [id |-> ids[k], args |-> a[k]]] :
        a \in {b \in Args : \A k \in 1 .. n : b[k] \in Uses(k)}}

DataInit ==
    /\ created = MaxLength
    /\ edits = 0
    /\ program \in {[k \in 1 .. MaxLength |-> [c[k] EXCEPT !.id = @ - MaxLength,
                        !.args = {[r EXCEPT !.means.id = @ - MaxLength] : r \in c[k].args}]] :
                     c \in Blocks(<<>>, 1, MaxLength, {})}

-----------------------------------------------------------------------------
\* mapArguments over the commands outside the positions from..to
MapArguments(cs, from, to, Fn(_)) ==
    [p \in DOMAIN cs |-> IF p \in from .. to THEN cs[p]
                         ELSE [cs[p] EXCEPT !.args = {Fn(r) : r \in @}]]

Splice(cs, index, removed, block) ==
    SubSeq(cs, 1, index - 1) \o block \o SubSeq(cs, index + removed, Len(cs))

Shift(r, by) == [r EXCEPT !.at = @ + by]
References(cs, index) == UNION {{r \in cs[p].args : r.at = index} : p \in DOMAIN cs}

\* replaceCommand(index, block) with the result index left at its default: what
\* referred to the command refers to what stands in its place.
Replaced(cs, index, block) ==
    LET new == Splice(cs, index, 1, block)
    IN MapArguments(new, 1, index + Len(block) - 1,
           LAMBDA r : IF r.at > index THEN Shift(r, Len(block) - 1) ELSE r)

\* replaceCommand(index, block, {Result} or {NestedResult}): a Result or a first
\* element of the command becomes exactly that reference.
ReplacedBy(cs, index, block, at, element) ==
    LET new == Splice(cs, index, 1, block)
    IN MapArguments(new, 1, index + Len(block) - 1,
           LAMBDA r : CASE r.at = index -> [r EXCEPT !.at = at, !.element = element]
                        [] r.at > index -> Shift(r, Len(block) - 1)
                        [] OTHER -> r)

\* Mutant: only the references behind the insertion are moved.
InsertedBehind(cs, index, block) ==
    MapArguments(Splice(cs, index, 0, block), index, index + Len(block) - 1,
        LAMBDA r : IF r.at > index THEN Shift(r, Len(block)) ELSE r)

\* insertTransaction: the other transaction's references, already moved to their
\* new place, are left alone.
Inserted(cs, index, block) ==
    MapArguments(Splice(cs, index, 0, block), index, index + Len(block) - 1,
        LAMBDA r : IF r.at >= index THEN Shift(r, Len(block)) ELSE r)

\* What was made for results of command `from' is meant for `to' from now on.
Retarget(cs, from, to(_)) ==
    MapArguments(cs, 0, 0,
        LAMBDA r : IF r.means.id = from THEN [r EXCEPT !.means = to(r.means)] ELSE r)

-----------------------------------------------------------------------------
Edit(new, n) ==
    /\ edits' = edits + 1
    /\ created' = created + n
    /\ program' = new

\* A command takes the place of one intent, results and all.
ReplaceOne(index) ==
    \E block \in Blocks(program, index, 1, 1 .. (index - 1)) :
        LET new == [program EXCEPT ![index] = block[1]]
        IN Edit(Retarget(new, program[index].id,
                         LAMBDA m : [m EXCEPT !.id = block[1].id]), 1)

\* An intent without results is replaced by any number of commands, or by none.
ReplaceUnused(index, n) ==
    /\ References(program, index) = {}
    /\ \E block \in Blocks(program, index, n, 1 .. (index - 1)) :
           Edit(Replaced(program, index, block), n)

\* replaceCommand throws if a further element of the command is referred to.
FirstOnly(cs, index) == \A r \in References(cs, index) : r.element \in {Whole, 0}

\* An intent is replaced by commands, its result, which is in use, by one of theirs.
ReplaceWithResult(index, n, k, element) ==
    /\ FirstOnly(program, index) /\ References(program, index) # {}
    /\ \E block \in Blocks(program, index, n, 1 .. (index - 1)) :
           Edit(Retarget(ReplacedBy(program, index, block, index + k - 1, element),
                         program[index].id,
                         LAMBDA m : [id |-> block[k].id, element |-> element]), n)

\* insertTransaction
InsertTransaction(index, n) ==
    \E block \in Blocks(program, index, n, {}) : Edit(Inserted(program, index, block), n)

\* replaceCommandWithTransaction(index, other, result): the other transaction goes in
\* front of the intent, which is then replaced by nothing; a whole result becomes
\* its first element.
ReplaceWithTransaction(index, n, k, element) ==
    /\ FirstOnly(program, index)
    /\ \E block \in Blocks(program, index, n, {}) :
           LET first == IF element = Whole THEN 0 ELSE element
               inserted == Inserted(program, index, block)
           IN Edit(Retarget(ReplacedBy(inserted, index + n, <<>>, index + k - 1, first),
                            program[index].id,
                            LAMBDA m : [id |-> block[k].id, element |-> first]), n)

\* The coin of an intent in the split that yields it: for a whole result, and for its
\* element 0 when the split is all that takes its place.  Other elements are lost.
CoinMeant(m, split, n) == IF m.element = Whole \/ (m.element = 0 /\ n = 1)
                     THEN [id |-> split, element |-> 0] ELSE Lost

\* The split that yields the coin is the last command of the replacement.
LastOfBlock(index, n) == index + n - 1

\* resolveCoinBalance: an intent gives way to redeem, merge and split commands, and its
\* whole result becomes the first coin of the split, the last of them.  A reference to
\* an element of the intent stays where it is, at the first of the commands.
ResolveCoin(index, n) ==
    \E block \in Blocks(program, index, n, 1 .. (index - 1)) :
        LET new == Replaced(program, index, block)
            moved == MapArguments(new, index, index + n - 1,
                         LAMBDA r : IF r.at = index /\ r.element = Whole
                                    THEN [r EXCEPT !.at = LastOfBlock(index, n), !.element = 0]
                                    ELSE r)
        IN Edit(Retarget(moved, program[index].id, LAMBDA m : CoinMeant(m, block[n].id, n)), n)

ResolveIntent(index) ==
    \/ ReplaceOne(index)
    \/ \E n \in 0 .. MaxBlock : ReplaceUnused(index, n)
    \/ \E n \in 1 .. MaxBlock : ResolveCoin(index, n)
    \/ \E n \in 1 .. MaxBlock, e \in Elements : \E k \in 1 .. n :
           ReplaceWithResult(index, n, k, e) \/ ReplaceWithTransaction(index, n, k, e)

DataNext ==
    /\ edits < MaxEdits
    /\ \/ \E index \in DOMAIN program : ResolveIntent(index)
       \/ \E index \in 1 .. (Len(program) + 1), n \in 1 .. MaxBlock : InsertTransaction(index, n)

DataSpec == DataInit /\ [][DataNext]_data

-----------------------------------------------------------------------------
\* After any edits every reference is to an earlier command of the transaction, and to
\* the result it was made for or the one that has taken its place.  Only a reference to
\* an element of a coin intent has none, unless it is element 0 and one command took its place.
ReferencesKeepTheirMeaning ==
    \A p \in DOMAIN program : \A r \in program[p].args :
        /\ r.at \in 1 .. (p - 1)
        /\ r.means \in {Lost, [id |-> program[r.at].id, element |-> r.element]}
=============================================================================
