-------------------------- MODULE TransactionProofs --------------------------
(***************************************************************************)
(* What a transaction says, and what a wallet lets it spend.               *)
(*                                                                         *)
(* Edits of the commands of a transaction, for any length and any number *)
(* of edits: every reference is to the result it was made for, or to the   *)
(* one that has taken its place.                                           *)
(*                                                                         *)
(* Every edit removes at most one command and puts a block in its place.   *)
(* What is left keeps its id, and its references follow what they refer to *)
(* to its new position; a reference to the command that was removed is     *)
(* given to one of the block.  That this is so rests on the ids: no two    *)
(* commands have the same, and none has that of a command to come.         *)
(*                                                                         *)
(* Auto approvals, for any number of transactions and coin types: a budget *)
(* is what the user granted, less what is reserved for pending             *)
(* transactions, moved by what the ended ones changed.  A transaction that *)
(* ends gives back at least what it took, so none falls below 0.           *)
(*                                                                         *)
(* The outflow a wallet is told of, for any number of coins and commands:  *)
(* it covers what leaves the sender.  And the wallet a user chose, for any *)
(* wallets: it is what a reload brings back.                               *)
(***************************************************************************)
EXTENDS TransactionData, AutoApprovals, CoinFlows, WalletConnection, CollectionLemmas

Meaning == [id : Nat, element : Elements]
Reference == [at : Int, element : Elements, means : Meaning]
Command == [id : Nat, args : SUBSET Reference]

RightReference(cs, p, r) ==
  /\ r.at \in 1 .. (p - 1)
  /\ r.means \in {Lost, [id |-> cs[r.at].id, element |-> r.element]}

\* Commands that have ids of their own up to `top' and refer to what they mean.
Wired(cs, top) ==
  /\ cs \in Seq(Command)
  /\ \A p \in DOMAIN cs : cs[p].id \in 1 .. top
  /\ \A p, q \in DOMAIN cs : cs[p].id = cs[q].id => p = q
  /\ \A p \in DOMAIN cs : \A r \in cs[p].args : RightReference(cs, p, r)

DataInv ==
  /\ created \in Nat
  /\ Wired(program, created)

-----------------------------------------------------------------------------
\* The place of what stood at q once a block of n has come in at index, where as many
\* as `removed' commands have gone.
Place(index, n, removed, q) == IF q < index THEN q ELSE q + n - removed

\* What a reference has become: it follows the command, or it is to one that stands in
\* front of what was behind the command, of the block or before it.
Follows(new, index, n, removed, r, s) ==
  \/ /\ r.at # index \/ removed = 0
     /\ s = [at |-> Place(index, n, removed, r.at), element |-> r.element, means |-> r.means]
  \/ /\ r.at = index /\ removed = 1
     /\ s.at \in 1 .. (index + n - 1) /\ s \in Reference
     /\ s.means \in {Lost, [id |-> new[s.at].id, element |-> s.element]}

\* The commands that are left take places outside the block, in their order.
LEMMA PlacesKeepOrder ==
  ASSUME NEW n \in Nat, NEW removed \in {0, 1}, NEW index \in Nat \ {0},
         NEW q \in Nat \ {0}, q # index \/ removed = 0
  PROVE  /\ Place(index, n, removed, q) \in Nat \ {0}
         /\ q < index => Place(index, n, removed, q) < index
         /\ q >= index => Place(index, n, removed, q) >= index + n
         /\ \A r \in Nat \ {0} : r < q /\ (r # index \/ removed = 0) =>
              Place(index, n, removed, r) < Place(index, n, removed, q)
<1>1. CASE removed = 0
  BY <1>1 DEF Place
<1>2. CASE removed = 1
  BY <1>2 DEF Place
<1>. QED BY <1>1, <1>2

\* Up to the end of the block all is before what is behind it.
LEMMA BeforeWhatIsBehind ==
  ASSUME NEW n \in Nat, NEW index \in Nat \ {0}, NEW p \in Nat, p >= index + n,
         NEW at \in 1 .. (index + n - 1)
  PROVE  at \in 1 .. (p - 1)
OBVIOUS

\* Who has come to p, if p is not in the block.
Origin(index, n, removed, p) == IF p < index THEN p ELSE p - n + removed

IsProgram(new, size) ==
  new = [p \in 1 .. size |-> [id |-> new[p].id, args |-> new[p].args]]

NewOnes(new, top, index, n) ==
  \A p \in index .. (index + n - 1) :
    /\ new[p].id = top + (p - index + 1)
    /\ \A r \in new[p].args : r \in Reference /\ RightReference(new, p, r)

OthersFollow(new, cs, index, n, removed) ==
  \A q \in DOMAIN cs : q # index \/ removed = 0 =>
    /\ new[Place(index, n, removed, q)].id = cs[q].id
    /\ \A s \in new[Place(index, n, removed, q)].args :
         \E r \in cs[q].args : Follows(new, index, n, removed, r, s)

\* Whatever follows in this way and comes in with new ids is wired.
LEMMA EditsKeepWiring ==
  ASSUME NEW cs, NEW top \in Nat, Wired(cs, top), NEW n \in Nat, NEW removed \in {0, 1},
         NEW m \in Nat, m = Len(cs), NEW index \in 1 .. (m + 1 - removed),
         NEW new, IsProgram(new, m + n - removed),
         NewOnes(new, top, index, n), OthersFollow(new, cs, index, n, removed)
  PROVE  Wired(new, top + n)
<1>. USE DEF NewOnes, OthersFollow
<1>. DEFINE Block == index .. (index + n - 1)
            From(p) == Origin(index, n, removed, p)
<1>1. DOMAIN cs = 1 .. m /\ DOMAIN new = 1 .. (m + n - removed)
  <2>1. DOMAIN cs = 1 .. m
    BY DEF Wired
  <2>2. DOMAIN new = 1 .. (m + n - removed)
    BY DEF IsProgram
  <2>. QED BY <2>1, <2>2
<1>2. /\ DOMAIN cs = 1 .. m /\ DOMAIN new = 1 .. (m + n - removed)
      /\ index \in Nat \ {0}
  BY <1>1
<1>3. ASSUME NEW p \in DOMAIN new, p \notin Block
      PROVE  /\ From(p) \in 1 .. m /\ From(p) \in DOMAIN cs /\ From(p) \in Nat \ {0}
             /\ From(p) # index \/ removed = 0
             /\ Place(index, n, removed, From(p)) = p
  <2>1. /\ p \in 1 .. (m + n - removed) /\ (p < index \/ p >= index + n)
        /\ index <= m + 1 - removed /\ index \in Nat \ {0}
    BY <1>2, <1>3
  <2>2. /\ From(p) \in 1 .. m /\ (From(p) # index \/ removed = 0)
        /\ Place(index, n, removed, From(p)) = p
    <3>1. Origin(index, n, removed, p) \in 1 .. m
      <4>1. CASE p < index
        BY <2>1, <4>1 DEF Origin
      <4>2. CASE ~ (p < index)
        BY <2>1, <4>2 DEF Origin
      <4>. QED BY <4>1, <4>2
    <3>2. Origin(index, n, removed, p) # index \/ removed = 0
      BY <2>1 DEF Origin
    <3>3. Place(index, n, removed, Origin(index, n, removed, p)) = p
      BY <2>1 DEF Place, Origin
    <3>. QED BY <2>1, <3>1, <3>2, <3>3
  <2>. HIDE DEF From
  <2>. QED BY <1>2, <2>2
<1>. HIDE DEF From
<1>4. ASSUME NEW p \in DOMAIN new, p \notin Block
      PROVE  /\ new[p].id = cs[From(p)].id /\ new[p].id \in 1 .. top
             /\ \A s \in new[p].args :
                  \E r \in cs[From(p)].args : Follows(new, index, n, removed, r, s)
  BY <1>3, <1>4 DEF Wired
<1>5. \A p \in Block : p \in Nat /\ new[p].id = top + (p - index + 1) /\ new[p].id > top
  <2>. TAKE p \in Block
  <2>1. p \in Nat /\ p >= index /\ index \in Nat
    BY <1>2
  <2>2. new[p].id = top + (p - index + 1)
    OBVIOUS
  <2>. QED BY <2>1, <2>2
<1>6. ASSUME NEW p \in DOMAIN new
      PROVE  new[p].id \in 1 .. (top + n)
  <2>1. CASE p \in Block
    <3>1. PICK k \in 1 .. n : k = p - index + 1
      BY <1>2, <2>1
    <3>2. new[p].id = top + k
      BY <1>5, <2>1, <3>1, Zenon
    <3>. QED BY <3>1, <3>2
  <2>2. CASE p \notin Block
    BY <1>4, <2>2
  <2>. QED BY <2>1, <2>2
<1>7. ASSUME NEW p \in DOMAIN new, NEW q \in DOMAIN new, new[p].id = new[q].id
      PROVE  p = q
  <2>1. CASE p \in Block /\ q \in Block
    <3>1. /\ p \in Nat /\ q \in Nat
          /\ new[p].id = top + (p - index + 1) /\ new[q].id = top + (q - index + 1)
      BY <1>5, <2>1, Zenon
    <3>2. top + (p - index + 1) = top + (q - index + 1)
      BY <1>7, <3>1, Zenon
    <3>. QED BY <1>2, <3>1, <3>2
  <2>2. CASE p \notin Block /\ q \notin Block
    <3>1. cs[From(p)].id = cs[From(q)].id /\ From(p) \in DOMAIN cs /\ From(q) \in DOMAIN cs
      BY <1>3, <1>4, <1>7, <2>2
    <3>2. From(p) = From(q)
      BY <3>1 DEF Wired
    <3>. QED BY <1>3, <2>2, <3>2
  <2>3. CASE p \in Block /\ q \notin Block
    <3>1. new[p].id > top /\ new[q].id \in 1 .. top
      BY <1>4, <1>5, <2>3, Zenon
    <3>. QED BY <1>7, <3>1
  <2>4. CASE p \notin Block /\ q \in Block
    <3>1. new[q].id > top /\ new[p].id \in 1 .. top
      BY <1>4, <1>5, <2>4, Zenon
    <3>. QED BY <1>7, <3>1
  <2>. QED BY <2>1, <2>2, <2>3, <2>4
<1>8. ASSUME NEW p \in DOMAIN new, NEW s \in new[p].args
      PROVE  RightReference(new, p, s)
  <2>1. CASE p \in Block
    BY <2>1
  <2>2. CASE p \notin Block
    <3>1. PICK r \in cs[From(p)].args : Follows(new, index, n, removed, r, s)
      BY <1>4, <2>2
    <3>2. RightReference(cs, From(p), r) /\ From(p) \in DOMAIN cs
      BY <1>3, <2>2 DEF Wired
    <3>3. /\ r.at \in 1 .. (From(p) - 1) /\ r.at \in DOMAIN cs
          /\ r.means \in {Lost, [id |-> cs[r.at].id, element |-> r.element]}
      BY <1>2, <3>2 DEF RightReference
    <3>4. CASE r.at = index /\ removed = 1
      <4>1. /\ s.at \in 1 .. (index + n - 1)
            /\ s.means \in {Lost, [id |-> new[s.at].id, element |-> s.element]}
        BY <3>1, <3>4 DEF Follows
      <4>2. /\ Place(index, n, removed, From(p)) = p /\ From(p) >= index
            /\ From(p) # index /\ From(p) \in Nat \ {0} /\ index \in Nat \ {0}
        BY <1>2, <1>3, <2>2, <3>3, <3>4
      <4>3. p >= index + n /\ p \in Nat
        <5>1. Place(index, n, removed, From(p)) >= index + n
          BY <4>2, PlacesKeepOrder, Zenon
        <5>2. p \in Nat
          BY <1>2
        <5>. QED BY <4>2, <5>1, <5>2, Zenon
      <4>4. s.at \in 1 .. (p - 1)
        BY <4>1, <4>2, <4>3, BeforeWhatIsBehind, Zenon
      <4>. QED BY <4>1, <4>4 DEF RightReference
    <3>5. CASE r.at # index \/ removed = 0
      <4>. DEFINE at == Place(index, n, removed, r.at)
      <4>1. s = [at |-> at, element |-> r.element, means |-> r.means]
        BY <3>1, <3>5 DEF Follows
      <4>2. new[at].id = cs[r.at].id
        BY <3>3, <3>5
      <4>3. at \in 1 .. (p - 1)
        <5>1. /\ Place(index, n, removed, From(p)) = p /\ From(p) \in Nat \ {0}
              /\ From(p) # index \/ removed = 0
          BY <1>3, <2>2
        <5>2. r.at \in Nat \ {0} /\ r.at < From(p) /\ index \in Nat \ {0}
          BY <1>2, <3>3, <5>1
        <5>3. /\ Place(index, n, removed, r.at) \in Nat \ {0}
              /\ Place(index, n, removed, r.at) < Place(index, n, removed, From(p))
          BY <3>5, <5>1, <5>2, PlacesKeepOrder, Zenon
        <5>4. p \in Nat
          BY <1>2
        <5>. QED BY <5>1, <5>3, <5>4
      <4>. HIDE DEF at
      <4>4. s.at = at /\ s.element = r.element /\ s.means = r.means
        BY <4>1
      <4>. QED BY <3>3, <4>2, <4>3, <4>4 DEF RightReference
    <3>. QED BY <3>4, <3>5
  <2>. QED BY <2>1, <2>2
<1>9. ASSUME NEW p \in DOMAIN new, NEW s \in new[p].args
      PROVE  s \in Reference
  <2>1. CASE p \in Block
    BY <2>1
  <2>2. CASE p \notin Block
    <3>1. PICK r \in cs[From(p)].args : Follows(new, index, n, removed, r, s)
      BY <1>4, <2>2
    <3>2. /\ cs[From(p)] \in Command /\ From(p) \in DOMAIN cs
          /\ RightReference(cs, From(p), r)
      BY <1>3, <2>2 DEF Wired
    <3>3. r \in Reference /\ r.at \in Int
      BY <3>2 DEF Command, Reference
    <3>4. Place(index, n, removed, r.at) \in Int
      BY <1>2, <3>3 DEF Place
    <3>. QED BY <3>1, <3>3, <3>4 DEF Follows, Reference
  <2>. QED BY <2>1, <2>2
<1>10. new \in Seq(Command)
  <2>1. \A p \in DOMAIN new : new[p].id \in Nat /\ new[p].args \in SUBSET Reference
    BY <1>6, <1>9
  <2>2. \A p \in 1 .. (m + n - removed) : [id |-> new[p].id, args |-> new[p].args] \in Command
    BY <1>1, <2>1 DEF Command
  <2>3. new \in [1 .. (m + n - removed) -> Command]
    BY <2>2 DEF IsProgram
  <2>4. PICK k \in Nat : k = m + n - removed
    <3>1. m + n - removed \in Nat
      BY <1>2
    <3>. QED BY <3>1
  <2>5. new \in [1 .. k -> Command]
    BY <2>3, <2>4, Zenon
  <2>6. k \in Nat
    BY <2>4
  <2>7. \E j \in Nat : new \in [1 .. j -> Command]
    BY <2>5, <2>6, Zenon
  <2>8. new \in UNION {[1 .. j -> Command] : j \in Nat}
    BY <2>7, Zenon
  <2>. QED BY <2>8, SeqDef, Zenon
<1>. QED BY <1>6, <1>7, <1>8, <1>10 DEF Wired

-----------------------------------------------------------------------------
(* What the operations do to the commands, position by position.            *)

\* What stands where in two sequences of known lengths put together.
LEMMA JoinShape ==
  ASSUME NEW S, NEW a \in Seq(S), NEW b \in Seq(S), NEW k \in Nat, k = Len(a),
         NEW n \in Nat, n = Len(b), NEW c, c = a \o b
  PROVE  /\ c \in Seq(S) /\ Len(c) = k + n
         /\ \A i \in 1 .. k : c[i] = a[i]
         /\ \A i \in (k + 1) .. (k + n) : c[i] = b[i - k]
<1>1. c \in Seq(S) /\ Len(c) = k + n
  OBVIOUS
<1>2. \A i \in 1 .. (k + n) : c[i] = IF i <= k THEN a[i] ELSE b[i - k]
  OBVIOUS
<1>. QED BY <1>1, <1>2

\* The block comes in at index, and the others keep their order.
InPlace(new, cs, m, index, n, removed, block) ==
  /\ new \in Seq(Command) /\ Len(new) = m + n - removed
  /\ \A p \in index .. (index + n - 1) : new[p] = block[p - index + 1]
  /\ \A q \in 1 .. m : q # index \/ removed = 0 => new[Place(index, n, removed, q)] = cs[q]

\* Splice puts the block where the command was, and all else keeps its order.
LEMMA SpliceShape ==
  ASSUME NEW cs \in Seq(Command), NEW block \in Seq(Command), NEW removed \in {0, 1},
         NEW m \in Nat, m = Len(cs), NEW n \in Nat, n = Len(block),
         NEW index \in 1 .. (m + 1 - removed)
  PROVE  InPlace(Splice(cs, index, removed, block), cs, m, index, n, removed, block)
<1>. DEFINE front == SubSeq(cs, 1, index - 1)
            back == SubSeq(cs, index + removed, m)
<1>1. /\ front \in Seq(Command) /\ Len(front) = index - 1
      /\ \A q \in 1 .. (index - 1) : front[q] = cs[q]
  OBVIOUS
<1>2. /\ back \in Seq(Command) /\ Len(back) = m + 1 - index - removed
      /\ \A i \in 1 .. (m + 1 - index - removed) : back[i] = cs[index + removed + i - 1]
  OBVIOUS
<1>. HIDE DEF front, back
<1>3. PICK k \in Nat : k = Len(front) /\ k = index - 1
  BY <1>1
<1>4. PICK j \in Nat : j = m + 1 - index - removed
  <2>1. m + 1 - index - removed \in Nat
    OBVIOUS
  <2>. QED BY <2>1
<1>5. PICK part : part = front \o block
  OBVIOUS
<1>6. /\ part \in Seq(Command) /\ Len(part) = k + n
      /\ \A i \in 1 .. k : part[i] = front[i]
      /\ \A i \in (k + 1) .. (k + n) : part[i] = block[i - k]
  <2>1. /\ front \in Seq(Command) /\ block \in Seq(Command) /\ k = Len(front) /\ n = Len(block)
        /\ part = front \o block
    BY <1>1, <1>3, <1>5
  <2>. QED BY <2>1, JoinShape
<1>7. PICK whole : whole = part \o back
  OBVIOUS
<1>8. PICK kn \in Nat : kn = k + n
  OBVIOUS
<1>9. /\ whole \in Seq(Command) /\ Len(whole) = kn + j
      /\ \A i \in 1 .. kn : whole[i] = part[i]
      /\ \A i \in (kn + 1) .. (kn + j) : whole[i] = back[i - kn]
  <2>1. kn = Len(part) /\ j = Len(back) /\ part \in Seq(Command) /\ back \in Seq(Command)
    BY <1>2, <1>4, <1>6, <1>8, Zenon
  <2>. QED BY <1>7, <2>1, JoinShape
<1>10. Splice(cs, index, removed, block) = whole
  BY <1>5, <1>7, Zenon DEF Splice, front, back
<1>11. \A p \in index .. (index + n - 1) : whole[p] = block[p - index + 1]
  <2>. TAKE p \in index .. (index + n - 1)
  <2>1. p \in 1 .. kn /\ p \in (k + 1) .. (k + n) /\ p - k = p - index + 1
    BY <1>3, <1>8
  <2>2. whole[p] = part[p] /\ part[p] = block[p - k]
    BY <1>6, <1>9, <2>1, Zenon
  <2>. QED BY <2>1, <2>2, Zenon
<1>12. ASSUME NEW q \in 1 .. m, q # index \/ removed = 0
       PROVE  whole[Place(index, n, removed, q)] = cs[q]
  <2>1. CASE q < index
    <3>1. q \in 1 .. kn /\ q \in 1 .. k /\ q \in 1 .. (index - 1)
      BY <1>3, <1>8, <2>1
    <3>2. whole[q] = cs[q]
      BY <1>1, <1>6, <1>9, <3>1, Zenon
    <3>. QED BY <2>1, <3>2, Zenon DEF Place
  <2>2. CASE ~ (q < index)
    <3>. DEFINE i == q + n - removed
    <3>1. /\ i \in (kn + 1) .. (kn + j) /\ i - kn = q + 1 - index - removed
          /\ i - kn \in 1 .. (m + 1 - index - removed)
          /\ index + removed + (i - kn) - 1 = q
      <4>1. CASE removed = 0
        BY <1>3, <1>4, <1>8, <1>12, <2>2, <4>1
      <4>2. CASE removed = 1
        BY <1>3, <1>4, <1>8, <1>12, <2>2, <4>2
      <4>. QED BY <4>1, <4>2
    <3>. HIDE DEF i
    <3>2. whole[i] = back[i - kn] /\ back[i - kn] = cs[index + removed + (i - kn) - 1]
      BY <1>2, <1>9, <3>1, Zenon
    <3>3. whole[i] = cs[q]
      BY <3>1, <3>2, Zenon
    <3>. QED BY <2>2, <3>3, Zenon DEF Place, i
  <2>. QED BY <2>1, <2>2
<1>13. kn + j = m + n - removed
  BY <1>3, <1>4, <1>8
<1>14. InPlace(whole, cs, m, index, n, removed, block)
  BY <1>9, <1>11, <1>12, <1>13, Zenon DEF InPlace
<1>. QED BY <1>10, <1>14, Zenon

\* Commands with the next ids that refer to earlier ones.
IsBlock(cs, first, n, scope, block) ==
  /\ block \in Seq(Command) /\ Len(block) = n
  /\ \A k \in 1 .. n :
       /\ block[k].id = created + k
       /\ \A r \in block[k].args :
            /\ r \in Reference /\ r.at \in scope \cup first .. (first + k - 2)
            /\ r.means = [id |-> IF r.at < first THEN cs[r.at].id
                                 ELSE created + (r.at - first + 1),
                          element |-> r.element]

\* The commands of a block have the next ids, and refer to earlier ones.
LEMMA BlockShape ==
  ASSUME NEW cs, NEW first \in Nat \ {0}, NEW n \in Nat, created \in Nat,
         NEW scope \in SUBSET (1 .. (first - 1)), \A p \in scope : cs[p].id \in Nat,
         NEW block \in Blocks(cs, first, n, scope)
  PROVE  IsBlock(cs, first, n, scope, block)
<1>. DEFINE ids == [k \in 1 .. n |-> created + k]
            Uses(k) == {{}} \cup {{Use(Id(cs, ids, first, p), p, e)} :
                              p \in scope \cup first .. (first + k - 2), e \in Elements}
            Args == [1 .. n -> UNION {Uses(k) : k \in 1 .. n}]
            Filled == {b \in Args : \A k \in 1 .. n : b[k] \in Uses(k)}
            Cmd(a) == [k \in 1 .. n |-> [id |-> ids[k], args |-> a[k]]]
<1>0. Blocks(cs, first, n, scope) = {Cmd(a) : a \in Filled}
  BY DEF Blocks
<1>1. PICK a : a \in Filled /\ block = Cmd(a)
  <2>. HIDE DEF Cmd, Filled
  <2>. QED BY <1>0
<1>2. ASSUME NEW k \in 1 .. n, NEW r \in a[k]
      PROVE  /\ r \in Reference /\ r.at \in scope \cup first .. (first + k - 2)
             /\ r.means = [id |-> IF r.at < first THEN cs[r.at].id
                                  ELSE created + (r.at - first + 1),
                           element |-> r.element]
  <2>1. a[k] \in Uses(k)
    <3>. HIDE DEF Uses, Args
    <3>. QED BY <1>1
  <2>2. PICK p \in scope \cup first .. (first + k - 2), e \in Elements :
          r = [at |-> p, element |-> e,
               means |-> [id |-> Id(cs, ids, first, p), element |-> e]]
    <3>. HIDE DEF ids
    <3>1. PICK p \in scope \cup first .. (first + k - 2), e \in Elements :
            a[k] = {Use(Id(cs, ids, first, p), p, e)}
      BY <2>1, <1>2
    <3>. QED BY <3>1, <1>2 DEF Use
  <2>3. /\ p \in Int
        /\ Id(cs, ids, first, p) = IF p < first THEN cs[p].id ELSE created + (p - first + 1)
        /\ Id(cs, ids, first, p) \in Nat
    <3>1. CASE p < first
      <4>1. p \in scope
        BY <2>2, <3>1
      <4>. QED BY <3>1, <4>1 DEF Id
    <3>2. CASE ~ (p < first)
      <4>1. p \in first .. (first + k - 2) /\ p \in Int
        <5>1. \A i \in scope : i < first
          OBVIOUS
        <5>. QED BY <2>2, <3>2, <5>1
      <4>2. p - first + 1 \in 1 .. n /\ p \in Int
        BY <4>1
      <4>. QED BY <3>2, <4>2 DEF Id
    <3>. QED BY <3>1, <3>2
  <2>. DEFINE i == Id(cs, ids, first, p)
  <2>4. r.at = p /\ r.element = e /\ r.means = [id |-> i, element |-> e]
    BY <2>2, Zenon
  <2>. HIDE DEF i
  <2>5. i \in Nat
    BY <2>3 DEF i
  <2>6. r \in Reference
    <3>1. r = [at |-> p, element |-> e, means |-> [id |-> i, element |-> e]]
      BY <2>2 DEF i
    <3>. QED BY <2>3, <2>5, <3>1 DEF Reference, Meaning
  <2>7. i = IF r.at < first THEN cs[r.at].id ELSE created + (r.at - first + 1)
    BY <2>3, <2>4 DEF i
  <2>. QED BY <2>4, <2>6, <2>7
<1>. HIDE DEF Uses, Args
<1>3. \A k \in 1 .. n : [id |-> ids[k], args |-> a[k]] \in Command
  <2>. TAKE k \in 1 .. n
  <2>1. a[k] \in SUBSET Reference
    BY <1>2
  <2>2. ids[k] \in Nat
    OBVIOUS
  <2>. QED BY <2>1, <2>2 DEF Command
<1>4. block \in [1 .. n -> Command]
  BY <1>1, <1>3
<1>5. block \in Seq(Command) /\ Len(block) = n
  BY <1>4
<1>6. \A k \in 1 .. n : block[k].id = created + k /\ block[k].args = a[k]
  BY <1>1
<1>. QED BY <1>2, <1>5, <1>6 DEF IsBlock

-----------------------------------------------------------------------------
(* The edits.                                                               *)

\* References to commands that stay where they are or to the block's own, and so never to
\* the command that goes.
BlockIsRight(new, cs, m, index, n, block) ==
  \A p \in index .. (index + n - 1) :
    /\ new[p].id = created + (p - index + 1)
    /\ \A r \in block[p - index + 1].args :
         /\ r \in Reference /\ RightReference(new, p, r)
         /\ index <= m => r.means.id # cs[index].id

\* What is before the k-th command of a block, and not before the block.
LEMMA InFrontInTheBlock ==
  ASSUME NEW n \in Nat, NEW k \in 1 .. n, NEW index \in Nat \ {0}, NEW p, p = index + k - 1,
         NEW at \in index .. (index + k - 2)
  PROVE  /\ at - index + 1 \in 1 .. n /\ at \in index .. (index + n - 1)
         /\ at \in 1 .. (p - 1)
OBVIOUS

\* Where what is in front has kept its id, a block that has come in refers to what it should.
LEMMA BlocksAreRight ==
  ASSUME NEW cs, created \in Nat, Wired(cs, created), NEW m \in Nat, m = Len(cs),
         NEW index \in 1 .. (m + 1), NEW n \in Nat,
         NEW scope \in SUBSET (1 .. (index - 1)), NEW block \in Blocks(cs, index, n, scope),
         NEW new, \A q \in 1 .. (index - 1) : new[q].id = cs[q].id,
         \A p \in index .. (index + n - 1) : new[p].id = block[p - index + 1].id
  PROVE  BlockIsRight(new, cs, m, index, n, block)
<1>1. /\ index \in Nat \ {0}
      /\ \A q \in 1 .. (index - 1) : q \in DOMAIN cs /\ cs[q].id \in 1 .. created
      /\ DOMAIN cs = 1 .. m
  <2>1. DOMAIN cs = 1 .. m
    BY DEF Wired
  <2>2. index \in Nat \ {0} /\ \A q \in 1 .. (index - 1) : q \in 1 .. m
    OBVIOUS
  <2>. QED BY <2>1, <2>2 DEF Wired
<1>2. \A k \in 1 .. n :
        /\ block[k].id = created + k
        /\ \A r \in block[k].args :
             /\ r \in Reference /\ r.at \in scope \cup index .. (index + k - 2)
             /\ r.means = [id |-> IF r.at < index THEN cs[r.at].id
                                  ELSE created + (r.at - index + 1),
                           element |-> r.element]
  <2>1. \A q \in scope : cs[q].id \in Nat
    BY <1>1
  <2>2. index \in Nat \ {0}
    BY <1>1
  <2>3. IsBlock(cs, index, n, scope, block)
    BY <2>1, <2>2, BlockShape
  <2>. QED BY <2>3 DEF IsBlock
<1>. SUFFICES ASSUME NEW p \in index .. (index + n - 1)
              PROVE  /\ new[p].id = created + (p - index + 1)
                     /\ \A r \in block[p - index + 1].args :
                          /\ r \in Reference /\ RightReference(new, p, r)
                          /\ index <= m => r.means.id # cs[index].id
  BY DEF BlockIsRight
<1>2a. index \in Nat \ {0}
  OBVIOUS
<1>3. PICK k \in 1 .. n : k = p - index + 1 /\ p = index + k - 1
  BY <1>2a
<1>4. new[p].id = created + k
  BY <1>2, <1>3
<1>5. ASSUME NEW r \in block[k].args
      PROVE  /\ r \in Reference /\ RightReference(new, p, r)
             /\ index <= m => r.means.id # cs[index].id
  <2>1. /\ r \in Reference /\ r.at \in scope \cup index .. (index + k - 2)
        /\ r.means = [id |-> IF r.at < index THEN cs[r.at].id
                             ELSE created + (r.at - index + 1),
                      element |-> r.element]
    BY <1>2, <1>5
  <2>2. CASE r.at < index
    <3>1. r.at \in scope
      BY <1>1, <2>1, <2>2
    <3>2. r.at \in 1 .. (index - 1) /\ r.at \in 1 .. (p - 1) /\ r.at # index
      <4>1. r.at \in 1 .. (index - 1)
        BY <3>1
      <4>2. p >= index /\ p \in Int
        BY <1>1
      <4>. QED BY <1>1, <4>1, <4>2
    <3>3. r.means = [id |-> new[r.at].id, element |-> r.element] /\ r.means.id = cs[r.at].id
      BY <2>1, <2>2, <3>2
    <3>4. index <= m => cs[r.at].id # cs[index].id
      <4>1. index <= m => index \in DOMAIN cs /\ r.at \in DOMAIN cs
        BY <1>1, <3>2
      <4>. QED BY <3>2, <4>1 DEF Wired
    <3>. QED BY <2>1, <3>2, <3>3, <3>4 DEF RightReference
  <2>3. CASE ~ (r.at < index)
    <3>1. r.at \in index .. (index + k - 2) /\ r.at \in 1 .. (p - 1)
      <4>1. \A i \in scope : i < index
        BY <1>1
      <4>2. r.at \in index .. (index + k - 2)
        BY <2>1, <2>3, <4>1
      <4>3. r.at \in 1 .. (p - 1)
        BY <1>2a, <1>3, <4>2, InFrontInTheBlock, Zenon
      <4>. QED BY <4>2, <4>3
    <3>2. PICK j \in 1 .. n : j = r.at - index + 1 /\ r.at \in index .. (index + n - 1)
      <4>1. ASSUME NEW at \in index .. (index + k - 2)
            PROVE  at - index + 1 \in 1 .. n /\ at \in index .. (index + n - 1)
        BY <1>2a, <1>3, InFrontInTheBlock, Zenon
      <4>. QED BY <3>1, <4>1
    <3>3. new[r.at].id = created + j
      BY <1>2, <3>2
    <3>4. r.means = [id |-> new[r.at].id, element |-> r.element]
      BY <2>1, <2>3, <3>2, <3>3
    <3>5. index <= m => r.means.id # cs[index].id
      <4>1. index <= m => cs[index].id \in 1 .. created
        <5>1. index <= m => index \in DOMAIN cs
          BY <1>1, <1>2a
        <5>. QED BY <5>1 DEF Wired
      <4>2. r.means.id = created + j
        BY <3>3, <3>4
      <4>. QED BY <4>1, <4>2
    <3>. QED BY <2>1, <3>1, <3>4, <3>5, Zenon DEF RightReference
  <2>. QED BY <2>2, <2>3
<1>. QED BY <1>3, <1>4, <1>5

Mapped(mapped, new, k, from, to, args) ==
  /\ IsProgram(mapped, k)
  /\ \A p \in 1 .. k : /\ mapped[p].id = new[p].id
                       /\ mapped[p].args = IF p \in from .. to THEN new[p].args ELSE args[p]

\* mapArguments changes arguments outside of the positions from..to and nothing else.
LEMMA ArgumentsMapped ==
  ASSUME NEW new, NEW k \in Nat, IsProgram(new, k), NEW from, NEW to, NEW args, NEW mapped,
         mapped = [p \in DOMAIN new |-> IF p \in from .. to THEN new[p]
                                        ELSE [new[p] EXCEPT !.args = args[p]]]
  PROVE  Mapped(mapped, new, k, from, to, args)
<1>1. DOMAIN new = 1 .. k
  BY DEF IsProgram
<1>2. ASSUME NEW p \in 1 .. k
      PROVE  /\ mapped[p] = [id |-> mapped[p].id, args |-> mapped[p].args]
             /\ mapped[p].id = new[p].id
             /\ mapped[p].args = IF p \in from .. to THEN new[p].args ELSE args[p]
  <2>1. new[p] = [id |-> new[p].id, args |-> new[p].args]
    BY DEF IsProgram
  <2>2. CASE p \in from .. to
    <3>1. mapped[p] = new[p]
      BY <1>1, <2>2, Zenon
    <3>. QED BY <2>1, <2>2, <3>1
  <2>3. CASE p \notin from .. to
    <3>1. mapped[p] = [new[p] EXCEPT !.args = args[p]]
      BY <1>1, <2>3, Zenon
    <3>2. PICK i, a : new[p] = [id |-> i, args |-> a] /\ i = new[p].id
      BY <2>1, Zenon
    <3>3. mapped[p] = [[id |-> i, args |-> a] EXCEPT !.args = args[p]]
      BY <3>1, <3>2, Zenon
    <3>4. mapped[p] = [id |-> i, args |-> args[p]]
      BY <3>3
    <3>. QED BY <2>3, <3>2, <3>4
  <2>. QED BY <2>2, <2>3
<1>3. mapped = [p \in 1 .. k |-> mapped[p]]
  BY <1>1
<1>. QED BY <1>2, <1>3 DEF IsProgram, Mapped

\* The commands with the block in its place, before references are followed.
Composed(new, cs, m, index, n, removed, block) ==
  /\ IsProgram(new, m + n - removed)
  /\ InPlace(new, cs, m, index, n, removed, block)

\* Splice gives a program, with the block in its place.
LEMMA SpliceComposes ==
  ASSUME NEW cs \in Seq(Command), NEW block \in Seq(Command), NEW removed \in {0, 1},
         NEW m \in Nat, m = Len(cs), NEW n \in Nat, n = Len(block),
         NEW index \in 1 .. (m + 1 - removed)
  PROVE  Composed(Splice(cs, index, removed, block), cs, m, index, n, removed, block)
<1>1. PICK new : new = Splice(cs, index, removed, block)
  OBVIOUS
<1>2. PICK k \in Nat : k = m + n - removed
  <2>1. m + n - removed \in Nat
    OBVIOUS
  <2>. QED BY <2>1
<1>3. InPlace(new, cs, m, index, n, removed, block)
  BY <1>1, SpliceShape
<1>4. new \in [1 .. k -> Command]
  BY <1>2, <1>3 DEF InPlace
<1>5. \A p \in 1 .. k : new[p] = [id |-> new[p].id, args |-> new[p].args]
  BY <1>4 DEF Command
<1>6. IsProgram(new, k)
  BY <1>4, <1>5 DEF IsProgram
<1>. QED BY <1>1, <1>2, <1>3, <1>6, Zenon DEF Composed

\* What an edit makes of the commands.
Edited(new, cs, m, index, n, removed, block) ==
  /\ IsProgram(new, m + n - removed)
  /\ \A p \in index .. (index + n - 1) : /\ new[p].id = block[p - index + 1].id
                                        /\ new[p].args \subseteq block[p - index + 1].args
  /\ \A q \in 1 .. m : q # index \/ removed = 0 =>
        /\ new[Place(index, n, removed, q)].id = cs[q].id
        /\ \A s \in new[Place(index, n, removed, q)].args :
             \E r \in cs[q].args : Follows(new, index, n, removed, r, s)

\* A block that has come in, with all else following: the commands are wired again.
LEMMA EditIsRight ==
  ASSUME NEW cs, created \in Nat, Wired(cs, created), NEW n \in Nat, NEW removed \in {0, 1},
         NEW m \in Nat, m = Len(cs), NEW index \in 1 .. (m + 1 - removed),
         NEW scope \in SUBSET (1 .. (index - 1)), NEW block \in Blocks(cs, index, n, scope),
         NEW new, Edited(new, cs, m, index, n, removed, block)
  PROVE  Wired(new, created + n)
<1>1. index \in 1 .. (m + 1) /\ index \in Nat \ {0} /\ DOMAIN cs = 1 .. m
  <2>1. DOMAIN cs = 1 .. m
    BY DEF Wired
  <2>. QED BY <2>1
<1>2. \A q \in 1 .. (index - 1) : new[q].id = cs[q].id
  <2>. TAKE q \in 1 .. (index - 1)
  <2>1. q \in 1 .. m /\ q # index /\ q < index
    BY <1>1
  <2>. QED BY <2>1 DEF Place, Edited
<1>3. \A p \in index .. (index + n - 1) :
        /\ new[p].id = created + (p - index + 1)
        /\ \A r \in block[p - index + 1].args : r \in Reference /\ RightReference(new, p, r)
  <2>1. \A q \in index .. (index + n - 1) : new[q].id = block[q - index + 1].id
    BY DEF Edited
  <2>2. BlockIsRight(new, cs, m, index, n, block)
    BY <1>1, <1>2, <2>1, BlocksAreRight
  <2>. QED BY <2>2 DEF BlockIsRight
<1>4. NewOnes(new, created, index, n)
  BY <1>3 DEF Edited, NewOnes
<1>5. IsProgram(new, m + n - removed) /\ OthersFollow(new, cs, index, n, removed)
  BY <1>1, Zenon DEF Edited, OthersFollow
<1>. QED BY <1>1, <1>4, <1>5, EditsKeepWiring

Understood(cs, q, index, r) ==
  /\ r \in Reference /\ r.element \in Elements /\ r.means \in Meaning
  /\ r = [at |-> r.at, element |-> r.element, means |-> r.means]
  /\ r.at \in 1 .. (q - 1)
  /\ r.means \in {Lost, [id |-> cs[r.at].id, element |-> r.element]}
  /\ r.means.id = cs[index].id <=> r.at = index /\ r.means # Lost
  /\ cs[index].id \in Nat \ {0}

\* A reference in wired commands, and when it is meant for the one at index.
LEMMA WhatIsMeant ==
  ASSUME NEW cs, NEW top \in Nat, Wired(cs, top), NEW index \in DOMAIN cs,
         NEW q \in DOMAIN cs, NEW r \in cs[q].args
  PROVE  Understood(cs, q, index, r)
<1>1. cs[q] \in Command /\ DOMAIN cs = 1 .. Len(cs) /\ Len(cs) \in Nat
  BY DEF Wired
<1>2. RightReference(cs, q, r) /\ r \in Reference
  BY <1>1 DEF Wired, Command
<1>3. r.at \in 1 .. (q - 1) /\ r.at \in DOMAIN cs
  BY <1>1, <1>2 DEF RightReference
<1>4. \/ r.means = Lost /\ r.means.id = 0
      \/ /\ r.means = [id |-> cs[r.at].id, element |-> r.element]
         /\ r.means.id = cs[r.at].id /\ r.means # Lost
  <2>1. cs[r.at].id # 0
    BY <1>3 DEF Wired
  <2>. QED BY <1>2, <2>1 DEF RightReference, Lost
<1>5. cs[r.at].id = cs[index].id <=> r.at = index
  BY <1>3 DEF Wired
<1>6. cs[index].id \in Nat \ {0}
  BY DEF Wired
<1>7. /\ r.at \in 1 .. (q - 1)
      /\ r.means \in {Lost, [id |-> cs[r.at].id, element |-> r.element]}
      /\ r.means.id = cs[index].id <=> r.at = index /\ r.means # Lost
  BY <1>3, <1>4, <1>5, <1>6
<1>. QED BY <1>2, <1>6, <1>7 DEF Reference, Understood

-----------------------------------------------------------------------------
\* The commands with the block in its place and the arguments of the others mapped.
Outside(moved, cs, m, index, n, removed, block, args) ==
  /\ IsProgram(moved, m + n - removed)
  /\ \A p \in index .. (index + n - 1) : /\ moved[p].id = block[p - index + 1].id
                                        /\ moved[p].args = block[p - index + 1].args
  /\ \A q \in 1 .. m : q # index \/ removed = 0 =>
       /\ Place(index, n, removed, q) \in 1 .. (m + n - removed)
       /\ moved[Place(index, n, removed, q)].id = cs[q].id
       /\ moved[Place(index, n, removed, q)].args = args[Place(index, n, removed, q)]

\* mapArguments with the block left alone changes what the block has been put between.
LEMMA OutsideTheBlock ==
  ASSUME NEW cs, NEW m \in Nat, NEW n \in Nat, NEW removed \in {0, 1},
         NEW index \in 1 .. (m + 1 - removed), NEW block, NEW args, NEW new, NEW moved,
         Composed(new, cs, m, index, n, removed, block),
         Mapped(moved, new, m + n - removed, index, index + n - 1, args)
  PROVE  Outside(moved, cs, m, index, n, removed, block, args)
<1>1. /\ IsProgram(moved, m + n - removed)
      /\ \A p \in 1 .. (m + n - removed) :
           /\ moved[p].id = new[p].id
           /\ moved[p].args = IF p \in index .. (index + n - 1) THEN new[p].args ELSE args[p]
  BY DEF Mapped
<1>2. /\ \A p \in index .. (index + n - 1) : new[p] = block[p - index + 1]
      /\ \A q \in 1 .. m : q # index \/ removed = 0 =>
           new[Place(index, n, removed, q)] = cs[q]
  BY DEF Composed, InPlace
<1>3. \A p \in index .. (index + n - 1) : p \in 1 .. (m + n - removed)
  OBVIOUS
<1>4. \A q \in 1 .. m : q # index \/ removed = 0 =>
        /\ Place(index, n, removed, q) \in 1 .. (m + n - removed)
        /\ Place(index, n, removed, q) \notin index .. (index + n - 1)
  <2>. SUFFICES ASSUME NEW q \in 1 .. m, q # index \/ removed = 0
                PROVE  /\ Place(index, n, removed, q) \in 1 .. (m + n - removed)
                       /\ Place(index, n, removed, q) \notin index .. (index + n - 1)
    BY Zenon
  <2>1. CASE removed = 0
    BY <2>1 DEF Place
  <2>2. CASE removed = 1
    BY <2>2 DEF Place
  <2>. QED BY <2>1, <2>2
<1>5. \A p \in index .. (index + n - 1) : /\ moved[p].id = block[p - index + 1].id
                                         /\ moved[p].args = block[p - index + 1].args
  BY <1>1, <1>2, <1>3
<1>6. \A q \in 1 .. m : q # index \/ removed = 0 =>
        /\ moved[Place(index, n, removed, q)].id = cs[q].id
        /\ moved[Place(index, n, removed, q)].args = args[Place(index, n, removed, q)]
  BY <1>1, <1>2, <1>4, Zenon
<1>. QED BY <1>1, <1>4, <1>5, <1>6, Zenon DEF Outside

\* Retarget, to the same result for all.
Aimed(r, from, goal) == IF r.means.id = from THEN [r EXCEPT !.means = goal] ELSE r
Aim(cs, from, goal) ==
  [p \in DOMAIN cs |-> IF p \in 0 .. 0 THEN cs[p]
                       ELSE [cs[p] EXCEPT !.args = {Aimed(r, from, goal) : r \in @}]]

IsAimed(final, moved, k, from, goal) ==
  /\ IsProgram(final, k)
  /\ \A p \in 1 .. k : /\ final[p].id = moved[p].id
                       /\ \A s \in final[p].args : \E r \in moved[p].args :
                            s = Aimed(r, from, goal)

\* Commands keep their ids when references are aimed elsewhere, reference by reference.
LEMMA AimShape ==
  ASSUME NEW moved, NEW k \in Nat, IsProgram(moved, k), NEW from, NEW goal
  PROVE  IsAimed(Aim(moved, from, goal), moved, k, from, goal)
<1>1. PICK final : final = Aim(moved, from, goal)
  OBVIOUS
<1>2. PICK args : args = [p \in DOMAIN moved |-> {Aimed(r, from, goal) : r \in moved[p].args}]
  OBVIOUS
<1>3. final = [p \in DOMAIN moved |-> IF p \in 0 .. 0 THEN moved[p]
                                      ELSE [moved[p] EXCEPT !.args = args[p]]]
  BY <1>1, <1>2 DEF Aim
<1>4. Mapped(final, moved, k, 0, 0, args)
  BY <1>3, ArgumentsMapped
<1>5. DOMAIN moved = 1 .. k
  BY DEF IsProgram
<1>6. \A p \in 1 .. k : p \notin 0 .. 0
  OBVIOUS
<1>7. \A p \in 1 .. k : final[p].id = moved[p].id /\ final[p].args = args[p]
  BY <1>4, <1>6, Zenon DEF Mapped
<1>8. \A p \in 1 .. k : \A s \in args[p] : \E r \in moved[p].args : s = Aimed(r, from, goal)
  BY <1>2, <1>5
<1>9. IsProgram(final, k)
  BY <1>4 DEF Mapped
<1>10. IsAimed(final, moved, k, from, goal)
  BY <1>7, <1>8, <1>9 DEF IsAimed
<1>. QED BY <1>1, <1>10

\* Where a reference leads when the result of the command at index is one of `at' now, or,
\* with Kept for the element, when its elements are those of `at'.
Kept == -2
Led(r, index, n, at, element) ==
  IF r.at = index
  THEN [r EXCEPT !.at = at, !.element = IF element = Kept THEN @ ELSE element]
  ELSE IF r.at > index THEN Shift(r, n - 1) ELSE r

Redirected(moved, cs, m, index, n, block, at, element) ==
  /\ IsProgram(moved, m + n - 1)
  /\ \A p \in index .. (index + n - 1) : /\ moved[p].id = block[p - index + 1].id
                                        /\ moved[p].args = block[p - index + 1].args
  /\ \A q \in 1 .. m : q # index =>
       /\ Place(index, n, 1, q) \in 1 .. (m + n - 1)
       /\ moved[Place(index, n, 1, q)].id = cs[q].id
       /\ \A s \in moved[Place(index, n, 1, q)].args :
            \E r \in cs[q].args : s = Led(r, index, n, at, element)

\* A reference that is led and then aimed follows the command it is to, or is to the
\* result that has taken the place of what it was made for.
LEMMA LedAndAimed ==
  ASSUME NEW cs, NEW q, NEW n \in Nat, NEW index \in Nat \ {0}, NEW r,
         Understood(cs, q, index, r), NEW element \in Elements,
         NEW at \in 1 .. (index + n - 1), NEW new, new[at].id \in Nat
  PROVE  Follows(new, index, n, 1,
                 r, Aimed(Led(r, index, n, at, element), cs[index].id,
                          [id |-> new[at].id, element |-> element]))
<1>. DEFINE goal == [id |-> new[at].id, element |-> element]
<1>1. PICK s : s = Aimed(Led(r, index, n, at, element), cs[index].id, goal)
  OBVIOUS
<1>2. PICK a \in Int, e \in Elements, means \in Meaning :
        r = [at |-> a, element |-> e, means |-> means]
  BY DEF Understood, Reference
<1>3. r.at = a /\ r.element = e /\ r.means = means
  BY <1>2
<1>4. /\ means.id = cs[index].id <=> a = index /\ means # Lost
      /\ element # Kept
  BY <1>3 DEF Understood, Elements, Whole, Kept
<1>5. goal \in Meaning
  BY DEF Meaning
<1>. HIDE DEF goal
<1>6. CASE a = index
  <2>1. Led(r, index, n, at, element) = [at |-> at, element |-> element, means |-> means]
    BY <1>2, <1>4, <1>6 DEF Led
  <2>2. PICK to \in Meaning : /\ s = [at |-> at, element |-> element, means |-> to]
                              /\ to \in {Lost, goal}
    <3>1. CASE means = Lost
      <4>1. s = [at |-> at, element |-> element, means |-> means]
        BY <1>1, <1>4, <2>1, <3>1 DEF Aimed
      <4>. QED BY <3>1, <4>1
    <3>2. CASE means # Lost
      <4>1. s = [at |-> at, element |-> element, means |-> goal]
        BY <1>1, <1>4, <1>6, <2>1, <3>2 DEF Aimed
      <4>. QED BY <1>5, <4>1
    <3>. QED BY <3>1, <3>2
  <2>3. s \in Reference
    BY <2>2 DEF Reference
  <2>4. s.at = at /\ s.element = element /\ s.means \in {Lost, goal}
    BY <2>2
  <2>. QED BY <1>1, <1>3, <1>6, <2>3, <2>4 DEF Follows, goal
<1>7. CASE a # index
  <2>1. Led(r, index, n, at, element) =
          [at |-> Place(index, n, 1, a), element |-> e, means |-> means]
    BY <1>2, <1>7 DEF Led, Shift, Place
  <2>2. s = [at |-> Place(index, n, 1, a), element |-> e, means |-> means]
    BY <1>1, <1>4, <1>7, <2>1 DEF Aimed
  <2>. QED BY <1>1, <1>3, <1>7, <2>2 DEF Follows, goal
<1>. QED BY <1>6, <1>7

\* Once what was made for the command that has gone is meant for the result its references
\* lead to, the block has come in and all else follows.
LEMMA RedirectedIsRight ==
  ASSUME NEW cs, NEW top \in Nat, Wired(cs, top), NEW m \in Nat, m = Len(cs), NEW n \in Nat,
         NEW index \in 1 .. m, NEW at \in 1 .. (index + n - 1), NEW element \in Elements,
         NEW block, NEW moved, Redirected(moved, cs, m, index, n, block, at, element),
         moved[at].id \in Nat, \A k \in 1 .. n : \A r \in block[k].args :
                                 r.means.id # cs[index].id,
         NEW final, final = Aim(moved, cs[index].id, [id |-> moved[at].id, element |-> element])
  PROVE  Edited(final, cs, m, index, n, 1, block)
<1>. DEFINE goal == [id |-> moved[at].id, element |-> element]
            from == cs[index].id
<1>1. IsAimed(final, moved, m + n - 1, from, goal)
  <2>1. m + n - 1 \in Nat /\ IsProgram(moved, m + n - 1)
    BY DEF Redirected
  <2>2. final = Aim(moved, from, goal)
    OBVIOUS
  <2>. HIDE DEF goal, from
  <2>. QED BY <2>1, <2>2, AimShape
<1>2. /\ IsProgram(final, m + n - 1)
      /\ \A p \in 1 .. (m + n - 1) :
           /\ final[p].id = moved[p].id
           /\ \A s \in final[p].args : \E r \in moved[p].args : s = Aimed(r, from, goal)
  <2>. HIDE DEF goal, from
  <2>. QED BY <1>1 DEF IsAimed
<1>3. at \in 1 .. (m + n - 1) /\ final[at].id = moved[at].id /\ DOMAIN cs = 1 .. m
  <2>1. at \in 1 .. (m + n - 1)
    OBVIOUS
  <2>2. DOMAIN cs = 1 .. m
    BY DEF Wired
  <2>. QED BY <1>2, <2>1, <2>2, Zenon
<1>. HIDE DEF goal, from
<1>4. ASSUME NEW p \in index .. (index + n - 1)
      PROVE  /\ final[p].id = block[p - index + 1].id
             /\ final[p].args \subseteq block[p - index + 1].args
  <2>1. p \in 1 .. (m + n - 1) /\ p - index + 1 \in 1 .. n
    OBVIOUS
  <2>2. moved[p].id = block[p - index + 1].id /\ moved[p].args = block[p - index + 1].args
    BY DEF Redirected
  <2>3. ASSUME NEW s \in final[p].args
        PROVE  s \in moved[p].args
    <3>1. PICK r \in moved[p].args : s = Aimed(r, from, goal)
      BY <1>2, <2>1
    <3>2. r.means.id # from
      BY <2>1, <2>2, <3>1 DEF from
    <3>. QED BY <3>1, <3>2 DEF Aimed
  <2>. QED BY <1>2, <2>1, <2>2, <2>3
<1>5. ASSUME NEW q \in 1 .. m, q # index
      PROVE  /\ final[Place(index, n, 1, q)].id = cs[q].id
             /\ \A s \in final[Place(index, n, 1, q)].args :
                  \E r \in cs[q].args : Follows(final, index, n, 1, r, s)
  <2>1. PICK p : p = Place(index, n, 1, q)
    OBVIOUS
  <2>2. /\ p \in 1 .. (m + n - 1) /\ moved[p].id = cs[q].id
        /\ \A s \in moved[p].args : \E r \in cs[q].args : s = Led(r, index, n, at, element)
    BY <1>5, <2>1, Zenon DEF Redirected
  <2>3. ASSUME NEW s \in final[p].args
        PROVE  \E r \in cs[q].args : Follows(final, index, n, 1, r, s)
    <3>1. PICK r \in cs[q].args : s = Aimed(Led(r, index, n, at, element), from, goal)
      <4>1. PICK t \in moved[p].args : s = Aimed(t, from, goal)
        BY <1>2, <2>2, <2>3, Zenon
      <4>. QED BY <2>2, <4>1
    <3>2. Understood(cs, q, index, r)
      BY <1>3, <3>1, WhatIsMeant
    <3>3. s = Aimed(Led(r, index, n, at, element), cs[index].id,
                    [id |-> final[at].id, element |-> element])
      BY <1>3, <3>1, Zenon DEF goal, from
    <3>4. index \in Nat \ {0} /\ final[at].id \in Nat
      BY <1>3
    <3>5. Follows(final, index, n, 1,
                  r, Aimed(Led(r, index, n, at, element), cs[index].id,
                           [id |-> final[at].id, element |-> element]))
      BY <3>2, <3>4, LedAndAimed
    <3>. QED BY <3>1, <3>3, <3>5, Zenon
  <2>. QED BY <1>2, <2>1, <2>2, <2>3, Zenon
<1>6. \A q \in 1 .. m : q # index \/ 1 = 0 =>
        /\ final[Place(index, n, 1, q)].id = cs[q].id
        /\ \A s \in final[Place(index, n, 1, q)].args :
             \E r \in cs[q].args : Follows(final, index, n, 1, r, s)
  <2>1. 1 # 0
    OBVIOUS
  <2>. QED BY <1>5, <2>1, Zenon
<1>. QED BY <1>2, <1>4, <1>6, Zenon DEF Edited

\* What a block that takes the place of one command is made of.
LEMMA BlockForOne ==
  ASSUME NEW cs, created \in Nat, Wired(cs, created), NEW m \in Nat, m = Len(cs),
         NEW n \in Nat, NEW index \in 1 .. m, NEW scope \in SUBSET (1 .. (index - 1)),
         NEW block \in Blocks(cs, index, n, scope),
         NEW new, Composed(new, cs, m, index, n, 1, block)
  PROVE  /\ \A k \in 1 .. n : \A r \in block[k].args : r.means.id # cs[index].id
         /\ \A k \in 1 .. n : block[k].id \in Nat
<1>1. index \in 1 .. (m + 1) /\ index \in Nat /\ index <= m
  OBVIOUS
<1>2. \A q \in 1 .. (index - 1) : new[q].id = cs[q].id
  <2>1. \A q \in 1 .. (index - 1) : q \in 1 .. m /\ q # index /\ Place(index, n, 1, q) = q
    BY DEF Place
  <2>. QED BY <2>1 DEF Composed, InPlace
<1>3. \A p \in index .. (index + n - 1) : new[p].id = block[p - index + 1].id
  BY DEF Composed, InPlace
<1>4. BlockIsRight(new, cs, m, index, n, block)
  BY <1>1, <1>2, <1>3, BlocksAreRight
<1>5. ASSUME NEW k \in 1 .. n
      PROVE  /\ \A r \in block[k].args : r.means.id # cs[index].id
             /\ block[k].id \in Nat
  <2>1. PICK p \in index .. (index + n - 1) : p - index + 1 = k
    <3>1. index + k - 1 \in index .. (index + n - 1) /\ (index + k - 1) - index + 1 = k
      OBVIOUS
    <3>. QED BY <3>1
  <2>2. \A r \in block[k].args : r.means.id # cs[index].id
    BY <1>1, <1>4, <2>1 DEF BlockIsRight
  <2>3. new[p].id = block[k].id /\ new[p].id = created + k
    BY <1>3, <1>4, <2>1 DEF BlockIsRight
  <2>. QED BY <2>2, <2>3
<1>. QED BY <1>5

\* A block is one of commands, with new ids and earlier references, wherever it comes in.
LEMMA BlockAnywhere ==
  ASSUME NEW cs, created \in Nat, Wired(cs, created), NEW m \in Nat, m = Len(cs),
         NEW n \in Nat, NEW index \in 1 .. (m + 1), NEW scope \in SUBSET (1 .. (index - 1)),
         NEW block \in Blocks(cs, index, n, scope)
  PROVE  IsBlock(cs, index, n, scope, block)
<1>1. index \in Nat \ {0} /\ \A q \in scope : q \in 1 .. m
  OBVIOUS
<1>2. \A q \in scope : cs[q].id \in Nat
  BY <1>1 DEF Wired
<1>. QED BY <1>1, <1>2, BlockShape

LedBehind(args, cs, m, index, n, at, element) ==
  \A q \in 1 .. m : q > index =>
    \A s \in args[Place(index, n, 1, q)] : \E r \in cs[q].args :
      s = Led(r, index, n, at, element)

\* Commands in front of the block refer to earlier ones, which have not moved: it is enough
\* to change references behind it.
LEMMA RedirectedBehind ==
  ASSUME NEW cs, NEW top \in Nat, Wired(cs, top), NEW m \in Nat, m = Len(cs), NEW n \in Nat,
         NEW index \in 1 .. m, NEW at, NEW element, NEW block, NEW new,
         Composed(new, cs, m, index, n, 1, block), NEW args, NEW moved,
         Mapped(moved, new, m + n - 1, 1, index + n - 1, args),
         LedBehind(args, cs, m, index, n, at, element)
  PROVE  Redirected(moved, cs, m, index, n, block, at, element)
<1>1. /\ IsProgram(moved, m + n - 1)
      /\ \A p \in 1 .. (m + n - 1) :
           /\ moved[p].id = new[p].id
           /\ moved[p].args = IF p \in 1 .. (index + n - 1) THEN new[p].args ELSE args[p]
  BY DEF Mapped
<1>2. /\ \A p \in index .. (index + n - 1) : new[p] = block[p - index + 1]
      /\ \A q \in 1 .. m : q # index => new[Place(index, n, 1, q)] = cs[q]
  BY DEF Composed, InPlace
<1>3. \A p \in index .. (index + n - 1) : p \in 1 .. (m + n - 1) /\ p \in 1 .. (index + n - 1)
  OBVIOUS
<1>4. \A p \in index .. (index + n - 1) : /\ moved[p].id = block[p - index + 1].id
                                         /\ moved[p].args = block[p - index + 1].args
  BY <1>1, <1>2, <1>3
<1>5. ASSUME NEW q \in 1 .. m, q # index
      PROVE  /\ Place(index, n, 1, q) \in 1 .. (m + n - 1)
             /\ moved[Place(index, n, 1, q)].id = cs[q].id
             /\ \A s \in moved[Place(index, n, 1, q)].args :
                  \E r \in cs[q].args : s = Led(r, index, n, at, element)
  <2>1. CASE q < index
    <3>1. Place(index, n, 1, q) = q /\ q \in 1 .. (m + n - 1) /\ q \in 1 .. (index + n - 1)
      BY <2>1 DEF Place
    <3>2. moved[q].id = cs[q].id /\ moved[q].args = cs[q].args
      BY <1>1, <1>2, <1>5, <3>1
    <3>3. ASSUME NEW r \in cs[q].args
          PROVE  r = Led(r, index, n, at, element)
      <4>1. RightReference(cs, q, r)
        <5>1. q \in DOMAIN cs
          BY DEF Wired
        <5>. QED BY <5>1 DEF Wired
      <4>2. r.at # index /\ ~ (r.at > index)
        BY <2>1, <4>1 DEF RightReference
      <4>. QED BY <4>2, Zenon DEF Led
    <3>. QED BY <3>1, <3>2, <3>3
  <2>2. CASE ~ (q < index)
    <3>1. PICK p : p = Place(index, n, 1, q)
      OBVIOUS
    <3>2. p \in 1 .. (m + n - 1) /\ p \notin 1 .. (index + n - 1) /\ q > index
      BY <1>5, <2>2, <3>1 DEF Place
    <3>3. moved[p].id = cs[q].id /\ moved[p].args = args[p]
      BY <1>1, <1>2, <1>5, <3>1, <3>2, Zenon
    <3>4. \A s \in args[p] : \E r \in cs[q].args : s = Led(r, index, n, at, element)
      BY <3>1, <3>2, Zenon DEF LedBehind
    <3>. QED BY <3>1, <3>2, <3>3, <3>4, Zenon
  <2>. QED BY <2>1, <2>2
<1>. QED BY <1>1, <1>4, <1>5, Zenon DEF Redirected

\* Replaced moves every reference behind the block to where the command it is to has gone;
\* one to the command that was replaced is to the first that stands in its place.
LEMMA ReplacedShape ==
  ASSUME NEW cs, created \in Nat, Wired(cs, created), NEW m \in Nat, m = Len(cs),
         NEW n \in Nat, NEW index \in 1 .. m, NEW scope \in SUBSET (1 .. (index - 1)),
         NEW block \in Blocks(cs, index, n, scope)
  PROVE  /\ Redirected(Replaced(cs, index, block), cs, m, index, n, block, index, Kept)
         /\ Composed(Splice(cs, index, 1, block), cs, m, index, n, 1, block)
<1>. DEFINE F(r) == IF r.at > index THEN Shift(r, n - 1) ELSE r
<1>1. cs \in Seq(Command) /\ DOMAIN cs = 1 .. m /\ index \in 1 .. (m + 1)
  BY DEF Wired
<1>2. block \in Seq(Command) /\ Len(block) = n
  BY <1>1, BlockAnywhere DEF IsBlock
<1>3. PICK new : new = Splice(cs, index, 1, block)
  OBVIOUS
<1>4. Composed(new, cs, m, index, n, 1, block)
  <2>1. index \in 1 .. (m + 1 - 1) /\ 1 \in {0, 1}
    OBVIOUS
  <2>. QED BY <1>1, <1>2, <1>3, <2>1, SpliceComposes
<1>5. PICK args : args = [p \in DOMAIN new |-> {F(r) : r \in new[p].args}]
  OBVIOUS
<1>6. PICK moved : moved = Replaced(cs, index, block)
  OBVIOUS
<1>7. moved = [p \in DOMAIN new |-> IF p \in 1 .. (index + n - 1) THEN new[p]
                                    ELSE [new[p] EXCEPT !.args = {F(r) : r \in @}]]
  BY <1>2, <1>3, <1>6 DEF Replaced, MapArguments
<1>. HIDE DEF F
<1>8. moved = [p \in DOMAIN new |-> IF p \in 1 .. (index + n - 1) THEN new[p]
                                    ELSE [new[p] EXCEPT !.args = args[p]]]
  BY <1>5, <1>7
<1>9. IsProgram(new, m + n - 1) /\ m + n - 1 \in Nat
  BY <1>4 DEF Composed
<1>10. Mapped(moved, new, m + n - 1, 1, index + n - 1, args)
  BY <1>8, <1>9, ArgumentsMapped
<1>11. ASSUME NEW q \in 1 .. m, q > index
       PROVE  \A s \in args[Place(index, n, 1, q)] : \E r \in cs[q].args :
                s = Led(r, index, n, index, Kept)
  <2>1. PICK p : p = Place(index, n, 1, q)
    OBVIOUS
  <2>2. p \in 1 .. (m + n - 1) /\ new[p] = cs[q]
    <3>1. p \in 1 .. (m + n - 1)
      BY <1>11, <2>1 DEF Place
    <3>2. new[p] = cs[q]
      BY <1>4, <1>11, <2>1 DEF Composed, InPlace
    <3>. QED BY <3>1, <3>2
  <2>3. args[p] = {F(r) : r \in cs[q].args}
    BY <1>5, <1>9, <2>2 DEF IsProgram
  <2>4. ASSUME NEW r \in cs[q].args
        PROVE  F(r) = Led(r, index, n, index, Kept)
    <3>0. Understood(cs, q, index, r)
      BY <1>1, <2>4, WhatIsMeant
    <3>1. PICK a \in Int, e \in Elements, means \in Meaning :
            r = [at |-> a, element |-> e, means |-> means]
      BY <3>0 DEF Understood, Reference
    <3>3. CASE a = index
      <4>1. F(r) = r
        BY <3>1, <3>3 DEF F
      <4>2. Led(r, index, n, index, Kept) = [at |-> index, element |-> e, means |-> means]
        BY <3>1, <3>3 DEF Led
      <4>. QED BY <3>1, <3>3, <4>1, <4>2
    <3>4. CASE a # index
      BY <3>1, <3>4 DEF F, Led
    <3>. QED BY <3>3, <3>4
  <2>. QED BY <2>1, <2>3, <2>4
<1>12. Redirected(moved, cs, m, index, n, block, index, Kept)
  <2>1. LedBehind(args, cs, m, index, n, index, Kept)
    BY <1>11 DEF LedBehind
  <2>. QED BY <1>4, <1>10, <2>1, RedirectedBehind
<1>. QED BY <1>3, <1>4, <1>6, <1>12

\* ReplacedBy does the same, and makes any reference to the command that was replaced one to
\* the result that was named.
LEMMA ReplacedByShape ==
  ASSUME NEW cs, NEW top \in Nat, Wired(cs, top), NEW m \in Nat, m = Len(cs),
         NEW index \in 1 .. m, NEW block \in Seq(Command), NEW n \in Nat, n = Len(block),
         NEW at \in Int, NEW element \in Elements
  PROVE  /\ Redirected(ReplacedBy(cs, index, block, at, element),
                       cs, m, index, n, block, at, element)
         /\ Composed(Splice(cs, index, 1, block), cs, m, index, n, 1, block)
<1>. DEFINE F(r) == CASE r.at = index -> [r EXCEPT !.at = at, !.element = element]
                      [] r.at > index -> Shift(r, n - 1)
                      [] OTHER -> r
<1>1. cs \in Seq(Command) /\ DOMAIN cs = 1 .. m
  BY DEF Wired
<1>2. PICK new : new = Splice(cs, index, 1, block)
  OBVIOUS
<1>3. Composed(new, cs, m, index, n, 1, block)
  <2>1. index \in 1 .. (m + 1 - 1) /\ 1 \in {0, 1}
    OBVIOUS
  <2>. QED BY <1>1, <1>2, <2>1, SpliceComposes
<1>4. PICK args : args = [p \in DOMAIN new |-> {F(r) : r \in new[p].args}]
  OBVIOUS
<1>5. PICK moved : moved = ReplacedBy(cs, index, block, at, element)
  OBVIOUS
<1>6. moved = [p \in DOMAIN new |-> IF p \in 1 .. (index + n - 1) THEN new[p]
                                    ELSE [new[p] EXCEPT !.args = {F(r) : r \in @}]]
  BY <1>2, <1>5 DEF ReplacedBy, MapArguments
<1>. HIDE DEF F
<1>7. moved = [p \in DOMAIN new |-> IF p \in 1 .. (index + n - 1) THEN new[p]
                                    ELSE [new[p] EXCEPT !.args = args[p]]]
  BY <1>4, <1>6
<1>8. IsProgram(new, m + n - 1) /\ m + n - 1 \in Nat
  BY <1>3 DEF Composed
<1>9. Mapped(moved, new, m + n - 1, 1, index + n - 1, args)
  BY <1>7, <1>8, ArgumentsMapped
<1>10. ASSUME NEW q \in 1 .. m, q > index
       PROVE  \A s \in args[Place(index, n, 1, q)] : \E r \in cs[q].args :
                s = Led(r, index, n, at, element)
  <2>1. PICK p : p = Place(index, n, 1, q)
    OBVIOUS
  <2>2. p \in 1 .. (m + n - 1) /\ new[p] = cs[q]
    <3>1. p \in 1 .. (m + n - 1)
      BY <1>10, <2>1 DEF Place
    <3>2. new[p] = cs[q]
      BY <1>3, <1>10, <2>1 DEF Composed, InPlace
    <3>. QED BY <3>1, <3>2
  <2>3. args[p] = {F(r) : r \in cs[q].args}
    BY <1>4, <1>8, <2>2 DEF IsProgram
  <2>4. ASSUME NEW r \in cs[q].args
        PROVE  F(r) = Led(r, index, n, at, element)
    <3>1. Understood(cs, q, index, r)
      BY <1>1, <2>4, WhatIsMeant
    <3>2. r.at \in Int
      BY <3>1 DEF Understood, Reference
    <3>3. CASE r.at = index
      <4>1. ~ (r.at > index)
        BY <3>2, <3>3
      <4>2. PICK t : t = [r EXCEPT !.at = at, !.element = element]
        OBVIOUS
      <4>3. F(r) = t
        BY <3>3, <4>1, <4>2, Zenon DEF F
      <4>4. Led(r, index, n, at, element) = t
        <5>1. element # Kept
          BY DEF Elements, Whole, Kept
        <5>. QED BY <3>3, <4>2, <5>1 DEF Led
      <4>. QED BY <4>3, <4>4
    <3>4. CASE r.at # index /\ r.at > index
      BY <3>4, Zenon DEF F, Led
    <3>5. CASE r.at # index /\ ~ (r.at > index)
      BY <3>5, Zenon DEF F, Led
    <3>. QED BY <3>3, <3>4, <3>5
  <2>. QED BY <2>1, <2>3, <2>4
<1>11. Redirected(moved, cs, m, index, n, block, at, element)
  <2>1. LedBehind(args, cs, m, index, n, at, element)
    BY <1>10 DEF LedBehind
  <2>. QED BY <1>3, <1>9, <2>1, RedirectedBehind
<1>. QED BY <1>2, <1>3, <1>5, <1>11

\* With no reference to the command that goes, all else follows as it is.
LEMMA UnusedIsRight ==
  ASSUME NEW cs, NEW top \in Nat, Wired(cs, top), NEW m \in Nat, m = Len(cs), NEW n \in Nat,
         NEW index \in 1 .. m, NEW at, NEW element, NEW block, NEW moved,
         Redirected(moved, cs, m, index, n, block, at, element), References(cs, index) = {}
  PROVE  Edited(moved, cs, m, index, n, 1, block)
<1>1. DOMAIN cs = 1 .. m
  BY DEF Wired
<1>2. ASSUME NEW q \in 1 .. m, q # index
      PROVE  \A s \in moved[Place(index, n, 1, q)].args :
               \E r \in cs[q].args : Follows(moved, index, n, 1, r, s)
  <2>. TAKE s \in moved[Place(index, n, 1, q)].args
  <2>1. PICK r \in cs[q].args : s = Led(r, index, n, at, element)
    BY <1>2 DEF Redirected
  <2>2. Understood(cs, q, index, r)
    BY <1>1, <2>1, WhatIsMeant
  <2>3. PICK a \in Int, e \in Elements, means \in Meaning :
          r = [at |-> a, element |-> e, means |-> means]
    BY <2>2 DEF Understood, Reference
  <2>4. a # index
    BY <1>1, <2>1, <2>3 DEF References
  <2>5. Led(r, index, n, at, element) =
          [at |-> Place(index, n, 1, a), element |-> e, means |-> means]
    BY <2>3, <2>4 DEF Led, Shift, Place
  <2>6. Follows(moved, index, n, 1, r, s)
    BY <2>1, <2>3, <2>4, <2>5 DEF Follows
  <2>. QED BY <2>1, <2>6
<1>. QED BY <1>2 DEF Edited, Redirected

\* replaceCommand of an intent that nothing refers to, by a block or by nothing.
LEMMA ReplaceUnusedKeepsInv ==
  ASSUME DataInv, NEW index \in DOMAIN program, NEW n \in Nat, ReplaceUnused(index, n)
  PROVE  DataInv'
<1>1. PICK cs : cs = program
  OBVIOUS
<1>2. created \in Nat /\ Wired(cs, created) /\ cs \in Seq(Command)
  BY <1>1 DEF DataInv, Wired
<1>3. PICK m \in Nat : m = Len(cs) /\ index \in 1 .. m
  BY <1>1, <1>2
<1>4. PICK block \in Blocks(cs, index, n, 1 .. (index - 1)) :
        Edit(Replaced(cs, index, block), n)
  BY <1>1 DEF ReplaceUnused
<1>5. References(cs, index) = {}
  BY <1>1 DEF ReplaceUnused
<1>6. PICK final : final = program' /\ final = Replaced(cs, index, block)
  BY <1>4 DEF Edit
<1>7. Redirected(final, cs, m, index, n, block, index, Kept)
  BY <1>2, <1>3, <1>6, ReplacedShape
<1>8. Edited(final, cs, m, index, n, 1, block)
  BY <1>2, <1>3, <1>5, <1>7, UnusedIsRight
<1>9. Wired(final, created + n)
  <2>1. 1 \in {0, 1} /\ index \in 1 .. (m + 1 - 1)
    BY <1>3
  <2>. QED BY <1>2, <1>3, <1>8, <2>1, EditIsRight
<1>10. created' = created + n /\ created + n \in Nat
  BY <1>2, <1>4 DEF Edit
<1>. QED BY <1>6, <1>9, <1>10 DEF DataInv

\* replaceCommand with a result named to stand for that of the command.
LEMMA ReplaceWithResultKeepsInv ==
  ASSUME DataInv, NEW index \in DOMAIN program, NEW n \in Nat, NEW k \in 1 .. n,
         NEW element \in Elements, ReplaceWithResult(index, n, k, element)
  PROVE  DataInv'
<1>1. PICK cs : cs = program
  OBVIOUS
<1>2. created \in Nat /\ Wired(cs, created) /\ cs \in Seq(Command)
  BY <1>1 DEF DataInv, Wired
<1>3. PICK m \in Nat : m = Len(cs) /\ index \in 1 .. m
  BY <1>1, <1>2
<1>4. PICK block \in Blocks(cs, index, n, 1 .. (index - 1)) :
        Edit(Retarget(ReplacedBy(cs, index, block, index + k - 1, element), cs[index].id,
                      LAMBDA x : [id |-> block[k].id, element |-> element]), n)
  BY <1>1 DEF ReplaceWithResult
<1>5. PICK at \in 1 .. (index + n - 1) : at = index + k - 1
  BY <1>3
<1>6. PICK moved : moved = ReplacedBy(cs, index, block, at, element)
  OBVIOUS
<1>7. PICK final : final = program'
  OBVIOUS
<1>8. final = Aim(moved, cs[index].id, [id |-> block[k].id, element |-> element])
  BY <1>4, <1>5, <1>6, <1>7 DEF Edit, Retarget, MapArguments, Aim, Aimed
<1>9. block \in Seq(Command) /\ Len(block) = n
  <2>1. index \in 1 .. (m + 1)
    BY <1>3
  <2>. QED BY <1>2, <1>3, <2>1, BlockAnywhere DEF IsBlock
<1>10. /\ Redirected(moved, cs, m, index, n, block, at, element)
       /\ Composed(Splice(cs, index, 1, block), cs, m, index, n, 1, block)
  BY <1>2, <1>3, <1>5, <1>6, <1>9, ReplacedByShape
<1>11. /\ \A j \in 1 .. n : \A r \in block[j].args : r.means.id # cs[index].id
       /\ \A j \in 1 .. n : block[j].id \in Nat
  BY <1>2, <1>3, <1>10, BlockForOne
<1>12. moved[at].id = block[k].id
  <2>1. at \in index .. (index + n - 1) /\ at - index + 1 = k
    BY <1>3, <1>5
  <2>. QED BY <1>10, <2>1 DEF Redirected
<1>13. Edited(final, cs, m, index, n, 1, block)
  BY <1>2, <1>3, <1>8, <1>10, <1>11, <1>12, RedirectedIsRight
<1>14. Wired(final, created + n)
  <2>1. 1 \in {0, 1} /\ index \in 1 .. (m + 1 - 1)
    BY <1>3
  <2>. QED BY <1>2, <1>3, <1>13, <2>1, EditIsRight
<1>15. created' = created + n
  BY <1>4 DEF Edit
<1>. QED BY <1>2, <1>7, <1>14, <1>15 DEF DataInv

\* Inserted moves every reference to a command from the insertion on behind it.
LEMMA InsertedShape ==
  ASSUME NEW cs, NEW top \in Nat, Wired(cs, top), NEW m \in Nat, m = Len(cs),
         NEW index \in 1 .. (m + 1), NEW block \in Seq(Command), NEW n \in Nat, n = Len(block)
  PROVE  Edited(Inserted(cs, index, block), cs, m, index, n, 0, block)
<1>. DEFINE F(r) == IF r.at >= index THEN Shift(r, n) ELSE r
<1>1. cs \in Seq(Command) /\ DOMAIN cs = 1 .. m
  BY DEF Wired
<1>2. PICK new : new = Splice(cs, index, 0, block)
  OBVIOUS
<1>3. Composed(new, cs, m, index, n, 0, block)
  <2>1. index \in 1 .. (m + 1 - 0) /\ 0 \in {0, 1}
    OBVIOUS
  <2>. QED BY <1>1, <1>2, <2>1, SpliceComposes
<1>4. PICK args : args = [p \in DOMAIN new |-> {F(r) : r \in new[p].args}]
  OBVIOUS
<1>5. PICK moved : moved = Inserted(cs, index, block)
  OBVIOUS
<1>6. moved = [p \in DOMAIN new |-> IF p \in index .. (index + n - 1) THEN new[p]
                                    ELSE [new[p] EXCEPT !.args = {F(r) : r \in @}]]
  BY <1>2, <1>5 DEF Inserted, MapArguments
<1>. HIDE DEF F
<1>7. moved = [p \in DOMAIN new |-> IF p \in index .. (index + n - 1) THEN new[p]
                                    ELSE [new[p] EXCEPT !.args = args[p]]]
  BY <1>4, <1>6
<1>8. IsProgram(new, m + n - 0) /\ m + n - 0 \in Nat
  BY <1>3 DEF Composed
<1>9. Mapped(moved, new, m + n - 0, index, index + n - 1, args)
  BY <1>7, <1>8, ArgumentsMapped
<1>10. Outside(moved, cs, m, index, n, 0, block, args)
  <2>1. index \in 1 .. (m + 1 - 0) /\ 0 \in {0, 1}
    OBVIOUS
  <2>. QED BY <1>3, <1>9, <2>1, OutsideTheBlock
<1>11. ASSUME NEW q \in 1 .. m
       PROVE  \A s \in args[Place(index, n, 0, q)] : \E r \in cs[q].args :
                Follows(moved, index, n, 0, r, s)
  <2>1. PICK p : p = Place(index, n, 0, q)
    OBVIOUS
  <2>2. p \in 1 .. (m + n - 0) /\ new[p] = cs[q]
    BY <1>3, <1>10, <2>1 DEF Composed, InPlace, Outside
  <2>3. args[p] = {F(r) : r \in cs[q].args}
    BY <1>4, <1>8, <2>2 DEF IsProgram
  <2>4. ASSUME NEW r \in cs[q].args
        PROVE  Follows(moved, index, n, 0, r, F(r))
    <3>0. r \in Reference
      <4>1. cs[q] \in Command
        BY <1>1
      <4>. QED BY <2>4, <4>1 DEF Command
    <3>1. PICK a \in Int, e \in Elements, means \in Meaning :
            r = [at |-> a, element |-> e, means |-> means]
      BY <3>0 DEF Reference
    <3>2. F(r) = [at |-> Place(index, n, 0, a), element |-> e, means |-> means]
      BY <3>1 DEF F, Shift, Place
    <3>. QED BY <3>1, <3>2 DEF Follows
  <2>. QED BY <2>1, <2>3, <2>4
<1>12. /\ IsProgram(moved, m + n - 0)
       /\ \A p \in index .. (index + n - 1) :
            /\ moved[p].id = block[p - index + 1].id
            /\ moved[p].args \subseteq block[p - index + 1].args
       /\ \A q \in 1 .. m :
            /\ moved[Place(index, n, 0, q)].id = cs[q].id
            /\ moved[Place(index, n, 0, q)].args = args[Place(index, n, 0, q)]
  BY <1>10 DEF Outside
<1>13. Edited(moved, cs, m, index, n, 0, block)
  BY <1>11, <1>12, Zenon DEF Edited
<1>. QED BY <1>5, <1>13

\* insertTransaction, at any place and at the end.
LEMMA InsertTransactionKeepsInv ==
  ASSUME DataInv, NEW index \in 1 .. (Len(program) + 1), NEW n \in Nat,
         InsertTransaction(index, n)
  PROVE  DataInv'
<1>1. PICK cs : cs = program
  OBVIOUS
<1>2. created \in Nat /\ Wired(cs, created) /\ cs \in Seq(Command)
  BY <1>1 DEF DataInv, Wired
<1>3. PICK m \in Nat : m = Len(cs) /\ index \in 1 .. (m + 1)
  BY <1>1, <1>2
<1>4. PICK block \in Blocks(cs, index, n, {}) : Edit(Inserted(cs, index, block), n)
  BY <1>1 DEF InsertTransaction
<1>5. {} \in SUBSET (1 .. (index - 1))
  OBVIOUS
<1>6. block \in Seq(Command) /\ Len(block) = n
  BY <1>2, <1>3, <1>5, BlockAnywhere DEF IsBlock
<1>7. PICK final : final = program' /\ final = Inserted(cs, index, block)
  BY <1>4 DEF Edit
<1>8. Edited(final, cs, m, index, n, 0, block)
  BY <1>2, <1>3, <1>6, <1>7, InsertedShape
<1>9. Wired(final, created + n)
  <2>1. 0 \in {0, 1} /\ index \in 1 .. (m + 1 - 0)
    BY <1>3
  <2>. QED BY <1>2, <1>3, <1>5, <1>8, <2>1, EditIsRight
<1>10. created' = created + n
  BY <1>4 DEF Edit
<1>. QED BY <1>2, <1>7, <1>9, <1>10 DEF DataInv

\* replaceCommandWithTransaction: the insertion leaves the intent behind the other
\* transaction, and when it goes its references are to one in front of it.
LEMMA ReplaceWithTransactionKeepsInv ==
  ASSUME DataInv, NEW index \in DOMAIN program, NEW n \in Nat, NEW k \in 1 .. n,
         NEW element \in Elements, ReplaceWithTransaction(index, n, k, element)
  PROVE  DataInv'
<1>1. PICK cs : cs = program
  OBVIOUS
<1>2. created \in Nat /\ Wired(cs, created) /\ cs \in Seq(Command)
  BY <1>1 DEF DataInv, Wired
<1>3. PICK m \in Nat : m = Len(cs) /\ index \in 1 .. m /\ index \in 1 .. (m + 1)
  BY <1>1, <1>2
<1>. DEFINE first == IF element = Whole THEN 0 ELSE element
<1>4. first \in Elements
  BY DEF Elements
<1>5. PICK block \in Blocks(cs, index, n, {}) :
        Edit(Retarget(ReplacedBy(Inserted(cs, index, block), index + n, <<>>,
                                 index + k - 1, first),
                      cs[index].id,
                      LAMBDA x : [id |-> block[k].id, element |-> first]), n)
  BY <1>1 DEF ReplaceWithTransaction
<1>. HIDE DEF first
<1>6. PICK inserted : inserted = Inserted(cs, index, block)
  OBVIOUS
<1>7. PICK end, at, top, size :
        end = index + n /\ at = index + k - 1 /\ top = created + n /\ size = m + n
  OBVIOUS
<1>7a. end \in Nat /\ at \in Int /\ top \in Nat /\ size \in Nat
  BY <1>2, <1>3, <1>7
<1>8. PICK moved : moved = ReplacedBy(inserted, end, <<>>, at, first)
  OBVIOUS
<1>9. PICK final : final = program'
  OBVIOUS
<1>10. final = Aim(moved, cs[index].id, [id |-> block[k].id, element |-> first])
  BY <1>5, <1>6, <1>7, <1>8, <1>9 DEF Edit, Retarget, MapArguments, Aim, Aimed
<1>11. {} \in SUBSET (1 .. (index - 1))
  OBVIOUS
<1>12. IsBlock(cs, index, n, {}, block)
  BY <1>2, <1>3, <1>11, BlockAnywhere
<1>13. block \in Seq(Command) /\ Len(block) = n /\ block[k].id = created + k
  BY <1>12 DEF IsBlock
<1>14. Edited(inserted, cs, m, index, n, 0, block)
  BY <1>2, <1>3, <1>6, <1>13, InsertedShape
<1>15. Wired(inserted, top) /\ Len(inserted) = size
  <2>1. 0 \in {0, 1} /\ index \in 1 .. (m + 1 - 0)
    BY <1>3
  <2>2. Wired(inserted, created + n)
    BY <1>2, <1>3, <1>11, <1>14, <2>1, EditIsRight
  <2>3. DOMAIN inserted = 1 .. size /\ inserted \in Seq(Command)
    <3>1. IsProgram(inserted, m + n - 0) /\ m + n - 0 = size
      BY <1>7, <1>14 DEF Edited
    <3>. QED BY <2>2, <3>1 DEF IsProgram, Wired
  <2>. QED BY <1>7, <1>7a, <2>2, <2>3
<1>16. inserted[end].id = cs[index].id /\ inserted[at].id = block[k].id
  <2>1. Place(index, n, 0, index) = end
    BY <1>3, <1>7 DEF Place
  <2>2. at \in index .. (index + n - 1) /\ at - index + 1 = k
    BY <1>3, <1>7
  <2>3. inserted[Place(index, n, 0, index)].id = cs[index].id
    BY <1>3, <1>14 DEF Edited
  <2>4. inserted[at].id = block[at - index + 1].id
    BY <1>14, <2>2, Zenon DEF Edited
  <2>. QED BY <2>1, <2>2, <2>3, <2>4, Zenon
<1>17. end \in 1 .. size /\ at \in 1 .. (end + 0 - 1) /\ at \in 1 .. size /\ at < end
  <2>1. end \in 1 .. size
    BY <1>3, <1>7
  <2>2. at < end /\ at >= 1
    BY <1>3, <1>7
  <2>. QED BY <1>7a, <2>1, <2>2
<1>18. Redirected(moved, inserted, size, end, 0, <<>>, at, first)
  <2>1. <<>> \in Seq(Command) /\ 0 = Len(<<>>) /\ 0 \in Nat
    OBVIOUS
  <2>. QED BY <1>4, <1>7a, <1>7, <1>8, <1>15, <1>17, <2>1, ReplacedByShape
<1>19. moved[at].id = block[k].id /\ moved[at].id \in Nat
  <2>1. Place(end, 0, 1, at) = at /\ at # end
    BY <1>7, <1>7a, <1>17 DEF Place
  <2>2. moved[at].id = inserted[at].id
    BY <1>17, <1>18, <2>1 DEF Redirected
  <2>. QED BY <1>2, <1>13, <1>16, <2>2
<1>20. Edited(final, inserted, size, end, 0, 1, <<>>)
  <2>1. \A j \in 1 .. 0 : \A r \in <<>>[j].args : r.means.id # inserted[end].id
    OBVIOUS
  <2>2. final = Aim(moved, inserted[end].id, [id |-> moved[at].id, element |-> first])
    BY <1>10, <1>16, <1>19, Zenon
  <2>. QED BY <1>7, <1>7a, <1>4, <1>15, <1>17, <1>18, <1>19, <2>1, <2>2, RedirectedIsRight
<1>21. Wired(final, top + 0)
  <2>1. 1 \in {0, 1} /\ 0 \in Nat /\ end \in 1 .. (size + 1 - 1)
    BY <1>17, <1>7a
  <2>2. IsProgram(final, size + 0 - 1)
    BY <1>20 DEF Edited
  <2>3. NewOnes(final, top, end, 0)
    BY <1>7a DEF NewOnes
  <2>4. OthersFollow(final, inserted, end, 0, 1)
    <3>1. DOMAIN inserted = 1 .. size
      BY <1>15 DEF Wired
    <3>. QED BY <1>20, <3>1, Zenon DEF Edited, OthersFollow
  <2>. QED BY <1>7, <1>7a, <1>4, <1>15, <2>1, <2>2, <2>3, <2>4, EditsKeepWiring
<1>22. created' = created + n
  BY <1>5 DEF Edit
<1>23. created' = top /\ top + 0 = top
  BY <1>7, <1>7a, <1>22
<1>. QED BY <1>7, <1>7a, <1>9, <1>21, <1>23 DEF DataInv

\* What becomes of a reference when a coin intent has given way to n commands: a whole
\* result leads to the coin of the last one, and what it was made for is meant for that.
Moved(r, index, n) == IF r.at = index /\ r.element = Whole
                      THEN [r EXCEPT !.at = LastOfBlock(index, n), !.element = 0] ELSE r
Coined(r, from, split, n) ==
  IF r.means.id = from THEN [r EXCEPT !.means = CoinMeant(r.means, split, n)] ELSE r

\* Such a reference follows its command, is to the coin of the split, or has lost what it
\* was made for, an element of several commands.
LEMMA CoinFollows ==
  ASSUME NEW cs, NEW q, NEW n \in Nat \ {0}, NEW index \in Nat \ {0}, NEW r,
         Understood(cs, q, index, r), NEW split \in Nat,
         NEW new, new[index + n - 1].id = split
  PROVE  Follows(new, index, n, 1, r,
                 Coined(Moved(Led(r, index, n, index, Kept), index, n), cs[index].id, split, n))
<1>1. PICK s : s = Coined(Moved(Led(r, index, n, index, Kept), index, n), cs[index].id, split, n)
  OBVIOUS
<1>2. PICK a \in Int, e \in Elements, means \in Meaning :
        r = [at |-> a, element |-> e, means |-> means]
  BY DEF Understood, Reference
<1>3. r.at = a /\ r.element = e /\ r.means = means
  BY <1>2
<1>4. PICK from : from = cs[index].id
  OBVIOUS
<1>5. PICK last \in 1 .. (index + n - 1) : last = index + n - 1
  OBVIOUS
<1>6. /\ means.id = from <=> a = index /\ means # Lost
      /\ index \in 1 .. (index + n - 1)
  BY <1>3, <1>4 DEF Understood
<1>7. CASE a # index
  <2>1. PICK p \in Int : p = Place(index, n, 1, a) /\ p # index
    BY <1>7 DEF Place
  <2>2. Led(r, index, n, index, Kept) = [at |-> p, element |-> e, means |-> means]
    BY <1>2, <1>7, <2>1 DEF Led, Shift, Place
  <2>3. Moved([at |-> p, element |-> e, means |-> means], index, n) =
          [at |-> p, element |-> e, means |-> means]
    BY <2>1 DEF Moved
  <2>4. s = [at |-> p, element |-> e, means |-> means]
    BY <1>1, <1>4, <1>6, <1>7, <2>2, <2>3 DEF Coined
  <2>. QED BY <1>1, <1>3, <1>7, <2>1, <2>4 DEF Follows
<1>8. CASE a = index
  <2>1. Led(r, index, n, index, Kept) = [at |-> index, element |-> e, means |-> means]
    BY <1>2, <1>8 DEF Led
  <2>2. PICK at \in 1 .. (index + n - 1), f \in Elements :
          /\ Moved([at |-> index, element |-> e, means |-> means], index, n) =
               [at |-> at, element |-> f, means |-> means]
          /\ e = Whole => at = last /\ f = 0
          /\ e # Whole => at = index /\ f = e
    <3>1. CASE e = Whole
      <4>1. Moved([at |-> index, element |-> e, means |-> means], index, n) =
              [at |-> last, element |-> 0, means |-> means]
        BY <1>5, <3>1 DEF Moved, LastOfBlock
      <4>. QED BY <1>5, <3>1, <4>1 DEF Elements
    <3>2. CASE e # Whole
      <4>1. Moved([at |-> index, element |-> e, means |-> means], index, n) =
              [at |-> index, element |-> e, means |-> means]
        BY <3>2 DEF Moved
      <4>. QED BY <1>6, <3>2, <4>1
    <3>. QED BY <3>1, <3>2
  <2>3. PICK to \in Meaning : /\ s = [at |-> at, element |-> f, means |-> to]
                              /\ to \in {Lost, [id |-> new[at].id, element |-> f]}
    <3>1. CASE means = Lost
      <4>1. s = [at |-> at, element |-> f, means |-> means]
        BY <1>1, <1>4, <1>6, <2>1, <2>2, <3>1 DEF Coined
      <4>. QED BY <3>1, <4>1
    <3>2. CASE means # Lost
      <4>1. s = [at |-> at, element |-> f, means |-> CoinMeant(means, split, n)]
        BY <1>1, <1>4, <1>6, <1>8, <2>1, <2>2, <3>2 DEF Coined
      <4>2. means.element = e
        BY <1>3, <3>2 DEF Understood
      <4>3. CASE e = Whole \/ (e = 0 /\ n = 1)
        <5>1. at = last /\ f = 0
          BY <1>5, <2>2, <4>3 DEF Whole
        <5>2. CoinMeant(means, split, n) = [id |-> split, element |-> 0]
          BY <4>2, <4>3 DEF CoinMeant
        <5>3. new[at].id = split
          BY <1>5, <5>1
        <5>4. [id |-> split, element |-> 0] \in Meaning
          BY DEF Meaning, Elements
        <5>. QED BY <4>1, <5>1, <5>2, <5>3, <5>4
      <4>4. CASE ~ (e = Whole \/ (e = 0 /\ n = 1))
        <5>1. CoinMeant(means, split, n) = Lost
          BY <4>2, <4>4 DEF CoinMeant
        <5>2. Lost \in Meaning
          BY DEF Lost, Meaning, Elements, Whole
        <5>. QED BY <4>1, <5>1, <5>2
      <4>. QED BY <4>3, <4>4
    <3>. QED BY <3>1, <3>2
  <2>4. s \in Reference
    BY <2>3 DEF Reference
  <2>5. s.at = at /\ s.element = f /\ s.means = to
    BY <2>3
  <2>. QED BY <1>1, <1>3, <1>8, <2>3, <2>4, <2>5 DEF Follows
<1>. QED BY <1>7, <1>8

\* A coin intent that is resolved: its whole result is the coin that is split off last.
LEMMA ResolveCoinKeepsInv ==
  ASSUME DataInv, NEW index \in DOMAIN program, NEW n \in Nat \ {0}, ResolveCoin(index, n)
  PROVE  DataInv'
<1>1. PICK cs : cs = program
  OBVIOUS
<1>2. created \in Nat /\ Wired(cs, created) /\ cs \in Seq(Command)
  BY <1>1 DEF DataInv, Wired
<1>3. PICK m \in Nat : m = Len(cs) /\ index \in 1 .. m /\ DOMAIN cs = 1 .. m
  BY <1>1, <1>2
<1>. DEFINE G(r) == Moved(r, index, n)
<1>4. PICK block \in Blocks(cs, index, n, 1 .. (index - 1)) :
        Edit(Retarget(MapArguments(Replaced(cs, index, block), index, index + n - 1,
                          LAMBDA r : IF r.at = index /\ r.element = Whole
                                     THEN [r EXCEPT !.at = LastOfBlock(index, n), !.element = 0]
                                     ELSE r),
                      cs[index].id, LAMBDA x : CoinMeant(x, block[n].id, n)), n)
  BY <1>1 DEF ResolveCoin
<1>6. PICK new : new = Replaced(cs, index, block)
  OBVIOUS
<1>7. PICK moved : moved = [p \in DOMAIN new |->
                              IF p \in index .. (index + n - 1) THEN new[p]
                              ELSE [new[p] EXCEPT !.args = {G(r) : r \in @}]]
  OBVIOUS
<1>. DEFINE To(r) == Coined(r, cs[index].id, block[n].id, n)
<1>8. PICK final : final = program'
  OBVIOUS
<1>9. final = [p \in DOMAIN moved |-> IF p \in 0 .. 0 THEN moved[p]
                                     ELSE [moved[p] EXCEPT !.args = {To(r) : r \in @}]]
  BY <1>4, <1>6, <1>7, <1>8 DEF Edit, Retarget, MapArguments, Coined, Moved
<1>10. index + n - 1 \in index .. (index + n - 1) /\ (index + n - 1) - index + 1 = n
  BY <1>3
<1>11. /\ Redirected(new, cs, m, index, n, block, index, Kept)
       /\ Composed(Splice(cs, index, 1, block), cs, m, index, n, 1, block)
  BY <1>2, <1>3, <1>6, ReplacedShape
<1>. HIDE DEF G, To
<1>12. PICK args : args = [p \in DOMAIN new |-> {G(r) : r \in new[p].args}]
  OBVIOUS
<1>13. Mapped(moved, new, m + n - 1, index, index + n - 1, args)
  <2>1. moved = [p \in DOMAIN new |-> IF p \in index .. (index + n - 1) THEN new[p]
                                      ELSE [new[p] EXCEPT !.args = args[p]]]
    BY <1>7, <1>12
  <2>2. IsProgram(new, m + n - 1) /\ m + n - 1 \in Nat
    BY <1>11 DEF Redirected
  <2>. QED BY <2>1, <2>2, ArgumentsMapped
<1>14. PICK ends : ends = [p \in DOMAIN moved |-> {To(r) : r \in moved[p].args}]
  OBVIOUS
<1>15. Mapped(final, moved, m + n - 1, 0, 0, ends)
  <2>1. final = [p \in DOMAIN moved |-> IF p \in 0 .. 0 THEN moved[p]
                                        ELSE [moved[p] EXCEPT !.args = ends[p]]]
    BY <1>9, <1>14
  <2>2. IsProgram(moved, m + n - 1) /\ m + n - 1 \in Nat
    BY <1>11, <1>13 DEF Redirected, Mapped
  <2>. QED BY <2>1, <2>2, ArgumentsMapped
<1>16. ASSUME NEW p \in 1 .. (m + n - 1)
       PROVE  /\ final[p].id = new[p].id
              /\ \A s \in final[p].args : \E x \in moved[p].args : s = To(x)
              /\ moved[p].args = IF p \in index .. (index + n - 1) THEN new[p].args
                                 ELSE {G(r) : r \in new[p].args}
  <2>1. p \notin 0 .. 0
    OBVIOUS
  <2>2. DOMAIN new = 1 .. (m + n - 1) /\ DOMAIN moved = 1 .. (m + n - 1)
    BY <1>7, <1>11 DEF Redirected, IsProgram
  <2>3. final[p].id = moved[p].id /\ final[p].args = ends[p]
    BY <1>15, <2>1, Zenon DEF Mapped
  <2>4. /\ moved[p].id = new[p].id
        /\ moved[p].args = IF p \in index .. (index + n - 1) THEN new[p].args ELSE args[p]
    BY <1>13, Zenon DEF Mapped
  <2>5. ends[p] = {To(r) : r \in moved[p].args} /\ args[p] = {G(r) : r \in new[p].args}
    BY <1>12, <1>14, <2>2
  <2>. QED BY <2>3, <2>4, <2>5
<1>17. /\ \A j \in 1 .. n : \A r \in block[j].args : r.means.id # cs[index].id
       /\ \A j \in 1 .. n : block[j].id \in Nat
  BY <1>2, <1>3, <1>11, BlockForOne
<1>18. ASSUME NEW p \in index .. (index + n - 1)
       PROVE  /\ final[p].id = block[p - index + 1].id
              /\ final[p].args \subseteq block[p - index + 1].args
  <2>1. p \in 1 .. (m + n - 1) /\ p - index + 1 \in 1 .. n
    BY <1>3
  <2>2. new[p].id = block[p - index + 1].id /\ new[p].args = block[p - index + 1].args
    BY <1>11 DEF Redirected
  <2>3. ASSUME NEW s \in final[p].args
        PROVE  s \in new[p].args
    <3>1. PICK x \in new[p].args : s = To(x)
      BY <1>16, <1>18, <2>1, <2>3
    <3>2. x.means.id # cs[index].id
      BY <1>17, <2>1, <2>2, <3>1
    <3>. QED BY <3>1, <3>2 DEF To, Coined
  <2>. QED BY <1>16, <2>1, <2>2, <2>3
<1>19. final[index + n - 1].id = block[n].id /\ block[n].id \in Nat
  BY <1>10, <1>17, <1>18
<1>20. ASSUME NEW q \in 1 .. m, q # index
       PROVE  /\ final[Place(index, n, 1, q)].id = cs[q].id
              /\ \A s \in final[Place(index, n, 1, q)].args :
                   \E r \in cs[q].args : Follows(final, index, n, 1, r, s)
  <2>1. PICK p : p = Place(index, n, 1, q)
    OBVIOUS
  <2>2. /\ p \in 1 .. (m + n - 1) /\ new[p].id = cs[q].id
        /\ \A s \in new[p].args : \E r \in cs[q].args : s = Led(r, index, n, index, Kept)
    BY <1>11, <1>20, <2>1, Zenon DEF Redirected
  <2>3. p \notin index .. (index + n - 1)
    BY <1>3, <1>20, <2>1 DEF Place
  <2>4. ASSUME NEW s \in final[p].args
        PROVE  \E r \in cs[q].args : Follows(final, index, n, 1, r, s)
    <3>1. PICK t \in new[p].args : s = To(G(t))
      <4>1. PICK x \in moved[p].args : s = To(x)
        BY <1>16, <2>2, <2>4
      <4>2. moved[p].args = {G(r) : r \in new[p].args}
        BY <1>16, <2>2, <2>3, Zenon
      <4>. QED BY <4>1, <4>2
    <3>2. PICK r \in cs[q].args : t = Led(r, index, n, index, Kept)
      BY <2>2, <3>1
    <3>3. Understood(cs, q, index, r)
      BY <1>2, <1>3, <3>2, WhatIsMeant
    <3>4. Follows(final, index, n, 1, r,
                  Coined(Moved(Led(r, index, n, index, Kept), index, n),
                         cs[index].id, block[n].id, n))
      <4>1. index \in Nat \ {0} /\ final[index + n - 1].id = block[n].id /\ block[n].id \in Nat
        BY <1>3, <1>19
      <4>. QED BY <3>3, <4>1, CoinFollows
    <3>. QED BY <3>1, <3>2, <3>4 DEF To, G
  <2>. QED BY <1>16, <2>1, <2>2, <2>4
<1>21. Edited(final, cs, m, index, n, 1, block)
  <2>1. IsProgram(final, m + n - 1)
    BY <1>15 DEF Mapped
  <2>2. \A q \in 1 .. m : q # index \/ 1 = 0 =>
          /\ final[Place(index, n, 1, q)].id = cs[q].id
          /\ \A s \in final[Place(index, n, 1, q)].args :
               \E r \in cs[q].args : Follows(final, index, n, 1, r, s)
    BY <1>20
  <2>. QED BY <1>18, <2>1, <2>2, Zenon DEF Edited
<1>22. Wired(final, created + n)
  <2>1. 1 \in {0, 1} /\ index \in 1 .. (m + 1 - 1)
    BY <1>3
  <2>. QED BY <1>2, <1>3, <1>21, <2>1, EditIsRight
<1>23. created' = created + n
  BY <1>4 DEF Edit
<1>. QED BY <1>2, <1>8, <1>22, <1>23 DEF DataInv

\* A command that takes the place of an intent takes over its references, element by element.
LEMMA ReplaceOneKeepsInv ==
  ASSUME DataInv, NEW index \in DOMAIN program, ReplaceOne(index)
  PROVE  DataInv'
<1>1. PICK cs : cs = program
  OBVIOUS
<1>2. created \in Nat /\ Wired(cs, created) /\ cs \in Seq(Command)
  BY <1>1 DEF DataInv, Wired
<1>3. PICK m \in Nat : m = Len(cs) /\ DOMAIN cs = 1 .. m
  BY <1>2
<1>4. /\ index \in 1 .. m /\ index \in 1 .. (m + 1 - 1) /\ index \in 1 .. (m + 1)
      /\ index \in Nat \ {0}
  BY <1>1, <1>3
<1>5. PICK block \in Blocks(cs, index, 1, 1 .. (index - 1)) :
        Edit(Retarget([cs EXCEPT ![index] = block[1]], cs[index].id,
                      LAMBDA x : [x EXCEPT !.id = block[1].id]), 1)
  BY <1>1 DEF ReplaceOne
<1>6. IsBlock(cs, index, 1, 1 .. (index - 1), block)
  <2>1. \A q \in 1 .. (index - 1) : cs[q].id \in Nat
    BY <1>1, <1>2, <1>3 DEF Wired
  <2>. QED BY <1>2, <1>4, <2>1, BlockShape
<1>. DEFINE To(r) == IF r.means.id = cs[index].id
                     THEN [r EXCEPT !.means = [r.means EXCEPT !.id = block[1].id]] ELSE r
<1>7. PICK new : new = [cs EXCEPT ![index] = block[1]]
  OBVIOUS
<1>8. PICK args : args = [p \in DOMAIN new |-> {To(r) : r \in new[p].args}]
  OBVIOUS
<1>9. PICK final : final = program'
  OBVIOUS
<1>10. final = [p \in DOMAIN new |-> IF p \in 0 .. 0 THEN new[p]
                                    ELSE [new[p] EXCEPT !.args = {To(r) : r \in @}]]
  BY <1>5, <1>7, <1>9 DEF Edit, Retarget, MapArguments
<1>11. created' = created + 1
  BY <1>5 DEF Edit
<1>. HIDE DEF To
<1>12. final = [p \in DOMAIN new |-> IF p \in 0 .. 0 THEN new[p]
                                    ELSE [new[p] EXCEPT !.args = args[p]]]
  BY <1>8, <1>10
<1>13. Composed(new, cs, m, index, 1, 1, block)
  <2>1. block \in Seq(Command) /\ Len(block) = 1
    BY <1>6, Zenon DEF IsBlock
  <2>2. new \in [1 .. m -> Command]
    <3>1. block[1] \in Command /\ cs \in [1 .. m -> Command]
      <4>1. 1 \in DOMAIN block
        BY <2>1
      <4>2. cs \in [1 .. m -> Command]
        BY <1>2, <1>3
      <4>3. block[1] \in Command
        BY <2>1, <4>1
      <4>. QED BY <4>2, <4>3
    <3>. QED BY <1>7, <3>1
  <2>3. IsProgram(new, m + 1 - 1)
    BY <2>2 DEF IsProgram, Command
  <2>4. InPlace(new, cs, m, index, 1, 1, block)
    <3>1. new \in Seq(Command) /\ Len(new) = m + 1 - 1
      BY <2>2
    <3>. QED BY <1>3, <1>4, <1>7, <3>1 DEF InPlace, Place
  <2>. QED BY <2>3, <2>4 DEF Composed
<1>14. IsProgram(new, m) /\ m + 1 - 1 = m
  BY <1>13 DEF Composed
<1>15. Mapped(final, new, m, 0, 0, args)
  BY <1>12, <1>14, ArgumentsMapped
<1>16. ASSUME NEW p \in 1 .. m
       PROVE  /\ final[p].id = new[p].id
              /\ \A s \in final[p].args : \E r \in new[p].args : s = To(r)
  <2>1. DOMAIN new = 1 .. m
    BY <1>14 DEF IsProgram
  <2>2. p \notin 0 .. 0
    OBVIOUS
  <2>3. final[p].id = new[p].id /\ final[p].args = args[p]
    BY <1>15, <2>2 DEF Mapped
  <2>4. args[p] = {To(r) : r \in new[p].args}
    BY <1>8, <2>1
  <2>. QED BY <2>3, <2>4
<1>17. \A p \in index .. (index + 1 - 1) : /\ final[p].id = block[p - index + 1].id
                                           /\ final[p].args \subseteq block[p - index + 1].args
  <2>. TAKE p \in index .. (index + 1 - 1)
  <2>1. p = index /\ p - index + 1 = 1
    BY <1>4
  <2>2. new[index] = block[1]
    BY <1>3, <1>4, <1>7
  <2>3. final[index].id = block[1].id
    BY <1>4, <1>16, <2>2
  <2>4. ASSUME NEW s \in final[index].args
        PROVE  s \in block[1].args
    <3>1. PICK r \in block[1].args : s = To(r)
      BY <1>4, <1>16, <2>2, <2>4
    <3>2. BlockIsRight(new, cs, m, index, 1, block)
      <4>1. \A q \in 1 .. (index - 1) : new[q].id = cs[q].id
        BY <1>3, <1>4, <1>7
      <4>2. \A q \in index .. (index + 1 - 1) : new[q].id = block[q - index + 1].id
        BY <1>13 DEF Composed, InPlace
      <4>. QED BY <1>2, <1>3, <1>4, <4>1, <4>2, BlocksAreRight
    <3>3. r.means.id # cs[index].id
      BY <1>4, <2>1, <3>1, <3>2 DEF BlockIsRight
    <3>. QED BY <3>1, <3>3 DEF To
  <2>. QED BY <2>1, <2>3, <2>4
<1>18. ASSUME NEW q \in 1 .. m, q # index
       PROVE  /\ final[Place(index, 1, 1, q)].id = cs[q].id
              /\ \A s \in final[Place(index, 1, 1, q)].args :
                   \E r \in cs[q].args : Follows(final, index, 1, 1, r, s)
  <2>1. Place(index, 1, 1, q) = q /\ new[q] = cs[q]
    BY <1>3, <1>4, <1>7, <1>18 DEF Place
  <2>2. ASSUME NEW s \in final[q].args
        PROVE  \E r \in cs[q].args : Follows(final, index, 1, 1, r, s)
    <3>1. PICK r \in cs[q].args : s = To(r)
      BY <1>16, <2>1, <2>2
    <3>2. Understood(cs, q, index, r)
      BY <1>2, <1>3, <1>4, <3>1, WhatIsMeant
    <3>3. CASE r.at = index /\ r.means # Lost
      <4>1. s = [at |-> index, element |-> r.element,
                 means |-> [id |-> block[1].id, element |-> r.element]]
        BY <3>1, <3>2, <3>3 DEF To, Understood
      <4>2. block[1].id = final[index].id
        BY <1>4, <1>17
      <4>3. s \in Reference /\ s.at \in 1 .. (index + 1 - 1)
        <5>1. block[1].id \in Nat
          BY <1>2, <1>6 DEF IsBlock
        <5>. QED BY <1>4, <3>2, <4>1, <5>1 DEF Understood, Reference, Meaning
      <4>. QED BY <3>1, <3>3, <4>1, <4>2, <4>3 DEF Follows
    <3>4. CASE r.at # index
      <4>1. s = r /\ Place(index, 1, 1, r.at) = r.at
        BY <3>1, <3>2, <3>4 DEF To, Place, Understood
      <4>. QED BY <3>1, <3>2, <3>4, <4>1 DEF Follows, Understood
    <3>5. CASE r.at = index /\ r.means = Lost
      <4>1. s = r
        BY <3>1, <3>2, <3>5, Zenon DEF To, Understood
      <4>2. s \in Reference /\ s.at \in 1 .. (index + 1 - 1)
        BY <1>4, <3>2, <3>5, <4>1 DEF Understood
      <4>. QED BY <3>1, <3>5, <4>1, <4>2 DEF Follows
    <3>. QED BY <3>1, <3>3, <3>4, <3>5
  <2>. QED BY <1>16, <2>1, <2>2
<1>19. Edited(final, cs, m, index, 1, 1, block)
  <2>1. IsProgram(final, m + 1 - 1)
    BY <1>14, <1>15 DEF Mapped
  <2>2. \A q \in 1 .. m : q # index \/ 1 = 0 =>
          /\ final[Place(index, 1, 1, q)].id = cs[q].id
          /\ \A s \in final[Place(index, 1, 1, q)].args :
               \E r \in cs[q].args : Follows(final, index, 1, 1, r, s)
    BY <1>18
  <2>. QED BY <1>17, <2>1, <2>2 DEF Edited
<1>20. Wired(final, created + 1)
  <2>1. 1 \in {0, 1} /\ 1 \in Nat
    OBVIOUS
  <2>. QED BY <1>2, <1>3, <1>4, <1>19, <2>1, EditIsRight
<1>. QED BY <1>9, <1>11, <1>2, <1>20 DEF DataInv

-----------------------------------------------------------------------------
\* The transaction that is built before there are intents to resolve is wired.
LEMMA DataInitHolds == DataInit => DataInv
<1>. SUFFICES ASSUME DataInit PROVE DataInv
  OBVIOUS
<1>1. MaxLength \in Nat /\ created = MaxLength
  BY BoundsAssumption DEF DataInit
<1>2. PICK c \in Blocks(<<>>, 1, MaxLength, {}) :
        program = [k \in 1 .. MaxLength |-> [c[k] EXCEPT !.id = @ - MaxLength,
                    !.args = {[r EXCEPT !.means.id = @ - MaxLength] : r \in c[k].args}]]
  BY DEF DataInit
<1>3. IsBlock(<<>>, 1, MaxLength, {}, c)
  <2>1. {} \in SUBSET (1 .. (1 - 1)) /\ 1 \in Nat \ {0} /\ \A p \in {} : <<>>[p].id \in Nat
    OBVIOUS
  <2>. QED BY <1>1, <2>1, BlockShape
<1>. DEFINE Back(r) == [r EXCEPT !.means.id = @ - MaxLength]
<1>4. ASSUME NEW k \in 1 .. MaxLength, NEW r \in c[k].args
      PROVE  \E a \in 1 .. (k - 1), e \in Elements :
               Back(r) = [at |-> a, element |-> e, means |-> [id |-> a, element |-> e]]
  <2>1. /\ r \in Reference /\ r.at \in 1 .. (k - 1)
        /\ r.means = [id |-> MaxLength + r.at, element |-> r.element]
    <3>1. /\ r \in Reference /\ r.at \in {} \cup 1 .. (1 + k - 2)
          /\ r.means = [id |-> IF r.at < 1 THEN <<>>[r.at].id ELSE created + (r.at - 1 + 1),
                        element |-> r.element]
      BY <1>3, <1>4, Zenon DEF IsBlock
    <3>2. r.at \in 1 .. (k - 1) /\ ~ (r.at < 1)
      BY <1>1, <3>1
    <3>3. created + (r.at - 1 + 1) = MaxLength + r.at
      BY <1>1, <3>2
    <3>4. r.means = [id |-> created + (r.at - 1 + 1), element |-> r.element]
      BY <3>1, <3>2, Zenon
    <3>. QED BY <3>1, <3>2, <3>3, <3>4
  <2>2. PICK a \in 1 .. (k - 1), e \in Elements :
          r = [at |-> a, element |-> e, means |-> [id |-> MaxLength + a, element |-> e]]
    BY <2>1 DEF Reference
  <2>. QED BY <1>1, <2>2
<1>. HIDE DEF Back
<1>4a. PICK backs : backs = [k \in 1 .. MaxLength |-> {Back(r) : r \in c[k].args}]
  OBVIOUS
<1>5. ASSUME NEW k \in 1 .. MaxLength
      PROVE  /\ program[k] = [id |-> k, args |-> backs[k]]
             /\ program[k].id = k /\ program[k].args = backs[k]
  <2>1. program[k] = [c[k] EXCEPT !.id = @ - MaxLength, !.args = backs[k]]
    BY <1>2, <1>4a, <1>5 DEF Back
  <2>2. c[k] \in Command /\ c[k].id = MaxLength + k
    BY <1>1, <1>3 DEF IsBlock
  <2>3. PICK i, a : c[k] = [id |-> i, args |-> a] /\ i = MaxLength + k
    BY <2>2 DEF Command
  <2>4. PICK b : b = backs[k]
    OBVIOUS
  <2>5. program[k] = [[id |-> i, args |-> a] EXCEPT !.id = @ - MaxLength, !.args = b]
    BY <2>1, <2>3, <2>4, Zenon
  <2>6. program[k] = [id |-> i - MaxLength, args |-> b]
    BY <2>5
  <2>7. i - MaxLength = k
    BY <1>1, <2>3
  <2>. QED BY <2>4, <2>6, <2>7
<1>6. ASSUME NEW k \in 1 .. MaxLength, NEW s \in program[k].args
      PROVE  s \in Reference /\ RightReference(program, k, s)
  <2>0. program[k].args = backs[k]
    BY <1>1, <1>5, <1>6
  <2>1. PICK r \in c[k].args : s = Back(r)
    BY <1>4a, <1>6, <2>0
  <2>2. PICK a \in 1 .. (k - 1), e \in Elements :
          s = [at |-> a, element |-> e, means |-> [id |-> a, element |-> e]]
    BY <1>4, <2>1
  <2>3. program[a].id = a
    <3>1. a \in 1 .. MaxLength
      BY <1>1
    <3>. QED BY <1>1, <1>5, <3>1
  <2>. QED BY <1>1, <2>2, <2>3 DEF Reference, Meaning, RightReference
<1>7. program \in Seq(Command) /\ DOMAIN program = 1 .. MaxLength
  <2>1. ASSUME NEW k \in 1 .. MaxLength
        PROVE  program[k] \in Command
    <3>1. program[k] = [id |-> k, args |-> backs[k]]
      BY <1>5
    <3>2. backs[k] \in SUBSET Reference
      BY <1>6, <3>1
    <3>. QED BY <3>1, <3>2 DEF Command
  <2>2. program \in [1 .. MaxLength -> Command]
    BY <1>2, <2>1
  <2>. QED BY <1>1, <2>2
<1>. QED BY <1>1, <1>5, <1>6, <1>7 DEF DataInv, Wired

\* No edit breaks the wiring, whichever intent it resolves and whatever comes in.
LEMMA DataNextKeepsInv ==
  ASSUME DataInv, [DataNext]_data
  PROVE  DataInv'
<1>1. CASE UNCHANGED data
  BY <1>1 DEF data, DataInv, Wired, RightReference
<1>2. CASE DataNext
  <2>0. \A n \in 0 .. MaxBlock : n \in Nat
    BY BoundsAssumption
  <2>1. ASSUME NEW index \in DOMAIN program, ReplaceOne(index)
        PROVE  DataInv'
    BY <2>1, ReplaceOneKeepsInv
  <2>2. ASSUME NEW index \in DOMAIN program, NEW n \in 0 .. MaxBlock, ReplaceUnused(index, n)
        PROVE  DataInv'
    BY <2>0, <2>2, ReplaceUnusedKeepsInv
  <2>3. ASSUME NEW index \in DOMAIN program, NEW n \in 1 .. MaxBlock, ResolveCoin(index, n)
        PROVE  DataInv'
    <3>1. n \in Nat \ {0}
      BY BoundsAssumption
    <3>. QED BY <2>3, <3>1, ResolveCoinKeepsInv
  <2>4. ASSUME NEW index \in DOMAIN program, NEW n \in 1 .. MaxBlock, NEW e \in Elements,
               NEW k \in 1 .. n, ReplaceWithResult(index, n, k, e)
        PROVE  DataInv'
    <3>1. n \in Nat
      BY BoundsAssumption
    <3>. QED BY <2>4, <3>1, ReplaceWithResultKeepsInv
  <2>5. ASSUME NEW index \in DOMAIN program, NEW n \in 1 .. MaxBlock, NEW e \in Elements,
               NEW k \in 1 .. n, ReplaceWithTransaction(index, n, k, e)
        PROVE  DataInv'
    <3>1. n \in Nat
      BY BoundsAssumption
    <3>. QED BY <2>5, <3>1, ReplaceWithTransactionKeepsInv
  <2>6. ASSUME NEW index \in 1 .. (Len(program) + 1), NEW n \in 1 .. MaxBlock,
               InsertTransaction(index, n)
        PROVE  DataInv'
    <3>1. n \in Nat
      BY BoundsAssumption
    <3>. QED BY <2>6, <3>1, InsertTransactionKeepsInv
  <2>. QED BY <1>2, <2>1, <2>2, <2>3, <2>4, <2>5, <2>6 DEF DataNext, ResolveIntent
<1>. QED BY <1>1, <1>2

\* Whatever edits resolve the intents of a transaction (replaceCommand, insertTransaction,
\* replaceCommandWithTransaction and the resolvers that use them), every reference is to an
\* earlier command, and to the result it was made for or the one that has taken its place.
\* Only an element of a coin intent has none, unless it is element 0 replaced by one command.
THEOREM ReferencesHold == DataSpec => []ReferencesKeepTheirMeaning
<1>1. DataInit => DataInv
  BY DataInitHolds
<1>2. DataInv /\ [DataNext]_data => DataInv'
  BY DataNextKeepsInv
<1>3. DataInv => ReferencesKeepTheirMeaning
  BY DEF DataInv, Wired, RightReference, ReferencesKeepTheirMeaning
<1>. QED BY <1>1, <1>2, <1>3, PTL DEF DataSpec

-----------------------------------------------------------------------------
(* The budgets of auto approvals.                                           *)

SettingsOf(g) ==
  [remainingTransactions : Int, coinBudgets : [DOMAIN g.coinBudgets -> Int], sharedBudget : Int,
   sharing : BOOLEAN]
Change == [coin : CoinTypes, amount : Int]

\* The settings s with what is due of every coin type booked.
Shifted(s, due) ==
  [remainingTransactions |-> s.remainingTransactions,
   coinBudgets |-> [c \in DOMAIN s.coinBudgets |-> s.coinBudgets[c] + due[c]],
   sharedBudget |-> s.sharedBudget + SumOver(due, CoinTypes \ DOMAIN s.coinBudgets),
   sharing |-> s.sharing]

\* What one change does: it is booked, or it stops the bookkeeping.
LEMMA BookOne ==
  ASSUME NEW t, NEW g, NEW s \in SettingsOf(g), NEW o \in Change,
         NEW a \in [settings : SettingsOf(g), thrown : BOOLEAN]
  PROVE  Book(t, s, a, o) \in [settings : SettingsOf(g), thrown : BOOLEAN]
<1>1. DOMAIN s.coinBudgets = DOMAIN g.coinBudgets
  BY DEF SettingsOf
<1>2. PICK r : r = a.settings
  OBVIOUS
<1>3. r \in SettingsOf(g) /\ o.amount \in Int
  BY <1>2 DEF Change
<1>4. /\ r.coinBudgets \in [DOMAIN g.coinBudgets -> Int] /\ r.sharedBudget \in Int
      /\ \A c \in DOMAIN g.coinBudgets :
            [r EXCEPT !.coinBudgets[c] = @ + o.amount] \in SettingsOf(g)
      /\ [r EXCEPT !.sharedBudget = @ + o.amount] \in SettingsOf(g)
  BY <1>3 DEF SettingsOf
<1>5. [a EXCEPT !.settings.sharedBudget = @ + o.amount] =
         [a EXCEPT !.settings = [r EXCEPT !.sharedBudget = @ + o.amount]]
  BY <1>2
<1>6. \A c : [a EXCEPT !.settings.coinBudgets[c] = @ + o.amount] =
                [a EXCEPT !.settings = [r EXCEPT !.coinBudgets[c] = @ + o.amount]]
  BY <1>2
<1>. QED BY <1>1, <1>4, <1>5, <1>6 DEF Book

\* P is what is booked after each of n changes.
BookedInTurn(t, g, s, changes, n, P) ==
  /\ P \in [0 .. n -> [settings : SettingsOf(g), thrown : BOOLEAN]]
  /\ P[0] = [settings |-> s, thrown |-> FALSE]
  /\ \A k \in 1 .. n : P[k] = Book(t, s, P[k - 1], changes[k])
  /\ Booked(t, s, changes) = P[n]

\* Changes are booked from the first to the last.
LEMMA BookingInOrder ==
  ASSUME NEW t, NEW g, NEW s \in SettingsOf(g), NEW changes \in Seq(Change),
         NEW n \in Nat, DOMAIN changes = 1 .. n
  PROVE  \E P : BookedInTurn(t, g, s, changes, n, P)
<1>. DEFINE A == [settings : SettingsOf(g), thrown : BOOLEAN]
            base == [settings |-> s, thrown |-> FALSE]
            S == 1 .. n
            step == [a \in A |-> [i \in S |-> Book(t, s, a, changes[i])]]
            pick == [T \in SUBSET S |-> Max(T)]
            Is(h) == h = [T \in SUBSET S |->
                            IF T = {} THEN base
                            ELSE LET i == Max(T) IN Book(t, s, h[T \ {i}], changes[i])]
<1>1. Booked(t, s, changes) = (CHOOSE h : Is(h))[S]
  BY DEF Booked, FoldLeft, MapThenFoldSet
<1>2. \A i \in S : changes[i] \in Change
  BY ElementOfSeq, LenProperties
<1>3. base \in A
  OBVIOUS
<1>4. step \in [A -> [S -> A]]
  BY <1>2, BookOne
<1>5. Picks(pick, S)
  BY MaxIsGreatest DEF Picks
<1>6. IsFiniteSet(S)
  BY FS_Interval
<1>7. PICK g1 : Folds(step, pick, base, g1, S, A)
  <2>. HIDE DEF S, A, base, step, pick
  <2>. QED BY <1>3, <1>4, <1>5, <1>6, FoldsExist
<1>8. ASSUME NEW T \in SUBSET S
      PROVE  FoldStep(step, pick, base, g1, T) =
               IF T = {} THEN base
               ELSE LET i == Max(T) IN Book(t, s, g1[T \ {i}], changes[i])
  <2>1. CASE T = {}
    BY <2>1 DEF FoldStep
  <2>2. CASE T # {}
    <3>1. Max(T) \in T /\ Max(T) \in S /\ pick[T] = Max(T)
      BY <2>2, MaxIsGreatest
    <3>2. g1[T \ {Max(T)}] \in A
      BY <1>7, <3>1 DEF Folds
    <3>3. step[g1[T \ {Max(T)}]][Max(T)] = Book(t, s, g1[T \ {Max(T)}], changes[Max(T)])
      BY <3>1, <3>2
    <3>. HIDE DEF A, S, step, pick, base
    <3>. QED BY <2>2, <3>1, <3>3 DEF FoldStep
  <2>. QED BY <2>1, <2>2
<1>9. Is(g1)
  <2>. HIDE DEF A, step, pick, base, S
  <2>. QED BY <1>7, <1>8 DEF Folds
<1>10. PICK h : h = CHOOSE k : Is(k)
  OBVIOUS
<1>11. Is(h)
  <2>. HIDE DEF Is
  <2>. QED BY <1>9, <1>10
<1>. DEFINE H(T) == IF T = {} THEN base
                    ELSE LET i == Max(T) IN Book(t, s, h[T \ {i}], changes[i])
<1>12. \A T \in SUBSET S : h[T] = H(T)
  <2>. HIDE DEF base, S
  <2>. QED BY <1>11
<1>13. \A T \in SUBSET S : h[T] \in A
  <2>. DEFINE Bad == {T \in SUBSET S : h[T] \notin A}
  <2>. SUFFICES ASSUME Bad # {} PROVE FALSE
    OBVIOUS
  <2>1. PICK T \in Bad : \A V \in Bad : V \subseteq T => V = T
    <3>1. Bad \in SUBSET SUBSET S
      OBVIOUS
    <3>. HIDE DEF Bad, S
    <3>. QED BY <1>6, <3>1, MinimalSubset
  <2>2. T \in SUBSET S /\ h[T] \notin A /\ h[T] = H(T)
    BY <1>12
  <2>3. T # {}
    BY <2>2, <1>3
  <2>4. Max(T) \in T /\ Max(T) \in S
    BY <2>2, <2>3, MaxIsGreatest
  <2>5. h[T \ {Max(T)}] \in A
    BY <2>1, <2>2, <2>4
  <2>6. Book(t, s, h[T \ {Max(T)}], changes[Max(T)]) \in A
    <3>. HIDE DEF S
    <3>. QED BY <1>2, <2>4, <2>5, BookOne
  <2>. HIDE DEF A, base, S
  <2>. QED BY <2>2, <2>3, <2>6
<1>. DEFINE P == [k \in 0 .. n |-> h[1 .. k]]
<1>14. \A k \in 0 .. n : 1 .. k \in SUBSET S
  OBVIOUS
<1>15. P \in [0 .. n -> A]
  BY <1>13, <1>14
<1>16. P[0] = base
  <2>1. 1 .. 0 = {} /\ 0 \in 0 .. n
    OBVIOUS
  <2>2. P[0] = h[{}]
    BY <2>1
  <2>3. h[{}] = base
    BY <1>12
  <2>. QED BY <2>2, <2>3
<1>17. ASSUME NEW k \in 1 .. n
       PROVE  P[k] = Book(t, s, P[k - 1], changes[k])
  <2>1. k \in 0 .. n /\ k - 1 \in 0 .. n
    OBVIOUS
  <2>2. P[k] = h[1 .. k] /\ P[k - 1] = h[1 .. (k - 1)]
    BY <2>1
  <2>3. PICK T : T = 1 .. k
    OBVIOUS
  <2>4. T \in SUBSET S /\ T # {} /\ Max(T) = k /\ T \ {k} = 1 .. (k - 1)
    BY <2>3, MaxOfInterval
  <2>5. h[T] = Book(t, s, h[T \ {k}], changes[k])
    <3>. HIDE DEF base, S
    <3>. QED BY <1>12, <2>4
  <2>. HIDE DEF P
  <2>. QED BY <2>2, <2>3, <2>4, <2>5, Zenon
<1>18. Booked(t, s, changes) = P[n]
  BY <1>1, <1>10
<1>. HIDE DEF P
<1>. QED BY <1>15, <1>16, <1>17, <1>18 DEF BookedInTurn

\* Other settings in a record of what is booked.
LEMMA SettingsReplaced ==
  ASSUME NEW r, NEW x, NEW a, a = [settings |-> r, thrown |-> FALSE]
  PROVE  [a EXCEPT !.settings = x] = [settings |-> x, thrown |-> FALSE]
<1>1. PICK b : b = [a EXCEPT !.settings = x]
  OBVIOUS
<1>2. DOMAIN b = {"settings", "thrown"} /\ b.settings = x /\ b.thrown = FALSE
  BY <1>1
<1>3. b = [settings |-> b.settings, thrown |-> b.thrown]
  BY <1>1
<1>. QED BY <1>1, <1>2, <1>3


\* The amounts of changes, those of the first k that are of a coin type, and what these
\* come to.
AmountsOf(changes) == [i \in DOMAIN changes |-> changes[i].amount]
Until(changes, k, c) == {i \in 1 .. k : changes[i].coin = c}
FirstOf(changes, k) ==
  [c \in CoinTypes |-> SumOver(AmountsOf(changes), Until(changes, k, c))]

\* The first changes are finitely many, and have amounts.
LEMMA UntilType ==
  ASSUME NEW changes \in Seq(Change), NEW n \in Nat, DOMAIN changes = 1 .. n, NEW k \in 0 .. n,
         NEW c
  PROVE  /\ IsFiniteSet(Until(changes, k, c)) /\ Until(changes, k, c) \subseteq 1 .. n
         /\ \A i \in 1 .. n : /\ changes[i] \in Change /\ AmountsOf(changes)[i] = changes[i].amount
                              /\ AmountsOf(changes)[i] \in Int
<1>1. Until(changes, k, c) \subseteq 1 .. n
  BY DEF Until
<1>2. IsFiniteSet(Until(changes, k, c))
  BY <1>1, FS_Interval, FS_Subset
<1>3. \A i \in 1 .. n : changes[i] \in Change
  BY ElementOfSeq, LenProperties
<1>. QED BY <1>1, <1>2, <1>3 DEF AmountsOf, Change

\* One change more adds its amount to what is due of its coin type.
LEMMA OneChangeMore ==
  ASSUME NEW changes \in Seq(Change), NEW n \in Nat, DOMAIN changes = 1 .. n, NEW k \in 1 .. n
  PROVE  /\ FirstOf(changes, k - 1) \in [CoinTypes -> Int]
         /\ FirstOf(changes, k) =
              [FirstOf(changes, k - 1) EXCEPT ![changes[k].coin] = @ + changes[k].amount]
<1>. DEFINE f == AmountsOf(changes)
            U(c) == Until(changes, k - 1, c)
<1>1. k - 1 \in 0 .. n
  OBVIOUS
<1>2. \A c : IsFiniteSet(U(c)) /\ U(c) \subseteq 1 .. n
  BY <1>1, UntilType
<1>3. \A i \in 1 .. n : f[i] = changes[i].amount /\ f[i] \in Int /\ changes[i].coin \in CoinTypes
  <2>1. \A i \in 1 .. n : changes[i] \in Change /\ f[i] = changes[i].amount /\ f[i] \in Int
    BY <1>1, UntilType
  <2>. QED BY <2>1 DEF Change
<1>4. PICK o : o = changes[k]
  OBVIOUS
<1>5. \A c : Until(changes, k, c) = IF c = o.coin THEN U(c) \cup {k} ELSE U(c)
  <2>. TAKE c
  <2>1. \A i : i \in 1 .. k <=> i \in 1 .. (k - 1) \/ i = k
    OBVIOUS
  <2>2. CASE c = o.coin
    BY <1>4, <2>1, <2>2 DEF Until
  <2>3. CASE c # o.coin
    BY <1>4, <2>1, <2>3 DEF Until
  <2>. QED BY <2>2, <2>3
<1>6. k \notin U(o.coin)
  BY DEF Until
<1>7. f[k] = o.amount /\ f[k] \in Int /\ o.coin \in CoinTypes
  BY <1>3, <1>4
<1>. HIDE DEF f, U
<1>8. \A c : SumOver(f, U(c)) \in Int
  <2>. TAKE c
  <2>1. \A i \in U(c) : f[i] \in Int
    BY <1>2, <1>3
  <2>. QED BY <1>2, <2>1, SumOverType
<1>9. SumOver(f, U(o.coin) \cup {k}) = SumOver(f, U(o.coin)) + o.amount
  <2>1. \A i \in U(o.coin) : f[i] \in Int
    BY <1>2, <1>3
  <2>2. SumOver(f, U(o.coin) \cup {k}) = SumOver(f, U(o.coin)) + f[k]
    BY <1>2, <1>6, <1>7, <2>1, SumOverAdd
  <2>. QED BY <1>7, <2>2
<1>10. PICK p : p = FirstOf(changes, k - 1)
  OBVIOUS
<1>11. p = [c \in CoinTypes |-> SumOver(f, U(c))]
  BY <1>10 DEF FirstOf, f, U
<1>12. FirstOf(changes, k) = [c \in CoinTypes |-> SumOver(f, Until(changes, k, c))]
  BY DEF FirstOf, f
<1>13. \A c \in CoinTypes : SumOver(f, Until(changes, k, c)) =
          IF c = o.coin THEN SumOver(f, U(c)) + o.amount ELSE SumOver(f, U(c))
  <2>. TAKE c \in CoinTypes
  <2>1. CASE c = o.coin
    BY <1>5, <1>9, <2>1
  <2>2. CASE c # o.coin
    BY <1>5, <2>2
  <2>. QED BY <2>1, <2>2
<1>14. FirstOf(changes, k) = [p EXCEPT ![o.coin] = @ + o.amount]
  BY <1>7, <1>11, <1>12, <1>13
<1>15. p \in [CoinTypes -> Int]
  BY <1>8, <1>11
<1>. QED BY <1>4, <1>10, <1>14, <1>15

\* Nothing is due before the first change.
LEMMA NoneOf == ASSUME NEW changes PROVE FirstOf(changes, 0) = [c \in CoinTypes |-> 0]
<1>1. ASSUME NEW c
      PROVE  SumOver(AmountsOf(changes), Until(changes, 0, c)) = 0
  <2>1. 1 .. 0 = {}
    OBVIOUS
  <2>2. Until(changes, 0, c) = {}
    BY <2>1 DEF Until
  <2>. QED BY <2>2, SumOverEmpty
<1>. QED BY <1>1 DEF FirstOf

\* What shifted settings are.
LEMMA ShiftedType ==
  ASSUME NEW g, DOMAIN g.coinBudgets \subseteq CoinTypes, NEW s \in SettingsOf(g),
         NEW due \in [CoinTypes -> Int]
  PROVE  Shifted(s, due) \in SettingsOf(g)
<1>1. PICK D : D = DOMAIN s.coinBudgets
  OBVIOUS
<1>2. DOMAIN g.coinBudgets = D
  BY <1>1 DEF SettingsOf
<1>3. s \in [remainingTransactions : Int, coinBudgets : [D -> Int], sharedBudget : Int,
             sharing : BOOLEAN]
  BY <1>2 DEF SettingsOf
<1>4. SumOver(due, CoinTypes \ D) \in Int
  <2>1. IsFiniteSet(CoinTypes \ D) /\ \A c \in CoinTypes \ D : due[c] \in Int
    BY PaymentsAssumption, FS_Subset
  <2>. QED BY <2>1, SumOverType
<1>5. [c \in D |-> s.coinBudgets[c] + due[c]] \in [D -> Int]
  BY <1>2, <1>3
<1>. QED BY <1>1, <1>2, <1>3, <1>4, <1>5 DEF Shifted, SettingsOf

\* One change more of a coin type, booked in settings that are shifted.
BookedMore(s, due, c, m) ==
  /\ c \in DOMAIN s.coinBudgets =>
       [Shifted(s, due) EXCEPT !.coinBudgets[c] = @ + m] = Shifted(s, [due EXCEPT ![c] = @ + m])
  /\ c \notin DOMAIN s.coinBudgets =>
       [Shifted(s, due) EXCEPT !.sharedBudget = @ + m] = Shifted(s, [due EXCEPT ![c] = @ + m])

\* Shifting settings by one change more is shifting them and booking that change.
LEMMA ShiftedMore ==
  ASSUME NEW g, DOMAIN g.coinBudgets \subseteq CoinTypes, NEW s \in SettingsOf(g),
         NEW due \in [CoinTypes -> Int], NEW c \in CoinTypes, NEW m \in Int
  PROVE  BookedMore(s, due, c, m)
<1>1. PICK D : D = DOMAIN g.coinBudgets
  OBVIOUS
<1>2. /\ DOMAIN s.coinBudgets = D /\ D \subseteq CoinTypes /\ s.coinBudgets \in [D -> Int]
      /\ s.sharedBudget \in Int
  BY <1>1 DEF SettingsOf
<1>3. PICK d : d = [due EXCEPT ![c] = @ + m]
  OBVIOUS
<1>4. d \in [CoinTypes -> Int] /\ d[c] = due[c] + m /\ \A x \in CoinTypes \ {c} : d[x] = due[x]
  BY <1>3
<1>5. PICK S : S = CoinTypes \ D
  OBVIOUS
<1>6. IsFiniteSet(S) /\ S \subseteq CoinTypes /\ \A x \in S : due[x] \in Int /\ d[x] \in Int
  BY <1>4, <1>5, PaymentsAssumption, FS_Subset
<1>7. PICK r : r = Shifted(s, due)
  OBVIOUS
<1>8. PICK cb : cb = [x \in D |-> s.coinBudgets[x] + due[x]]
  OBVIOUS
<1>9. PICK sum : sum = SumOver(due, S)
  OBVIOUS
<1>10. r = [remainingTransactions |-> s.remainingTransactions, coinBudgets |-> cb,
            sharedBudget |-> s.sharedBudget + sum, sharing |-> s.sharing]
  BY <1>2, <1>5, <1>7, <1>8, <1>9 DEF Shifted
<1>11. Shifted(s, d) = [remainingTransactions |-> s.remainingTransactions,
                        coinBudgets |-> [x \in D |-> s.coinBudgets[x] + d[x]],
                        sharedBudget |-> s.sharedBudget + SumOver(d, S), sharing |-> s.sharing]
  BY <1>2, <1>5 DEF Shifted
<1>12. ASSUME c \in D
       PROVE  [r EXCEPT !.coinBudgets[c] = @ + m] = Shifted(s, d)
  <2>1. SumOver(due, S) = SumOver(d, S)
    <3>1. \A x \in S : due[x] = d[x]
      BY <1>4, <1>5, <1>12
    <3>. QED BY <1>6, <3>1, SumOverEqual
  <2>2. [x \in D |-> s.coinBudgets[x] + d[x]] = [cb EXCEPT ![c] = @ + m]
    <3>1. \A x \in D : s.coinBudgets[x] \in Int /\ due[x] \in Int
      BY <1>2
    <3>2. \A x \in D : s.coinBudgets[x] + d[x] = IF x = c THEN cb[x] + m ELSE cb[x]
      BY <1>2, <1>4, <1>8, <3>1
    <3>. QED BY <1>8, <1>12, <3>2
  <2>3. PICK cb2 : cb2 = [cb EXCEPT ![c] = @ + m]
    OBVIOUS
  <2>4. Shifted(s, d) = [remainingTransactions |-> s.remainingTransactions, coinBudgets |-> cb2,
                         sharedBudget |-> s.sharedBudget + sum, sharing |-> s.sharing]
    BY <1>9, <1>11, <2>1, <2>2, <2>3
  <2>5. [r EXCEPT !.coinBudgets[c] = @ + m] = [r EXCEPT !.coinBudgets = cb2]
    BY <1>10, <2>3
  <2>. QED BY <1>10, <2>4, <2>5
<1>13. ASSUME c \notin D
       PROVE  [r EXCEPT !.sharedBudget = @ + m] = Shifted(s, d)
  <2>1. SumOver(d, S) = sum + d[c] - due[c]
    <3>1. c \in S
      BY <1>5, <1>13
    <3>. QED BY <1>4, <1>6, <1>9, <3>1, SumOverChange
  <2>2. sum \in Int
    BY <1>6, <1>9, SumOverType
  <2>3. PICK sum2 : sum2 = SumOver(d, S)
    OBVIOUS
  <2>4. sum2 = sum + m
    <3>1. d[c] = due[c] + m /\ due[c] \in Int
      BY <1>4
    <3>. QED BY <2>1, <2>2, <2>3, <3>1
  <2>5. [x \in D |-> s.coinBudgets[x] + d[x]] = cb
    BY <1>2, <1>4, <1>8, <1>13
  <2>6. Shifted(s, d) = [remainingTransactions |-> s.remainingTransactions, coinBudgets |-> cb,
                         sharedBudget |-> s.sharedBudget + sum2, sharing |-> s.sharing]
    BY <1>11, <2>3, <2>5
  <2>7. s.sharedBudget + sum2 = (s.sharedBudget + sum) + m
    BY <1>2, <2>2, <2>4
  <2>. QED BY <1>10, <2>6, <2>7
<1>. QED BY <1>2, <1>3, <1>7, <1>12, <1>13 DEF BookedMore

\* Settings are shifted by nothing when nothing is due.
LEMMA ShiftedByNothing ==
  ASSUME NEW g, NEW s \in SettingsOf(g)
  PROVE  Shifted(s, [c \in CoinTypes |-> 0]) = s \/ ~ DOMAIN g.coinBudgets \subseteq CoinTypes
<1>. SUFFICES ASSUME DOMAIN g.coinBudgets \subseteq CoinTypes
              PROVE  Shifted(s, [c \in CoinTypes |-> 0]) = s
  OBVIOUS
<1>1. PICK D : D = DOMAIN g.coinBudgets
  OBVIOUS
<1>2. s \in [remainingTransactions : Int, coinBudgets : [D -> Int], sharedBudget : Int,
             sharing : BOOLEAN]
  BY <1>1 DEF SettingsOf
<1>3. PICK z : z = [c \in CoinTypes |-> 0]
  OBVIOUS
<1>4. \A c \in CoinTypes : z[c] = 0
  BY <1>3
<1>5. SumOver(z, CoinTypes \ D) = 0
  <2>1. IsFiniteSet(CoinTypes \ D) /\ \A c \in CoinTypes \ D : z[c] = 0
    BY <1>4, PaymentsAssumption, FS_Subset
  <2>. QED BY <2>1, SumOverZero
<1>6. [c \in D |-> s.coinBudgets[c] + z[c]] = s.coinBudgets
  BY <1>1, <1>2, <1>4
<1>7. Shifted(s, z) = [remainingTransactions |-> s.remainingTransactions,
                       coinBudgets |-> s.coinBudgets, sharedBudget |-> s.sharedBudget + 0,
                       sharing |-> s.sharing]
  BY <1>2, <1>5, <1>6 DEF Shifted
<1>. QED BY <1>2, <1>3, <1>7

\* What is booked after k changes: all of them, or those before the first that throws.
BookedSoFar(s, changes, k, a) ==
  /\ a.thrown \in BOOLEAN
  /\ \E j \in 0 .. k : /\ a = [settings |-> Shifted(s, FirstOf(changes, j)), thrown |-> a.thrown]
                       /\ ~ a.thrown => j = k

\* One change more.
LEMMA BookedNext ==
  ASSUME NEW t, NEW g, DOMAIN g.coinBudgets \subseteq CoinTypes, NEW s \in SettingsOf(g),
         NEW changes \in Seq(Change), NEW n \in Nat, DOMAIN changes = 1 .. n,
         NEW k \in 1 .. n, NEW a, BookedSoFar(s, changes, k - 1, a)
  PROVE  BookedSoFar(s, changes, k, Book(t, s, a, changes[k]))
<1>1. PICK j \in 0 .. (k - 1) :
         /\ a = [settings |-> Shifted(s, FirstOf(changes, j)), thrown |-> a.thrown]
         /\ ~ a.thrown => j = k - 1
  BY DEF BookedSoFar
<1>2. PICK o : o = changes[k]
  OBVIOUS
<1>3. o.coin \in CoinTypes /\ o.amount \in Int
  <2>1. changes[k] \in Change
    BY ElementOfSeq, LenProperties
  <2>. QED BY <1>2, <2>1 DEF Change
<1>4. PICK b : b = Book(t, s, a, o)
  OBVIOUS
<1>5. a.thrown \in BOOLEAN
  BY DEF BookedSoFar
<1>6. DOMAIN s.coinBudgets = DOMAIN g.coinBudgets
  BY DEF SettingsOf
<1>7. PICK r : r = Shifted(s, FirstOf(changes, j))
  OBVIOUS
<1>8. CASE a.thrown
  <2>1. b = a
    BY <1>4, <1>8 DEF Book
  <2>2. j \in 0 .. k
    BY <1>1
  <2>. QED BY <1>1, <1>2, <1>4, <1>5, <1>8, <2>1, <2>2 DEF BookedSoFar
<1>9. CASE ~ a.thrown /\ o.coin \notin DOMAIN s.coinBudgets /\ ~ (s.sharing /\ HasValue(t, o.coin))
  <2>1. a = [settings |-> r, thrown |-> FALSE]
    BY <1>1, <1>5, <1>7, <1>9
  <2>2. b = [settings |-> r, thrown |-> TRUE]
    BY <1>4, <1>9, <2>1 DEF Book
  <2>3. b.thrown = TRUE /\ b = [settings |-> r, thrown |-> b.thrown]
    BY <2>2
  <2>4. j \in 0 .. k
    BY <1>1
  <2>. QED BY <1>2, <1>4, <1>7, <2>3, <2>4 DEF BookedSoFar
<1>10. CASE ~ a.thrown /\ (o.coin \in DOMAIN s.coinBudgets \/ (s.sharing /\ HasValue(t, o.coin)))
  <2>1. a = [settings |-> r, thrown |-> FALSE] /\ j = k - 1 /\ r = a.settings
    BY <1>1, <1>5, <1>7, <1>10
  <2>2. PICK due : due = FirstOf(changes, k - 1)
    OBVIOUS
  <2>3. due \in [CoinTypes -> Int]
        /\ FirstOf(changes, k) = [due EXCEPT ![o.coin] = @ + o.amount]
    BY <1>2, <2>2, OneChangeMore
  <2>4. PICK x : x = Shifted(s, FirstOf(changes, k))
    OBVIOUS
  <2>5. b = [settings |-> x, thrown |-> FALSE]
    <3>1. PICK c \in CoinTypes : c = o.coin
      BY <1>3
    <3>2. PICK m \in Int : m = o.amount
      BY <1>3
    <3>3. /\ c \in DOMAIN g.coinBudgets => [r EXCEPT !.coinBudgets[c] = @ + m] = x
          /\ c \notin DOMAIN g.coinBudgets => [r EXCEPT !.sharedBudget = @ + m] = x
      <4>1. r = Shifted(s, due) /\ x = Shifted(s, [due EXCEPT ![c] = @ + m])
        BY <1>7, <2>1, <2>2, <2>3, <2>4, <3>1, <3>2
      <4>2. due \in [CoinTypes -> Int]
        BY <2>3
      <4>3. BookedMore(s, due, c, m)
        BY <4>2, ShiftedMore
      <4>. QED BY <1>6, <4>1, <4>3 DEF BookedMore
    <3>4. CASE c \in DOMAIN g.coinBudgets
      <4>1. b = [a EXCEPT !.settings.coinBudgets[c] = @ + m]
        BY <1>4, <1>6, <2>1, <3>1, <3>2, <3>4 DEF Book
      <4>2. b = [a EXCEPT !.settings = [r EXCEPT !.coinBudgets[c] = @ + m]]
        BY <2>1, <4>1
      <4>3. b = [a EXCEPT !.settings = x]
        BY <3>3, <3>4, <4>2
      <4>. QED BY <2>1, <4>3, SettingsReplaced
    <3>5. CASE c \notin DOMAIN g.coinBudgets
      <4>1. b = [a EXCEPT !.settings.sharedBudget = @ + m]
        BY <1>4, <1>6, <1>10, <2>1, <3>1, <3>2, <3>5 DEF Book
      <4>2. b = [a EXCEPT !.settings = [r EXCEPT !.sharedBudget = @ + m]]
        BY <2>1, <4>1
      <4>3. b = [a EXCEPT !.settings = x]
        BY <3>3, <3>5, <4>2
      <4>. QED BY <2>1, <4>3, SettingsReplaced
    <3>. QED BY <3>4, <3>5
  <2>6. b.thrown = FALSE /\ b = [settings |-> x, thrown |-> b.thrown] /\ k \in 0 .. k
    BY <2>5
  <2>. QED BY <1>2, <1>4, <2>4, <2>6 DEF BookedSoFar
<1>. QED BY <1>5, <1>8, <1>9, <1>10

\* What the loop over the changes does.
LEMMA BookingEffect ==
  ASSUME NEW t, NEW g, DOMAIN g.coinBudgets \subseteq CoinTypes, NEW s \in SettingsOf(g),
         NEW changes \in Seq(Change), NEW n \in Nat, DOMAIN changes = 1 .. n
  PROVE  BookedSoFar(s, changes, n, Booked(t, s, changes))
<1>0. PICK P : BookedInTurn(t, g, s, changes, n, P)
  BY BookingInOrder
<1>1. /\ P[0] = [settings |-> s, thrown |-> FALSE]
      /\ \A k \in 1 .. n : P[k] = Book(t, s, P[k - 1], changes[k])
      /\ Booked(t, s, changes) = P[n]
  BY <1>0 DEF BookedInTurn
<1>. DEFINE Bad == {k \in 0 .. n : ~ BookedSoFar(s, changes, k, P[k])}
<1>2. Bad = {}
  <2>. SUFFICES ASSUME Bad # {} PROVE FALSE
    OBVIOUS
  <2>1. PICK k \in Bad : \A m \in Bad : k <= m
    <3>1. Bad \in SUBSET Nat
      OBVIOUS
    <3>. HIDE DEF Bad
    <3>. QED BY <3>1, LeastNumber
  <2>2. k # 0
    <3>1. PICK a : a = [settings |-> s, thrown |-> FALSE]
      OBVIOUS
    <3>2. s = Shifted(s, FirstOf(changes, 0))
      BY NoneOf, ShiftedByNothing
    <3>3. a.thrown = FALSE /\ a = [settings |-> s, thrown |-> a.thrown] /\ 0 \in 0 .. 0
      BY <3>1
    <3>4. BookedSoFar(s, changes, 0, a)
      BY <3>2, <3>3 DEF BookedSoFar
    <3>5. ~ BookedSoFar(s, changes, k, P[k])
      OBVIOUS
    <3>. QED BY <1>1, <3>1, <3>4, <3>5
  <2>3. k \in 1 .. n /\ k - 1 \in 0 .. n
    BY <2>2
  <2>4. k - 1 \notin Bad
    BY <2>1, <2>3
  <2>5. BookedSoFar(s, changes, k - 1, P[k - 1])
    BY <2>3, <2>4
  <2>6. BookedSoFar(s, changes, k, Book(t, s, P[k - 1], changes[k]))
    BY <2>3, <2>5, BookedNext
  <2>7. P[k] = Book(t, s, P[k - 1], changes[k])
    BY <1>1, <2>3
  <2>8. ~ BookedSoFar(s, changes, k, P[k])
    OBVIOUS
  <2>. QED BY <2>6, <2>7, <2>8
<1>3. n \in 0 .. n
  OBVIOUS
<1>4. BookedSoFar(s, changes, n, P[n])
  BY <1>2, <1>3
<1>. QED BY <1>1, <1>4

\* What changes come to, coin type by coin type.
Totals(changes) == [c \in CoinTypes |-> TotalOf(changes, c)]

\* All that changes say of a coin type is what the last of them leaves due.
LEMMA TotalOfIsSum ==
  ASSUME NEW changes \in Seq(Change), NEW n \in Nat, DOMAIN changes = 1 .. n
  PROVE  /\ \A c : TotalOf(changes, c) = SumOver(AmountsOf(changes), Until(changes, n, c))
         /\ FirstOf(changes, n) = Totals(changes)
<1>1. ASSUME NEW c
      PROVE  TotalOf(changes, c) = SumOver(AmountsOf(changes), Until(changes, n, c))
  <2>. DEFINE f == AmountsOf(changes)
              S == {i \in DOMAIN changes : changes[i].coin = c}
              Is(h) == h = [T \in SUBSET S |->
                              IF T = {} THEN 0
                              ELSE LET i == CHOOSE i \in T : TRUE
                                   IN changes[i].amount + h[T \ {i}]]
  <2>1. TotalOf(changes, c) = (CHOOSE h : Is(h))[S]
    BY DEF TotalOf, MapThenSumSet, MapThenFoldSet
  <2>2. S = Until(changes, n, c)
    BY DEF Until
  <2>3. IsFiniteSet(S)
    <3>1. n \in 0 .. n
      OBVIOUS
    <3>. HIDE DEF S
    <3>. QED BY <2>2, <3>1, UntilType
  <2>4. ASSUME NEW h
        PROVE  Is(h) <=> Sums(f, h, S)
    <3>1. \A T \in SUBSET S : \A i \in T : f[i] = changes[i].amount
      BY DEF AmountsOf
    <3>. HIDE DEF f, S
    <3>2. \A T \in SUBSET S :
             (IF T = {} THEN 0 ELSE LET i == CHOOSE i \in T : TRUE
                                    IN changes[i].amount + h[T \ {i}])
                = SumStep(f, h, T)
      BY <3>1 DEF SumStep
    <3>. QED BY <3>2 DEF Sums
  <2>5. PICK h : h = CHOOSE k : Is(k)
    OBVIOUS
  <2>6. \E k : Is(k)
    <3>. HIDE DEF Is, f, S
    <3>1. \E k : Sums(f, k, S)
      BY <2>3, SumsExist
    <3>. QED BY <2>4, <3>1
  <2>7. Is(h)
    <3>. HIDE DEF Is
    <3>. QED BY <2>5, <2>6
  <2>. HIDE DEF Is, f, S
  <2>8. Sums(f, h, S)
    BY <2>4, <2>7
  <2>9. h[S] = SumOver(f, S)
    <3>1. \A T \in SUBSET S : h[T] = SumOver(f, T)
      BY <2>3, <2>8, SumsAreSumOver, Zenon
    <3>. QED BY <3>1
  <2>10. TotalOf(changes, c) = SumOver(f, S)
    BY <2>1, <2>5, <2>9
  <2>. QED BY <2>2, <2>10 DEF f
<1>. QED BY <1>1 DEF FirstOf, Totals

\* What an analysed transaction is, by index.
LEMMA OutflowsType ==
  ASSUME NEW t \in Payments
  PROVE  /\ Outflows[t] \in Seq(Change)
         /\ \E n \in Nat : DOMAIN Outflows[t] = 1 .. n
         /\ \A i \in DOMAIN Outflows[t] :
               /\ Outflows[t][i].coin \in CoinTypes /\ Outflows[t][i].amount \in Nat
               /\ Outflows[t][i] = [coin |-> Outflows[t][i].coin, amount |-> Outflows[t][i].amount]
         /\ \A i, j \in DOMAIN Outflows[t] : Outflows[t][i].coin = Outflows[t][j].coin => i = j
<1>. DEFINE A == [coin : CoinTypes, amount : Nat]
<1>1. Outflows[t] \in Seq(A)
  BY PaymentsAssumption
<1>2. \E n \in Nat : DOMAIN Outflows[t] = 1 .. n
  BY <1>1, LenProperties
<1>3. \A i \in DOMAIN Outflows[t] : Outflows[t][i] \in A
  BY <1>1, ElementOfSeq, LenProperties
<1>4. Outflows[t] \in Seq(Change)
  <2>1. PICK n \in Nat : DOMAIN Outflows[t] = 1 .. n
    BY <1>2
  <2>2. Outflows[t] = [i \in 1 .. n |-> Outflows[t][i]]
    BY <1>1, <2>1, LenProperties
  <2>3. \A i \in 1 .. n : Outflows[t][i] \in Change
    BY <1>3, <2>1 DEF Change
  <2>4. Outflows[t] \in [1 .. n -> Change]
    BY <2>2, <2>3
  <2>. QED BY <2>4, SeqDef
<1>5. \A i, j \in DOMAIN Outflows[t] : Outflows[t][i].coin = Outflows[t][j].coin => i = j
  BY PaymentsAssumption
<1>. QED BY <1>2, <1>3, <1>4, <1>5

\* What is due of a coin type after some of the outflows, and after all.
LEMMA OutflowsOf ==
  ASSUME NEW t \in Payments, NEW n \in Nat, DOMAIN Outflows[t] = 1 .. n
  PROVE  /\ Totals(Outflows[t]) \in [CoinTypes -> Nat]
         /\ \A k \in 0 .. n : FirstOf(Outflows[t], k) \in [CoinTypes -> Nat]
         /\ \A c \in CoinTypes : Totals(Outflows[t])[c] = OutflowOf(t, c)
<1>. DEFINE q == Outflows[t]
<1>1. q \in Seq(Change) /\ \A i \in 1 .. n : q[i].amount \in Nat
  BY OutflowsType
<1>2. ASSUME NEW k \in 0 .. n, NEW c
      PROVE  SumOver(AmountsOf(q), Until(q, k, c)) \in Nat
  <2>1. IsFiniteSet(Until(q, k, c)) /\ Until(q, k, c) \subseteq 1 .. n
        /\ \A i \in 1 .. n : AmountsOf(q)[i] = q[i].amount
    BY <1>1, UntilType
  <2>2. \A i \in Until(q, k, c) : AmountsOf(q)[i] \in Nat
    BY <1>1, <2>1
  <2>3. PICK U : U = Until(q, k, c)
    OBVIOUS
  <2>4. U \in SUBSET U /\ IsFiniteSet(U) /\ \A i \in U : AmountsOf(q)[i] \in Nat
    BY <2>1, <2>2, <2>3
  <2>5. SumOver(AmountsOf(q), U) \in Nat
    BY <2>4, SumOverPart
  <2>. QED BY <2>3, <2>5
<1>3. \A k \in 0 .. n : FirstOf(q, k) \in [CoinTypes -> Nat]
  BY <1>2 DEF FirstOf
<1>4. FirstOf(q, n) = Totals(q)
  BY <1>1, TotalOfIsSum
<1>5. n \in 0 .. n
  OBVIOUS
<1>6. Totals(q) \in [CoinTypes -> Nat]
  BY <1>3, <1>4, <1>5
<1>. QED BY <1>3, <1>6 DEF Totals, OutflowOf

\* What a commit books is the outflows, with the other sign.
LEMMA NegativeOf ==
  ASSUME NEW t \in Payments, NEW n \in Nat, DOMAIN Outflows[t] = 1 .. n
  PROVE  /\ Negative(Outflows[t]) \in Seq(Change) /\ DOMAIN Negative(Outflows[t]) = 1 .. n
         /\ \A i \in 1 .. n : /\ Negative(Outflows[t])[i].coin = Outflows[t][i].coin
                              /\ Negative(Outflows[t])[i].amount = - Outflows[t][i].amount
         /\ \A c \in CoinTypes : Totals(Negative(Outflows[t]))[c] = - OutflowOf(t, c)
<1>. DEFINE q == Outflows[t]
            m == Negative(Outflows[t])
<1>1. /\ q \in Seq(Change)
      /\ \A i \in 1 .. n : /\ q[i].coin \in CoinTypes /\ q[i].amount \in Nat
                           /\ q[i] = [coin |-> q[i].coin, amount |-> q[i].amount]
  BY OutflowsType
<1>0. \A i \in 1 .. n : q[i].amount \in Int
  <2>. TAKE i \in 1 .. n
  <2>1. PICK a : a = q[i].amount
    OBVIOUS
  <2>2. a \in Nat
    BY <1>1, <2>1
  <2>. QED BY <2>1, <2>2
<1>2. ASSUME NEW i \in 1 .. n
      PROVE  [q[i] EXCEPT !.amount = -@] = [coin |-> q[i].coin, amount |-> - q[i].amount]
  <2>1. PICK o : o = q[i]
    OBVIOUS
  <2>2. o = [coin |-> o.coin, amount |-> o.amount]
    BY <1>1, <2>1
  <2>3. [o EXCEPT !.amount = -@] = [coin |-> o.coin, amount |-> - o.amount]
    BY <2>2
  <2>. QED BY <2>1, <2>3
<1>3. m = [i \in 1 .. n |-> [coin |-> q[i].coin, amount |-> - q[i].amount]]
  <2>1. m = [i \in 1 .. n |-> [q[i] EXCEPT !.amount = -@]]
    BY DEF Negative
  <2>. HIDE DEF m, q
  <2>. QED BY <1>2, <2>1
<1>4. \A i \in 1 .. n : [coin |-> q[i].coin, amount |-> - q[i].amount] \in Change
  <2>. TAKE i \in 1 .. n
  <2>1. PICK a : a = q[i].amount
    OBVIOUS
  <2>2. a \in Nat /\ q[i].coin \in CoinTypes
    BY <1>1, <2>1
  <2>3. - a \in Int
    BY <2>2
  <2>. HIDE DEF q, m
  <2>. QED BY <2>1, <2>2, <2>3 DEF Change
<1>5. m \in [1 .. n -> Change]
  <2>. HIDE DEF m
  <2>. QED BY <1>3, <1>4
<1>6. m \in Seq(Change)
  BY <1>5, SeqDef
<1>7. DOMAIN m = 1 .. n
  BY <1>3
<1>8. \A i \in 1 .. n : m[i].coin = q[i].coin /\ m[i].amount = - q[i].amount
  BY <1>3
<1>9. ASSUME NEW c \in CoinTypes
      PROVE  Totals(m)[c] = - OutflowOf(t, c)
  <2>1. n \in 0 .. n
    OBVIOUS
  <2>2. PICK U : U = Until(q, n, c)
    OBVIOUS
  <2>3. Until(m, n, c) = U
    BY <1>8, <2>2 DEF Until
  <2>4. IsFiniteSet(U) /\ U \subseteq 1 .. n
        /\ \A i \in 1 .. n : AmountsOf(q)[i] = q[i].amount
    BY <1>1, <2>1, <2>2, UntilType
  <2>. HIDE DEF q, m
  <2>5. \A i \in 1 .. n : AmountsOf(m)[i] = m[i].amount
    BY <1>7 DEF AmountsOf
  <2>. DEFINE zero == [i \in 1 .. n |-> 0]
  <2>6. \A i \in U : /\ AmountsOf(q)[i] \in Int /\ AmountsOf(m)[i] \in Int
                     /\ zero[i] = AmountsOf(q)[i] + AmountsOf(m)[i]
    <3>. TAKE i \in U
    <3>0. i \in 1 .. n
      BY <2>4
    <3>1. PICK a : a = q[i].amount /\ a \in Int
      BY <1>0, <3>0
    <3>2. AmountsOf(q)[i] = a /\ AmountsOf(m)[i] = - a /\ zero[i] = 0
      BY <1>8, <2>4, <2>5, <3>0, <3>1
    <3>. QED BY <3>1, <3>2
  <2>7. \A i \in U : zero[i] = 0
    BY <2>4
  <2>. HIDE DEF zero
  <2>8. SumOver(zero, U) = SumOver(AmountsOf(q), U) + SumOver(AmountsOf(m), U)
    BY <2>4, <2>6, SumOverPlus
  <2>9. SumOver(zero, U) = 0
    BY <2>4, <2>7, SumOverZero
  <2>10. SumOver(AmountsOf(q), U) \in Int /\ SumOver(AmountsOf(m), U) \in Int
    BY <2>4, <2>6, SumOverType
  <2>11. TotalOf(q, c) = SumOver(AmountsOf(q), U) /\ TotalOf(m, c) = SumOver(AmountsOf(m), U)
    BY <1>1, <1>6, <1>7, <2>2, <2>3, TotalOfIsSum DEF q
  <2>12. TotalOf(m, c) = - TotalOf(q, c)
    BY <2>8, <2>9, <2>10, <2>11
  <2>. QED BY <2>12 DEF Totals, OutflowOf, q
<1>. QED BY <1>6, <1>7, <1>8, <1>9

\* After some outflows, a coin type is due nothing or, as each occurs once, its outflow.
LEMMA NegativeSoFar ==
  ASSUME NEW t \in Payments, NEW n \in Nat, DOMAIN Outflows[t] = 1 .. n, NEW k \in 0 .. n,
         NEW c \in CoinTypes
  PROVE  \/ FirstOf(Negative(Outflows[t]), k)[c] = 0
         \/ \E i \in 1 .. n : /\ Outflows[t][i].coin = c
                              /\ FirstOf(Negative(Outflows[t]), k)[c] = - Outflows[t][i].amount
<1>. DEFINE q == Outflows[t]
            m == Negative(Outflows[t])
<1>1. /\ m \in Seq(Change) /\ DOMAIN m = 1 .. n
      /\ \A i \in 1 .. n : m[i].coin = q[i].coin /\ m[i].amount = - q[i].amount
  BY NegativeOf
<1>2. \A i, j \in 1 .. n : q[i].coin = q[j].coin => i = j
  BY OutflowsType
<1>3. \A i \in 1 .. n : q[i].amount \in Nat
  BY OutflowsType
<1>. HIDE DEF q, m
<1>4. PICK U : U = Until(m, k, c)
  OBVIOUS
<1>5. FirstOf(m, k)[c] = SumOver(AmountsOf(m), U)
  BY <1>4 DEF FirstOf
<1>6. /\ U \subseteq 1 .. n
      /\ \A i \in 1 .. n : AmountsOf(m)[i] = m[i].amount
  BY <1>1, <1>4, UntilType
<1>7. CASE U = {}
  <2>1. SumOver(AmountsOf(m), U) = 0
    BY <1>7, SumOverEmpty
  <2>. QED BY <1>5, <2>1 DEF m
<1>8. CASE U # {}
  <2>1. PICK i \in 1 .. n : i \in U
    BY <1>6, <1>8
  <2>2. \A j \in U : j = i
    BY <1>1, <1>2, <1>4, <1>6, <2>1 DEF Until
  <2>3. U = {} \cup {i}
    BY <2>1, <2>2
  <2>4. AmountsOf(m)[i] = - q[i].amount /\ AmountsOf(m)[i] \in Int
    BY <1>1, <1>3, <1>6
  <2>5. SumOver(AmountsOf(m), {} \cup {i}) = SumOver(AmountsOf(m), {}) + AmountsOf(m)[i]
    <3>1. i \notin {} /\ IsFiniteSet({}) /\ \A y \in {} : AmountsOf(m)[y] \in Int
      BY FS_EmptySet
    <3>. QED BY <2>4, <3>1, SumOverAdd
  <2>6. SumOver(AmountsOf(m), {}) = 0
    BY SumOverEmpty
  <2>7. SumOver(AmountsOf(m), U) = - q[i].amount
    BY <1>3, <2>3, <2>4, <2>5, <2>6
  <2>8. q[i].coin = c
    BY <1>1, <1>4, <2>1 DEF Until
  <2>. QED BY <1>5, <2>7, <2>8 DEF m, q
<1>. QED BY <1>7, <1>8

\* An answer: what is due of a coin type after some of its changes is not below what the
\* analysis says it may take.
LEMMA AnswersOf ==
  ASSUME NEW t \in Payments, NEW changes \in Executions[t]
  PROVE  /\ changes \in Seq(Change) /\ \E n \in Nat : DOMAIN changes = 1 .. n
         /\ Totals(changes) \in [CoinTypes -> Int]
         /\ \A n \in Nat : DOMAIN changes = 1 .. n =>
               \A k \in 0 .. n : /\ FirstOf(changes, k) \in [CoinTypes -> Int]
                                 /\ \A c \in CoinTypes :
                                      FirstOf(changes, k)[c] + OutflowOf(t, c) >= 0
<1>1. changes \in Seq(Change)
  BY PaymentsAssumption DEF Change
<1>2. PICK n \in Nat : DOMAIN changes = 1 .. n
  BY <1>1, LenProperties
<1>3. \A i \in 1 .. n : changes[i] \in Change
  BY <1>1, <1>2, ElementOfSeq, LenProperties
<1>. DEFINE less(x) == IF x < 0 THEN x ELSE 0
            l == Losses(changes)
<1>4. ASSUME NEW i \in 1 .. n
      PROVE  [changes[i] EXCEPT !.amount = IF @ < 0 THEN @ ELSE 0]
                = [coin |-> changes[i].coin, amount |-> less(changes[i].amount)]
  <2>1. PICK o : o = changes[i]
    OBVIOUS
  <2>2. o = [coin |-> o.coin, amount |-> o.amount]
    BY <1>3, <2>1 DEF Change
  <2>3. PICK m : m = less(o.amount)
    OBVIOUS
  <2>4. [o EXCEPT !.amount = m] = [coin |-> o.coin, amount |-> m]
    BY <2>2
  <2>. QED BY <2>1, <2>3, <2>4
<1>5. l = [i \in 1 .. n |-> [coin |-> changes[i].coin, amount |-> less(changes[i].amount)]]
  BY <1>2, <1>4 DEF Losses
<1>6. \A i \in 1 .. n : [coin |-> changes[i].coin, amount |-> less(changes[i].amount)] \in Change
  BY <1>3 DEF Change
<1>7. l \in [1 .. n -> Change]
  <2>. HIDE DEF l, less
  <2>. QED BY <1>5, <1>6
<1>8. l \in Seq(Change) /\ DOMAIN l = 1 .. n
  BY <1>7, SeqDef
<1>9. \A i \in 1 .. n : l[i].coin = changes[i].coin /\ l[i].amount = less(changes[i].amount)
  BY <1>5
<1>10. ASSUME NEW k \in 0 .. n, NEW c \in CoinTypes
       PROVE  /\ SumOver(AmountsOf(changes), Until(changes, k, c)) \in Int
              /\ SumOver(AmountsOf(changes), Until(changes, k, c)) + OutflowOf(t, c) >= 0
  <2>1. n \in 0 .. n
    OBVIOUS
  <2>. DEFINE f == AmountsOf(changes)
              h == AmountsOf(l)
              U == Until(changes, k, c)
              S == Until(changes, n, c)
              zero == [i \in 1 .. n |-> 0]
  <2>2. IsFiniteSet(S) /\ S \subseteq 1 .. n /\ \A i \in 1 .. n : f[i] = changes[i].amount
    BY <1>1, <1>2, <2>1, UntilType
  <2>3. \A i \in 1 .. n : h[i] = less(changes[i].amount)
    BY <1>8, <1>9 DEF AmountsOf
  <2>4. U \in SUBSET S
    BY DEF Until
  <2>5. S = Until(l, n, c)
    BY <1>9 DEF Until
  <2>6. \A i \in 1 .. n : /\ f[i] \in Int /\ h[i] \in Int /\ h[i] <= f[i]
                          /\ zero[i] = 0 /\ zero[i] \in Int /\ h[i] <= zero[i]
    BY <1>3, <2>2, <2>3 DEF Change
  <2>. HIDE DEF f, h, U, S, zero, l, less
  <2>7. IsFiniteSet(U) /\ IsFiniteSet(S \ U) /\ U \subseteq 1 .. n /\ S \ U \subseteq 1 .. n
    BY <2>2, <2>4, FS_Subset
  <2>8. SumOver(h, U) <= SumOver(f, U)
    BY <2>6, <2>7, SumOverLess
  <2>9. SumOver(h, S \ U) <= SumOver(zero, S \ U)
    BY <2>6, <2>7, SumOverLess
  <2>10. SumOver(zero, S \ U) = 0
    BY <2>6, <2>7, SumOverZero
  <2>11. SumOver(h, S) = SumOver(h, U) + SumOver(h, S \ U)
    <3>1. \A i \in S : h[i] \in Int
      BY <2>2, <2>6
    <3>2. IsFiniteSet(S)
      BY <2>2
    <3>3. PICK S1, U1, h1 : S1 = S /\ U1 = U /\ h1 = h
      OBVIOUS
    <3>4. SumOver(h1, S1) = SumOver(h1, U1) + SumOver(h1, S1 \ U1)
      BY <2>4, <3>1, <3>2, <3>3, SumOverUnion
    <3>. QED BY <3>3, <3>4, Zenon
  <2>12. SumOver(f, U) \in Int /\ SumOver(h, U) \in Int /\ SumOver(h, S \ U) \in Int
    BY <2>6, <2>7, SumOverType
  <2>13. TotalOf(l, c) = SumOver(h, S)
    <3>1. TotalOf(l, c) = SumOver(AmountsOf(l), Until(l, n, c))
      BY <1>8, TotalOfIsSum
    <3>. QED BY <2>5, <3>1 DEF h
  <2>14. TotalOf(l, c) + OutflowOf(t, c) >= 0
    BY ExecutionsAreBounded DEF l
  <2>15. OutflowOf(t, c) \in Nat
    <3>1. PICK w \in Nat : DOMAIN Outflows[t] = 1 .. w
      BY OutflowsType
    <3>2. Totals(Outflows[t]) \in [CoinTypes -> Nat] /\ Totals(Outflows[t])[c] = OutflowOf(t, c)
      BY <3>1, OutflowsOf
    <3>. QED BY <3>2
  <2>16. SumOver(f, U) + OutflowOf(t, c) >= 0
    BY <2>8, <2>9, <2>10, <2>11, <2>12, <2>13, <2>14, <2>15
  <2>. QED BY <2>12, <2>16 DEF f, U
<1>11. \A k \in 0 .. n : /\ FirstOf(changes, k) \in [CoinTypes -> Int]
                         /\ \A c \in CoinTypes : FirstOf(changes, k)[c] + OutflowOf(t, c) >= 0
  BY <1>10 DEF FirstOf
<1>12. Totals(changes) \in [CoinTypes -> Int]
  <2>1. FirstOf(changes, n) = Totals(changes) /\ n \in 0 .. n
    BY <1>1, <1>2, TotalOfIsSum
  <2>. QED BY <1>11, <2>1
<1>13. \A w \in Nat : DOMAIN changes = 1 .. w => w = n
  BY <1>2
<1>. QED BY <1>1, <1>2, <1>11, <1>12, <1>13

\* What is reserved for a set of pending transactions.
ReservedOf(R, c) == MapThenSumSet(LAMBDA t : OutflowOf(t, c), R)

\* What is reserved is a sum over the pending transactions.
LEMMA ReservedIsSum ==
  ASSUME NEW R \in SUBSET Payments, NEW c
  PROVE  ReservedOf(R, c) = SumOver([t \in Payments |-> OutflowOf(t, c)], R)
<1>. DEFINE f == [t \in Payments |-> OutflowOf(t, c)]
            Is(h) == h = [T \in SUBSET R |->
                            IF T = {} THEN 0
                            ELSE LET t == CHOOSE t \in T : TRUE IN OutflowOf(t, c) + h[T \ {t}]]
<1>1. ReservedOf(R, c) = (CHOOSE h : Is(h))[R]
  BY DEF ReservedOf, MapThenSumSet, MapThenFoldSet
<1>2. IsFiniteSet(R)
  BY PaymentsAssumption, FS_Subset
<1>3. ASSUME NEW h
      PROVE  Is(h) <=> Sums(f, h, R)
  <2>1. \A T \in SUBSET R : \A t \in T : f[t] = OutflowOf(t, c)
    OBVIOUS
  <2>. HIDE DEF f
  <2>2. \A T \in SUBSET R :
           (IF T = {} THEN 0 ELSE LET t == CHOOSE t \in T : TRUE IN OutflowOf(t, c) + h[T \ {t}])
              = SumStep(f, h, T)
    BY <2>1 DEF SumStep
  <2>. QED BY <2>2 DEF Sums
<1>4. PICK h : h = CHOOSE k : Is(k)
  OBVIOUS
<1>5. \E k : Is(k)
  <2>. HIDE DEF Is, f
  <2>1. \E k : Sums(f, k, R)
    BY <1>2, SumsExist
  <2>. QED BY <1>3, <2>1
<1>6. Is(h)
  <2>. HIDE DEF Is
  <2>. QED BY <1>4, <1>5
<1>. HIDE DEF Is, f
<1>7. Sums(f, h, R)
  BY <1>3, <1>6
<1>8. h[R] = SumOver(f, R)
  BY <1>2, <1>7, SumsAreSumOver
<1>9. ReservedOf(R, c) = SumOver(f, R)
  BY <1>1, <1>4, <1>8
<1>. QED BY <1>9 DEF f

\* What is estimated of an analysed transaction are natural numbers.
LEMMA OutflowIs ==
  ASSUME NEW t \in Payments, NEW c \in CoinTypes
  PROVE  OutflowOf(t, c) \in Nat /\ Totals(Outflows[t])[c] = OutflowOf(t, c)
<1>1. PICK n \in Nat : DOMAIN Outflows[t] = 1 .. n
  BY OutflowsType
<1>2. Totals(Outflows[t]) \in [CoinTypes -> Nat] /\ Totals(Outflows[t])[c] = OutflowOf(t, c)
  BY <1>1, OutflowsOf
<1>. QED BY <1>2

\* What is reserved are natural numbers, and one more transaction reserves its outflow.
LEMMA ReservedAlso ==
  ASSUME NEW R \in SUBSET Payments, NEW c \in CoinTypes
  PROVE  /\ ReservedOf(R, c) \in Nat
         /\ \A t \in Payments \ R : ReservedOf(R \cup {t}, c) = ReservedOf(R, c) + OutflowOf(t, c)
<1>. DEFINE h == [u \in Payments |-> OutflowOf(u, c)]
<1>1. IsFiniteSet(R)
  BY PaymentsAssumption, FS_Subset
<1>2. \A u \in Payments : h[u] \in Nat /\ h[u] = OutflowOf(u, c)
  BY OutflowIs
<1>3. ReservedOf(R, c) = SumOver(h, R)
  BY ReservedIsSum
<1>4. ASSUME NEW t \in Payments \ R
      PROVE  ReservedOf(R \cup {t}, c) = SumOver(h, R \cup {t})
  <2>1. R \cup {t} \in SUBSET Payments
    OBVIOUS
  <2>. QED BY <2>1, ReservedIsSum
<1>. HIDE DEF h
<1>5. ReservedOf(R, c) \in Nat
  <2>1. R \in SUBSET R /\ \A u \in R : h[u] \in Nat
    BY <1>2
  <2>. QED BY <1>1, <1>3, <2>1, SumOverPart
<1>6. ASSUME NEW t \in Payments \ R
      PROVE  ReservedOf(R \cup {t}, c) = ReservedOf(R, c) + OutflowOf(t, c)
  <2>1. t \notin R /\ h[t] \in Int /\ \A u \in R : h[u] \in Int
    BY <1>2
  <2>2. SumOver(h, R \cup {t}) = SumOver(h, R) + h[t]
    BY <1>1, <2>1, SumOverAdd
  <2>. QED BY <1>2, <1>3, <1>4, <2>2
<1>. QED BY <1>5, <1>6

\* How far the budgets are from what was granted, coin type by coin type.
BalanceOf(ca, ea, R) == [c \in CoinTypes |-> ca[c] + ea[c] - ReservedOf(R, c)]
Counts == [CoinTypes -> Int]

\* What is left of the budgets is what was granted, shifted by a balance.
AddUp(g, s, due) ==
  /\ \A c \in DOMAIN g.coinBudgets : s.coinBudgets[c] = g.coinBudgets[c] + due[c]
  /\ s.sharedBudget = g.sharedBudget + SumOver(due, CoinTypes \ DOMAIN g.coinBudgets)
NotBelow(g, s) == \A c \in DOMAIN g.coinBudgets : s.coinBudgets[c] >= 0

\* The balance is a number for every coin type, and its sum is what BudgetsAddUp speaks of.
LEMMA BalanceIs ==
  ASSUME NEW ca \in Counts, NEW ea \in Counts, NEW R \in SUBSET Payments
  PROVE  BalanceOf(ca, ea, R) \in Counts
<1>1. \A c \in CoinTypes : ReservedOf(R, c) \in Nat
  BY ReservedAlso
<1>2. \A c \in CoinTypes : ca[c] + ea[c] - ReservedOf(R, c) \in Int
  <2>. TAKE c \in CoinTypes
  <2>1. ca[c] \in Int /\ ea[c] \in Int /\ ReservedOf(R, c) \in Int
    BY <1>1 DEF Counts
  <2>. QED BY <2>1
<1>. QED BY <1>2 DEF BalanceOf, Counts

\* The sum of a balance over coin types is a sum of the community modules.
LEMMA BalanceIsSum ==
  ASSUME NEW ca, NEW ea, NEW R, NEW S \in SUBSET CoinTypes
  PROVE  MapThenSumSet(LAMBDA c : ca[c] + ea[c] - ReservedOf(R, c), S)
            = SumOver(BalanceOf(ca, ea, R), S)
<1>. DEFINE f == BalanceOf(ca, ea, R)
            Is(h) == h = [T \in SUBSET S |->
                            IF T = {} THEN 0
                            ELSE LET c == CHOOSE c \in T : TRUE
                                 IN (ca[c] + ea[c] - ReservedOf(R, c)) + h[T \ {c}]]
<1>1. MapThenSumSet(LAMBDA c : ca[c] + ea[c] - ReservedOf(R, c), S) = (CHOOSE h : Is(h))[S]
  BY DEF MapThenSumSet, MapThenFoldSet
<1>2. IsFiniteSet(S)
  BY PaymentsAssumption, FS_Subset
<1>3. ASSUME NEW h
      PROVE  Is(h) <=> Sums(f, h, S)
  <2>1. \A T \in SUBSET S : \A c \in T : f[c] = ca[c] + ea[c] - ReservedOf(R, c)
    BY DEF BalanceOf
  <2>. HIDE DEF f
  <2>2. \A T \in SUBSET S :
           (IF T = {} THEN 0 ELSE LET c == CHOOSE c \in T : TRUE
                                  IN (ca[c] + ea[c] - ReservedOf(R, c)) + h[T \ {c}])
              = SumStep(f, h, T)
    <3>. TAKE T \in SUBSET S
    <3>1. CASE T = {}
      BY <3>1 DEF SumStep
    <3>2. CASE T # {}
      <4>1. PICK c : c = CHOOSE x \in T : TRUE
        OBVIOUS
      <4>2. c \in T
        BY <3>2, <4>1
      <4>3. f[c] = ca[c] + ea[c] - ReservedOf(R, c)
        BY <2>1, <4>2
      <4>. QED BY <3>2, <4>1, <4>3, Zenon DEF SumStep
    <3>. QED BY <3>1, <3>2
  <2>. QED BY <2>2 DEF Sums
<1>4. PICK h : h = CHOOSE k : Is(k)
  OBVIOUS
<1>5. \E k : Is(k)
  <2>. HIDE DEF Is, f
  <2>1. \E k : Sums(f, k, S)
    BY <1>2, SumsExist
  <2>. QED BY <1>3, <2>1
<1>6. Is(h)
  <2>. HIDE DEF Is
  <2>. QED BY <1>4, <1>5
<1>. HIDE DEF Is, f
<1>7. Sums(f, h, S)
  BY <1>3, <1>6
<1>8. h[S] = SumOver(f, S)
  <2>1. \A T \in SUBSET S : h[T] = SumOver(f, T)
    BY <1>2, <1>7, SumsAreSumOver, Zenon
  <2>. QED BY <2>1
<1>9. MapThenSumSet(LAMBDA c : ca[c] + ea[c] - ReservedOf(R, c), S) = SumOver(f, S)
  BY <1>1, <1>4, <1>8
<1>. QED BY <1>9 DEF f

\* Budgets are for coin types.
LEMMA BudgetsAreOfTypes ==
  ASSUME NEW g \in Grants
  PROVE  DOMAIN g.coinBudgets \subseteq CoinTypes /\ g \in SettingsOf(g) /\ NotBelow(g, g)
<1>1. DOMAIN g.coinBudgets \subseteq CoinTypes
  BY GrantsAssumption
<1>2. PICK D : D = DOMAIN g.coinBudgets
  OBVIOUS
<1>3. g \in [remainingTransactions : Nat, coinBudgets : [D -> Nat], sharedBudget : Nat,
             sharing : BOOLEAN]
  BY <1>2, GrantsAssumption
<1>4. /\ g.remainingTransactions \in Int /\ g.sharedBudget \in Int /\ g.coinBudgets \in [D -> Int]
      /\ g.sharing \in BOOLEAN
      /\ g = [remainingTransactions |-> g.remainingTransactions, coinBudgets |-> g.coinBudgets,
              sharedBudget |-> g.sharedBudget, sharing |-> g.sharing]
  BY <1>3
<1>5. g \in SettingsOf(g)
  BY <1>2, <1>4 DEF SettingsOf
<1>6. \A c \in D : g.coinBudgets[c] >= 0
  BY <1>3
<1>. QED BY <1>1, <1>2, <1>5, <1>6 DEF NotBelow

\* Budgets that add up still do when changes are booked, with a balance that is as much more.
LEMMA AddUpMoves ==
  ASSUME NEW g \in Grants, NEW s \in SettingsOf(g), NEW d \in Counts, NEW due \in Counts,
         NEW e \in Counts, \A c \in CoinTypes : e[c] = d[c] + due[c], AddUp(g, s, d)
  PROVE  AddUp(g, Shifted(s, due), e)
<1>1. PICK D : D = DOMAIN g.coinBudgets
  OBVIOUS
<1>2. /\ D \subseteq CoinTypes /\ DOMAIN s.coinBudgets = D
      /\ g.sharedBudget \in Int /\ s.sharedBudget \in Int
      /\ \A c \in D : g.coinBudgets[c] \in Int
  BY <1>1, BudgetsAreOfTypes DEF SettingsOf
<1>3. PICK S : S = CoinTypes \ D
  OBVIOUS
<1>4. IsFiniteSet(S) /\ S \subseteq CoinTypes
  BY <1>3, PaymentsAssumption, FS_Subset
<1>5. \A c \in CoinTypes : d[c] \in Int /\ due[c] \in Int /\ e[c] \in Int
  BY DEF Counts
<1>6. SumOver(e, S) = SumOver(d, S) + SumOver(due, S)
  <2>1. \A c \in S : d[c] \in Int /\ due[c] \in Int /\ e[c] = d[c] + due[c]
    BY <1>4, <1>5
  <2>. QED BY <1>4, <2>1, SumOverPlus
<1>7. SumOver(d, S) \in Int /\ SumOver(due, S) \in Int
  <2>1. \A c \in S : d[c] \in Int /\ due[c] \in Int
    BY <1>4, <1>5
  <2>. QED BY <1>4, <2>1, SumOverType
<1>8. PICK r : r = Shifted(s, due)
  OBVIOUS
<1>9. /\ r.coinBudgets = [c \in D |-> s.coinBudgets[c] + due[c]]
      /\ r.sharedBudget = s.sharedBudget + SumOver(due, S)
  BY <1>2, <1>3, <1>8 DEF Shifted
<1>10. r.sharedBudget = g.sharedBudget + SumOver(e, S)
  <2>1. s.sharedBudget = g.sharedBudget + SumOver(d, S)
    BY <1>1, <1>3 DEF AddUp
  <2>. QED BY <1>2, <1>6, <1>7, <1>9, <2>1
<1>11. \A c \in D : r.coinBudgets[c] = g.coinBudgets[c] + e[c]
  <2>. TAKE c \in D
  <2>1. s.coinBudgets[c] = g.coinBudgets[c] + d[c]
    BY <1>1 DEF AddUp
  <2>2. r.coinBudgets[c] = s.coinBudgets[c] + due[c]
    BY <1>9
  <2>. QED BY <1>2, <1>5, <2>1, <2>2
<1>. QED BY <1>1, <1>3, <1>8, <1>10, <1>11 DEF AddUp

\* What was booked when a loop over changes ended, and when it ended after all of them.
BookedBy(s, changes, n, b) ==
  /\ b.thrown \in BOOLEAN
  /\ \E k \in 0 .. n : b.settings = Shifted(s, FirstOf(changes, k))
  /\ ~ b.thrown => b.settings = Shifted(s, Totals(changes))

\* What the loop leaves.
LEMMA LoopEnds ==
  ASSUME NEW t, NEW g \in Grants, NEW s \in SettingsOf(g), NEW changes \in Seq(Change),
         NEW n \in Nat, DOMAIN changes = 1 .. n
  PROVE  BookedBy(s, changes, n, Booked(t, s, changes))
<1>1. DOMAIN g.coinBudgets \subseteq CoinTypes
  BY BudgetsAreOfTypes
<1>2. PICK b : b = Booked(t, s, changes)
  OBVIOUS
<1>3. BookedSoFar(s, changes, n, b)
  BY <1>1, <1>2, BookingEffect
<1>4. FirstOf(changes, n) = Totals(changes)
  BY TotalOfIsSum
<1>5. PICK k \in 0 .. n :
         /\ b = [settings |-> Shifted(s, FirstOf(changes, k)), thrown |-> b.thrown]
         /\ ~ b.thrown => k = n
  BY <1>3 DEF BookedSoFar
<1>6. b.thrown \in BOOLEAN
  BY <1>3 DEF BookedSoFar
<1>7. b.settings = Shifted(s, FirstOf(changes, k))
  BY <1>5
<1>. QED BY <1>2, <1>4, <1>5, <1>6, <1>7 DEF BookedBy

\* What shifting does to a coin budget.
LEMMA ShiftedBudgets ==
  ASSUME NEW g \in Grants, NEW s \in SettingsOf(g), NEW due \in Counts
  PROVE  /\ Shifted(s, due) \in SettingsOf(g)
         /\ \A c \in DOMAIN g.coinBudgets :
               /\ c \in CoinTypes /\ s.coinBudgets[c] \in Int /\ due[c] \in Int
               /\ Shifted(s, due).coinBudgets[c] = s.coinBudgets[c] + due[c]
<1>1. DOMAIN g.coinBudgets \subseteq CoinTypes
  BY BudgetsAreOfTypes
<1>2. Shifted(s, due) \in SettingsOf(g)
  BY <1>1, ShiftedType DEF Counts
<1>3. PICK D : D = DOMAIN g.coinBudgets
  OBVIOUS
<1>4. DOMAIN s.coinBudgets = D /\ s.coinBudgets \in [D -> Int]
  BY <1>3 DEF SettingsOf
<1>5. Shifted(s, due).coinBudgets = [c \in D |-> s.coinBudgets[c] + due[c]]
  BY <1>4 DEF Shifted
<1>. QED BY <1>1, <1>2, <1>3, <1>4, <1>5 DEF Counts

\* Another number of remaining transactions leaves the budgets alone.
LEMMA CountedSettings ==
  ASSUME NEW g, NEW s \in SettingsOf(g), NEW n \in Int
  PROVE  /\ [s EXCEPT !.remainingTransactions = n] \in SettingsOf(g)
         /\ [s EXCEPT !.remainingTransactions = n].coinBudgets = s.coinBudgets
         /\ [s EXCEPT !.remainingTransactions = n].sharedBudget = s.sharedBudget
<1>1. PICK B : B = [DOMAIN g.coinBudgets -> Int]
  OBVIOUS
<1>2. s \in [remainingTransactions : Int, coinBudgets : B, sharedBudget : Int, sharing : BOOLEAN]
  BY <1>1 DEF SettingsOf
<1>3. PICK r : r = [s EXCEPT !.remainingTransactions = n]
  OBVIOUS
<1>4. /\ r \in [remainingTransactions : Int, coinBudgets : B, sharedBudget : Int, sharing : BOOLEAN]
      /\ r.coinBudgets = s.coinBudgets /\ r.sharedBudget = s.sharedBudget
  BY <1>2, <1>3
<1>. QED BY <1>1, <1>3, <1>4 DEF SettingsOf

\* How far the budgets are from what was granted now, and whether no booking threw.
BudgetBalance == BalanceOf(carried, earned, Range(pendingDigests))
NoneThrew == \A t \in Payments : progress[t] # "thrown"

\* What holds of the manager and the wallet besides the budgets, and the budgets.
ApprovalsTypeOK ==
  /\ pendingDigests \in Seq(Payments) /\ IsInjective(pendingDigests)
  /\ progress \in [Payments -> {"analysed", "committed", "thrown", "over"}]
  /\ carried \in Counts /\ earned \in Counts
  /\ granted \in Grants \cup {NoSettings}
  /\ granted = NoSettings => settings = NoSettings /\ pendingDigests = <<>>
  /\ granted # NoSettings => settings \in SettingsOf(granted)
  /\ \A t \in Range(pendingDigests) : progress[t] = "committed"
BudgetsHold ==
  granted # NoSettings =>
     /\ NotBelow(granted, settings)
     /\ NoneThrew => AddUp(granted, settings, BudgetBalance)
ApprovalsInv == ApprovalsTypeOK /\ BudgetsHold

\* What is pending are transactions.
LEMMA PendingIs ==
  ASSUME ApprovalsTypeOK
  PROVE  /\ Range(pendingDigests) = ToSet(pendingDigests)
         /\ Range(pendingDigests) \in SUBSET Payments
         /\ BudgetBalance \in Counts
<1>1. Range(pendingDigests) = ToSet(pendingDigests)
  BY DEF Range, ToSet
<1>2. Range(pendingDigests) \in SUBSET Payments
  BY <1>1, ElementsByIndex DEF ApprovalsTypeOK
<1>. QED BY <1>1, <1>2, BalanceIs DEF ApprovalsTypeOK, BudgetBalance

\* A booking that ended with b, as an action leaves it.
EndedWith(t, b, otherwise) ==
  /\ progress[t] \in {"analysed", "committed"} /\ otherwise \in {"committed", "over"}
  /\ Ends(t, b, otherwise) /\ b.thrown \in BOOLEAN
  /\ b.settings \in SettingsOf(granted) /\ NotBelow(granted, b.settings)
  /\ granted # NoSettings /\ granted' = granted /\ carried' = carried
\* What is pending then, and what its answer added.
StillPending(t) ==
  /\ pendingDigests' \in Seq(Payments) /\ IsInjective(pendingDigests') /\ earned' \in Counts
  /\ \A u \in Range(pendingDigests') \ {t} : u \in Range(pendingDigests)
  /\ t \in Range(pendingDigests') => progress'[t] = "committed"

\* What remains to show of an action that books.
LEMMA BookingKeeps ==
  ASSUME ApprovalsInv, NEW t \in Payments, NEW b, NEW otherwise, EndedWith(t, b, otherwise),
         StillPending(t), ~ b.thrown /\ NoneThrew => AddUp(granted, b.settings, BudgetBalance')
  PROVE  ApprovalsInv'
<1>. USE DEF ApprovalsInv, EndedWith, StillPending
<1>1. progress \in [Payments -> {"analysed", "committed", "thrown", "over"}]
  BY DEF ApprovalsTypeOK
<1>2. /\ settings' = b.settings
      /\ progress' = [progress EXCEPT ![t] = IF b.thrown THEN "thrown" ELSE otherwise]
  BY DEF Ends
<1>3. progress' \in [Payments -> {"analysed", "committed", "thrown", "over"}]
  BY <1>1, <1>2
<1>4. \A u \in Range(pendingDigests') : progress'[u] = "committed"
  <2>. TAKE u \in Range(pendingDigests')
  <2>1. CASE u = t
    BY <2>1
  <2>2. CASE u # t
    <3>1. u \in Range(pendingDigests) /\ Range(pendingDigests) \in SUBSET Payments
      BY <2>2, PendingIs
    <3>2. progress[u] = "committed"
      BY <3>1 DEF ApprovalsTypeOK
    <3>. QED BY <1>1, <1>2, <2>2, <3>1, <3>2
  <2>. QED BY <2>1, <2>2
<1>5. ApprovalsTypeOK'
  BY <1>2, <1>3, <1>4 DEF ApprovalsTypeOK
<1>6. NoneThrew' => NoneThrew /\ ~ b.thrown
  BY <1>1, <1>2 DEF NoneThrew
<1>7. BudgetsHold'
  BY <1>2, <1>6 DEF BudgetsHold, NotBelow
<1>. QED BY <1>5, <1>7

\* A transaction is approved and committed.
LEMMA ApproveKeeps ==
  ASSUME ApprovalsInv, NEW t \in Payments, Approve(t)
  PROVE  ApprovalsInv'
<1>. USE DEF ApprovalsInv
<1>. DEFINE m == IF settings.remainingTransactions > 0 THEN settings.remainingTransactions - 1
                 ELSE 0
            counted == [settings EXCEPT !.remainingTransactions = m]
            b == Booked(t, counted, Negative(Outflows[t]))
            R == Range(pendingDigests)
<1>1. /\ progress[t] = "analysed" /\ CanAutoApprove(t) /\ Ends(t, b, "committed")
      /\ pendingDigests' = IF b.thrown THEN pendingDigests ELSE Append(pendingDigests, t)
      /\ granted' = granted /\ carried' = carried /\ earned' = earned
  BY DEF Approve
<1>2. granted # NoSettings /\ granted \in Grants /\ settings \in SettingsOf(granted)
  BY <1>1 DEF CanAutoApprove, ApprovalsTypeOK
<1>3. m \in Int
  BY <1>2 DEF SettingsOf
<1>4. /\ counted \in SettingsOf(granted) /\ counted.coinBudgets = settings.coinBudgets
      /\ counted.sharedBudget = settings.sharedBudget
  BY <1>2, <1>3, CountedSettings
<1>5. PICK n \in Nat : DOMAIN Outflows[t] = 1 .. n
  BY OutflowsType
<1>6. PICK q : q = Negative(Outflows[t])
  OBVIOUS
<1>7. /\ q \in Seq(Change) /\ DOMAIN q = 1 .. n
      /\ \A c \in CoinTypes : Totals(q)[c] = - OutflowOf(t, c)
  BY <1>5, <1>6, NegativeOf
<1>8. BookedBy(counted, q, n, b)
  <2>. HIDE DEF counted, m
  <2>. QED BY <1>2, <1>4, <1>6, <1>7, LoopEnds
<1>. HIDE DEF m, counted, b
<1>9. b.thrown \in BOOLEAN /\ (~ b.thrown => b.settings = Shifted(counted, Totals(q)))
  BY <1>8 DEF BookedBy
<1>10. PICK k \in 0 .. n : b.settings = Shifted(counted, FirstOf(q, k))
  BY <1>8 DEF BookedBy
<1>11. FirstOf(q, k) \in Counts
  <2>1. CASE k = 0
    BY <2>1, NoneOf DEF Counts
  <2>2. CASE k # 0
    <3>1. k \in 1 .. n
      BY <2>2
    <3>2. \A c : SumOver(AmountsOf(q), Until(q, k, c)) \in Int
      <4>. TAKE c
      <4>1. /\ IsFiniteSet(Until(q, k, c)) /\ Until(q, k, c) \subseteq 1 .. n
            /\ \A i \in 1 .. n : AmountsOf(q)[i] \in Int
        BY <1>7, UntilType
      <4>2. \A i \in Until(q, k, c) : AmountsOf(q)[i] \in Int
        BY <4>1
      <4>. QED BY <4>1, <4>2, SumOverType
    <3>. QED BY <3>2 DEF FirstOf, Counts
  <2>. QED BY <2>1, <2>2
<1>12. b.settings \in SettingsOf(granted) /\ NotBelow(granted, b.settings)
  <2>1. /\ b.settings \in SettingsOf(granted)
        /\ \A c \in DOMAIN granted.coinBudgets :
              /\ c \in CoinTypes /\ settings.coinBudgets[c] \in Int
              /\ b.settings.coinBudgets[c] = settings.coinBudgets[c] + FirstOf(q, k)[c]
    BY <1>2, <1>4, <1>10, <1>11, ShiftedBudgets
  <2>2. ASSUME NEW c \in DOMAIN granted.coinBudgets
        PROVE  b.settings.coinBudgets[c] >= 0
    <3>1. settings.coinBudgets[c] >= 0 /\ settings.coinBudgets[c] \in Int /\ c \in CoinTypes
      BY <1>2, <2>1 DEF BudgetsHold, NotBelow
    <3>2. CASE FirstOf(q, k)[c] = 0
      BY <2>1, <3>1, <3>2
    <3>3. ASSUME NEW i \in 1 .. n, Outflows[t][i].coin = c,
                 FirstOf(q, k)[c] = - Outflows[t][i].amount
          PROVE  b.settings.coinBudgets[c] >= 0
      <4>1. PICK o : o = Outflows[t][i]
        OBVIOUS
      <4>2. o \in Range(Outflows[t]) /\ o.amount \in Nat /\ o.coin = c
        BY <1>5, <3>3, <4>1, OutflowsType DEF Range
      <4>3. c \in DOMAIN settings.coinBudgets
        BY <1>2 DEF SettingsOf
      <4>4. o.amount > 0 => settings.coinBudgets[c] >= o.amount
        BY <1>1, <4>2, <4>3 DEF CanAutoApprove, Affordable
      <4>5. b.settings.coinBudgets[c] = settings.coinBudgets[c] + - o.amount
        BY <2>1, <3>3, <4>1
      <4>. QED BY <3>1, <4>2, <4>4, <4>5
    <3>. QED BY <1>5, <1>6, <3>1, <3>2, <3>3, NegativeSoFar
  <2>. QED BY <2>1, <2>2 DEF NotBelow
<1>13. /\ pendingDigests \in Seq(Payments) /\ IsInjective(pendingDigests)
       /\ progress \in [Payments -> {"analysed", "committed", "thrown", "over"}]
       /\ carried \in Counts /\ earned \in Counts
  BY DEF ApprovalsTypeOK
<1>14. R = ToSet(pendingDigests) /\ R \in SUBSET Payments /\ t \notin R /\ BudgetBalance \in Counts
  <2>1. t \notin R
    BY <1>1 DEF ApprovalsTypeOK
  <2>. QED BY <2>1, PendingIs
<1>15. EndedWith(t, b, "committed")
  BY <1>1, <1>2, <1>9, <1>12 DEF EndedWith
<1>16. CASE b.thrown
  <2>1. StillPending(t)
    BY <1>1, <1>13, <1>14, <1>16 DEF StillPending
  <2>. QED BY <1>15, <1>16, <2>1, BookingKeeps
<1>17. CASE ~ b.thrown
  <2>1. /\ pendingDigests' \in Seq(Payments) /\ IsInjective(pendingDigests')
        /\ ToSet(pendingDigests') = R \cup {t}
    BY <1>1, <1>13, <1>14, <1>17, JoinOne
  <2>2. Range(pendingDigests') = R \cup {t}
    BY <2>1 DEF Range, ToSet
  <2>3. progress'[t] = "committed"
    BY <1>1, <1>13, <1>17 DEF Ends
  <2>4. StillPending(t)
    BY <1>1, <1>13, <2>1, <2>2, <2>3 DEF StillPending
  <2>5. BudgetBalance' = BalanceOf(carried, earned, R \cup {t})
    BY <1>1, <2>2 DEF BudgetBalance
  <2>6. BudgetBalance' \in Counts
    BY <1>13, <1>14, <2>5, BalanceIs
  <2>7. Totals(q) \in Counts
    BY <1>7, OutflowIs DEF Totals, Counts
  <2>8. \A c \in CoinTypes : BudgetBalance'[c] = BudgetBalance[c] + Totals(q)[c]
    <3>. TAKE c \in CoinTypes
    <3>1. /\ ReservedOf(R \cup {t}, c) = ReservedOf(R, c) + OutflowOf(t, c)
          /\ ReservedOf(R, c) \in Nat /\ OutflowOf(t, c) \in Nat
      BY <1>14, ReservedAlso, OutflowIs
    <3>2. carried[c] \in Int /\ earned[c] \in Int
      BY <1>13 DEF Counts
    <3>3. /\ BudgetBalance'[c] = carried[c] + earned[c] - ReservedOf(R \cup {t}, c)
          /\ BudgetBalance[c] = carried[c] + earned[c] - ReservedOf(R, c)
      BY <2>5 DEF BudgetBalance, BalanceOf
    <3>. QED BY <1>7, <3>1, <3>2, <3>3
  <2>9. NoneThrew => AddUp(granted, b.settings, BudgetBalance')
    <3>1. ASSUME NoneThrew
          PROVE  AddUp(granted, counted, BudgetBalance)
      BY <1>2, <1>4, <3>1 DEF BudgetsHold, AddUp
    <3>2. PICK e \in Counts : e = BudgetBalance'
      BY <2>6
    <3>3. PICK d \in Counts : d = BudgetBalance
      BY <1>14
    <3>4. PICK due \in Counts : due = Totals(q)
      BY <2>7
    <3>5. \A c \in CoinTypes : e[c] = d[c] + due[c]
      BY <2>8, <3>2, <3>3, <3>4
    <3>6. ASSUME NoneThrew
          PROVE  AddUp(granted, Shifted(counted, due), e)
      <4>1. AddUp(granted, counted, d) /\ granted \in Grants /\ counted \in SettingsOf(granted)
        BY <1>2, <1>4, <3>1, <3>3, <3>6
      <4>. QED BY <3>5, <4>1, AddUpMoves
    <3>. QED BY <1>9, <1>17, <3>2, <3>4, <3>6
  <2>. QED BY <1>15, <2>4, <2>9, BookingKeeps
<1>. QED BY <1>9, <1>16, <1>17

\* What is known of a transaction that is no longer pending.
Gone(t) ==
  /\ t \in Payments /\ progress[t] = "committed"
  /\ granted \in Grants /\ granted # NoSettings /\ settings \in SettingsOf(granted)
  /\ NotBelow(granted, settings)
  /\ granted' = granted /\ carried' = carried /\ carried \in Counts /\ earned \in Counts
  /\ pendingDigests' \in Seq(Payments) /\ IsInjective(pendingDigests')
  /\ Range(pendingDigests') = Range(pendingDigests) \ {t}
  /\ Range(pendingDigests) \in SUBSET Payments /\ t \in Range(pendingDigests)
  /\ BudgetBalance \in Counts
  /\ (NoneThrew => AddUp(granted, settings, BudgetBalance))

\* A pending transaction is forgotten.
LEMMA ForgetLeaves ==
  ASSUME ApprovalsInv, NEW t \in Payments, Forget(t)
  PROVE  Gone(t)
<1>. USE DEF ApprovalsInv
<1>1. /\ progress[t] = "committed" /\ t \in Range(pendingDigests)
      /\ pendingDigests' = RemoveFirst(pendingDigests, t)
      /\ granted' = granted /\ carried' = carried
  BY DEF Forget
<1>2. /\ Range(pendingDigests) = ToSet(pendingDigests)
      /\ Range(pendingDigests) \in SUBSET Payments /\ BudgetBalance \in Counts
  BY PendingIs
<1>3. pendingDigests \in Seq(Payments) /\ IsInjective(pendingDigests)
  BY DEF ApprovalsTypeOK
<1>4. /\ pendingDigests' \in Seq(Payments) /\ IsInjective(pendingDigests')
      /\ ToSet(pendingDigests') = ToSet(pendingDigests) \ {t}
  BY <1>1, <1>2, <1>3, RemoveFirstOfDistinct
<1>5. Range(pendingDigests') = Range(pendingDigests) \ {t}
  BY <1>2, <1>4 DEF Range, ToSet
<1>6. granted # NoSettings
  BY <1>1, <1>2 DEF ApprovalsTypeOK, ToSet
<1>. QED BY <1>1, <1>2, <1>4, <1>5, <1>6 DEF Gone, ApprovalsTypeOK, BudgetsHold

\* The estimate of t is given back to settings s with these budgets, and leaves b.
GivesBack(t, s, b) ==
  /\ s \in SettingsOf(granted) /\ s.coinBudgets = settings.coinBudgets
  /\ s.sharedBudget = settings.sharedBudget
  /\ b = Booked(t, s, Outflows[t])

\* What is given back is added to the budgets, in part or, unless it throws, as a whole: the
\* budgets are then those of a balance without the reservation.
LEMMA EstimateGivenBack ==
  ASSUME NEW t, Gone(t), NEW s, NEW b, GivesBack(t, s, b)
  PROVE  /\ b.thrown \in BOOLEAN /\ b.settings \in SettingsOf(granted)
         /\ NotBelow(granted, b.settings)
         /\ BalanceOf(carried, earned, Range(pendingDigests')) \in Counts
         /\ ~ b.thrown =>
              /\ \A c \in DOMAIN granted.coinBudgets :
                    c \in CoinTypes /\ b.settings.coinBudgets[c] >= OutflowOf(t, c)
              /\ NoneThrew => AddUp(granted, b.settings,
                                    BalanceOf(carried, earned, Range(pendingDigests')))
<1>. USE DEF Gone, GivesBack
<1>1. PICK n \in Nat : DOMAIN Outflows[t] = 1 .. n
  BY OutflowsType
<1>2. PICK q : q = Outflows[t]
  OBVIOUS
<1>3. /\ q \in Seq(Change) /\ DOMAIN q = 1 .. n
      /\ Totals(q) \in [CoinTypes -> Nat]
      /\ \A k \in 0 .. n : FirstOf(q, k) \in [CoinTypes -> Nat]
      /\ \A c \in CoinTypes : Totals(q)[c] = OutflowOf(t, c)
  BY <1>1, <1>2, OutflowsType, OutflowsOf
<1>4. BookedBy(s, q, n, b)
  <2>1. b = Booked(t, s, q)
    BY <1>2
  <2>2. BookedBy(s, q, n, Booked(t, s, q))
    BY <1>3, LoopEnds
  <2>. QED BY <2>1, <2>2
<1>5. PICK k \in 0 .. n : b.settings = Shifted(s, FirstOf(q, k))
  BY <1>4 DEF BookedBy
<1>6. b.thrown \in BOOLEAN /\ (~ b.thrown => b.settings = Shifted(s, Totals(q)))
  BY <1>4 DEF BookedBy
<1>7. PICK due : due = FirstOf(q, k)
  OBVIOUS
<1>8. due \in Counts /\ \A c \in CoinTypes : due[c] \in Nat
  BY <1>3, <1>7 DEF Counts
<1>9. /\ b.settings \in SettingsOf(granted)
      /\ \A c \in DOMAIN granted.coinBudgets :
            /\ c \in CoinTypes /\ s.coinBudgets[c] \in Int
            /\ b.settings.coinBudgets[c] = s.coinBudgets[c] + due[c]
  BY <1>5, <1>7, <1>8, ShiftedBudgets
<1>10. \A c \in DOMAIN granted.coinBudgets : s.coinBudgets[c] >= 0
  BY DEF NotBelow
<1>11. NotBelow(granted, b.settings)
  <2>1. ASSUME NEW c \in DOMAIN granted.coinBudgets
        PROVE  b.settings.coinBudgets[c] >= 0
    BY <1>8, <1>9, <1>10
  <2>. QED BY <2>1 DEF NotBelow
<1>12. PICK R : R = Range(pendingDigests')
  OBVIOUS
<1>13. R \in SUBSET Payments /\ t \in Payments \ R /\ Range(pendingDigests) = R \cup {t}
  BY <1>12
<1>14. PICK e : e = BalanceOf(carried, earned, R)
  OBVIOUS
<1>15. e \in Counts
  BY <1>13, <1>14, BalanceIs
<1>16. PICK w : w = Totals(q)
  OBVIOUS
<1>17. w \in Counts /\ \A c \in CoinTypes : w[c] = OutflowOf(t, c) /\ w[c] \in Nat
  BY <1>3, <1>16 DEF Counts
<1>18. ASSUME ~ b.thrown
       PROVE  \A c \in DOMAIN granted.coinBudgets :
                 c \in CoinTypes /\ b.settings.coinBudgets[c] >= OutflowOf(t, c)
  <2>. TAKE c \in DOMAIN granted.coinBudgets
  <2>1. b.settings = Shifted(s, w)
    BY <1>6, <1>16, <1>18
  <2>2. b.settings.coinBudgets[c] = s.coinBudgets[c] + w[c]
    BY <1>17, <2>1, ShiftedBudgets
  <2>. QED BY <1>9, <1>10, <1>17, <2>2
<1>19. PICK d \in Counts : d = BudgetBalance
  OBVIOUS
<1>20. \A c \in CoinTypes : e[c] = d[c] + w[c]
  <2>. TAKE c \in CoinTypes
  <2>1. /\ ReservedOf(R \cup {t}, c) = ReservedOf(R, c) + OutflowOf(t, c)
        /\ ReservedOf(R, c) \in Nat /\ OutflowOf(t, c) \in Nat
    BY <1>13, ReservedAlso, OutflowIs
  <2>2. carried[c] \in Int /\ earned[c] \in Int
    BY DEF Counts
  <2>3. /\ d[c] = carried[c] + earned[c] - ReservedOf(R \cup {t}, c)
        /\ e[c] = carried[c] + earned[c] - ReservedOf(R, c)
    BY <1>13, <1>14, <1>19 DEF BudgetBalance, BalanceOf
  <2>. QED BY <1>17, <2>1, <2>2, <2>3
<1>21. ASSUME ~ b.thrown, NoneThrew
       PROVE  AddUp(granted, b.settings, e)
  <2>1. AddUp(granted, s, d)
    BY <1>19, <1>21 DEF AddUp
  <2>2. b.settings = Shifted(s, w)
    BY <1>6, <1>16, <1>21
  <2>3. AddUp(granted, Shifted(s, w), e)
    BY <1>15, <1>17, <1>20, <2>1, AddUpMoves
  <2>. QED BY <2>2, <2>3
<1>. HIDE DEF Gone, GivesBack
<1>. QED BY <1>6, <1>9, <1>11, <1>12, <1>14, <1>15, <1>18, <1>21

\* A transaction failed.
LEMMA RevertKeeps ==
  ASSUME ApprovalsInv, NEW t \in Payments, Revert(t)
  PROVE  ApprovalsInv'
<1>. DEFINE m == settings.remainingTransactions + 1
            s == [settings EXCEPT !.remainingTransactions = m]
            b == Booked(t, s, Outflows[t])
<1>1. Forget(t) /\ Ends(t, b, "over") /\ earned' = earned
  BY DEF Revert
<1>2. Gone(t)
  BY <1>1, ForgetLeaves
<1>3. m \in Int
  BY <1>2 DEF Gone, SettingsOf
<1>4. GivesBack(t, s, b)
  <2>1. settings \in SettingsOf(granted)
    BY <1>2 DEF Gone
  <2>2. /\ s \in SettingsOf(granted) /\ s.coinBudgets = settings.coinBudgets
        /\ s.sharedBudget = settings.sharedBudget
    BY <1>3, <2>1, CountedSettings
  <2>. QED BY <2>2 DEF GivesBack
<1>. HIDE DEF m, s, b
<1>5. PICK e : e = BalanceOf(carried, earned, Range(pendingDigests'))
  OBVIOUS
<1>6. /\ b.thrown \in BOOLEAN /\ b.settings \in SettingsOf(granted)
      /\ NotBelow(granted, b.settings)
      /\ ~ b.thrown /\ NoneThrew => AddUp(granted, b.settings, e)
  BY <1>2, <1>4, <1>5, EstimateGivenBack
<1>7. BudgetBalance' = e
  BY <1>1, <1>2, <1>5 DEF BudgetBalance, Gone
<1>8. EndedWith(t, b, "over")
  BY <1>1, <1>2, <1>6 DEF EndedWith, Gone
<1>9. StillPending(t)
  BY <1>1, <1>2 DEF StillPending, Gone
<1>. QED BY <1>6, <1>7, <1>8, <1>9, BookingKeeps

\* A transaction was executed.
LEMMA ApplyKeeps ==
  ASSUME ApprovalsInv, NEW t \in Payments, Apply(t)
  PROVE  ApprovalsInv'
<1>1. PICK back : back = GivenBack(t)
  OBVIOUS
<1>2. PICK changes \in Executions[t] :
         /\ Ends(t, IF back.thrown THEN back ELSE Booked(t, back.settings, changes), "over")
         /\ earned' = [c \in CoinTypes |-> earned[c] + TotalOf(changes, c)]
  BY <1>1 DEF Apply
<1>3. PICK b : b = IF back.thrown THEN back ELSE Booked(t, back.settings, changes)
  OBVIOUS
<1>4. Ends(t, b, "over")
  BY <1>2, <1>3
<1>5. Gone(t)
  BY ForgetLeaves DEF Apply
<1>6. PICK R : R = Range(pendingDigests')
  OBVIOUS
<1>7. PICK e : e = BalanceOf(carried, earned, R)
  OBVIOUS
<1>8. /\ back.thrown \in BOOLEAN /\ back.settings \in SettingsOf(granted)
      /\ NotBelow(granted, back.settings) /\ e \in Counts
      /\ ~ back.thrown =>
            /\ \A c \in DOMAIN granted.coinBudgets :
                  c \in CoinTypes /\ back.settings.coinBudgets[c] >= OutflowOf(t, c)
            /\ NoneThrew => AddUp(granted, back.settings, e)
  <2>1. GivesBack(t, settings, back)
    BY <1>1, <1>5 DEF GivesBack, GivenBack, Gone
  <2>. QED BY <1>5, <1>6, <1>7, <2>1, EstimateGivenBack
<1>9. /\ changes \in Seq(Change) /\ Totals(changes) \in Counts
      /\ \A c \in CoinTypes : Totals(changes)[c] = TotalOf(changes, c)
  BY AnswersOf DEF Counts, Totals
<1>10. PICK w : w = Totals(changes)
  OBVIOUS
<1>11. w \in Counts /\ earned' = [c \in CoinTypes |-> earned[c] + w[c]]
  BY <1>2, <1>9, <1>10
<1>12. earned' \in Counts /\ \A c \in CoinTypes : earned'[c] = earned[c] + w[c]
  BY <1>5, <1>11 DEF Gone, Counts
<1>13. StillPending(t)
  BY <1>5, <1>12 DEF StillPending, Gone
<1>14. CASE back.thrown
  <2>1. b = back
    BY <1>3, <1>14
  <2>2. EndedWith(t, b, "over")
    BY <1>4, <1>5, <1>8, <2>1 DEF EndedWith, Gone
  <2>. QED BY <1>13, <1>14, <2>1, <2>2, BookingKeeps
<1>15. CASE ~ back.thrown
  <2>1. PICK s \in SettingsOf(granted) : s = back.settings
    BY <1>8
  <2>2. /\ b = Booked(t, s, changes)
        /\ \A c \in DOMAIN granted.coinBudgets :
              c \in CoinTypes /\ s.coinBudgets[c] >= OutflowOf(t, c)
        /\ NoneThrew => AddUp(granted, s, e)
    BY <1>3, <1>8, <1>15, <2>1
  <2>3. PICK n \in Nat : DOMAIN changes = 1 .. n
    BY AnswersOf
  <2>4. granted \in Grants
    BY <1>5 DEF Gone
  <2>5. BookedBy(s, changes, n, b)
    BY <1>9, <2>2, <2>3, <2>4, LoopEnds
  <2>6. PICK k \in 0 .. n : b.settings = Shifted(s, FirstOf(changes, k))
    BY <2>5 DEF BookedBy
  <2>7. b.thrown \in BOOLEAN /\ (~ b.thrown => b.settings = Shifted(s, w))
    BY <1>10, <2>5 DEF BookedBy
  <2>8. PICK due : due = FirstOf(changes, k)
    OBVIOUS
  <2>9. due \in Counts /\ \A c \in CoinTypes : due[c] + OutflowOf(t, c) >= 0
    BY <2>3, <2>8, AnswersOf DEF Counts
  <2>10. /\ b.settings \in SettingsOf(granted)
         /\ \A c \in DOMAIN granted.coinBudgets :
               /\ s.coinBudgets[c] \in Int /\ due[c] \in Int
               /\ b.settings.coinBudgets[c] = s.coinBudgets[c] + due[c]
    BY <2>4, <2>6, <2>8, <2>9, ShiftedBudgets
  <2>11. NotBelow(granted, b.settings)
    <3>1. ASSUME NEW c \in DOMAIN granted.coinBudgets
          PROVE  b.settings.coinBudgets[c] >= 0
      <4>1. c \in CoinTypes /\ s.coinBudgets[c] >= OutflowOf(t, c)
        BY <2>2
      <4>2. OutflowOf(t, c) \in Nat /\ due[c] + OutflowOf(t, c) >= 0
        BY <2>9, <4>1, OutflowIs
      <4>. QED BY <2>10, <4>1, <4>2
    <3>. QED BY <3>1 DEF NotBelow
  <2>12. EndedWith(t, b, "over")
    BY <1>4, <1>5, <2>7, <2>10, <2>11 DEF EndedWith, Gone
  <2>13. PICK e2 : e2 = BudgetBalance'
    OBVIOUS
  <2>14. e2 = BalanceOf(carried, earned', R)
    BY <1>5, <1>6, <2>13 DEF BudgetBalance, Gone
  <2>15. R \in SUBSET Payments /\ carried \in Counts /\ earned \in Counts
    BY <1>5, <1>6 DEF Gone
  <2>16. e2 \in Counts
    BY <1>12, <2>14, <2>15, BalanceIs
  <2>17. \A c \in CoinTypes : e2[c] = e[c] + w[c]
    <3>. TAKE c \in CoinTypes
    <3>1. ReservedOf(R, c) \in Nat
      BY <2>15, ReservedAlso
    <3>2. carried[c] \in Int /\ earned[c] \in Int /\ w[c] \in Int /\ earned'[c] = earned[c] + w[c]
      BY <1>11, <1>12, <2>15 DEF Counts
    <3>3. /\ e2[c] = carried[c] + earned'[c] - ReservedOf(R, c)
          /\ e[c] = carried[c] + earned[c] - ReservedOf(R, c)
      BY <1>7, <2>14 DEF BalanceOf
    <3>. QED BY <3>1, <3>2, <3>3
  <2>18. ~ b.thrown /\ NoneThrew => AddUp(granted, b.settings, e2)
    <3>. SUFFICES ASSUME ~ b.thrown, NoneThrew PROVE AddUp(granted, b.settings, e2)
      OBVIOUS
    <3>1. AddUp(granted, Shifted(s, w), e2)
      BY <1>8, <1>11, <2>2, <2>4, <2>16, <2>17, AddUpMoves
    <3>. QED BY <2>7, <3>1
  <2>. QED BY <1>13, <2>12, <2>13, <2>18, BookingKeeps
<1>. QED BY <1>8, <1>14, <1>15

\* The digest of a transaction is not found.
LEMMA NotFoundKeeps ==
  ASSUME ApprovalsInv, NEW t \in Payments, NotFound(t)
  PROVE  ApprovalsInv'
<1>. USE DEF ApprovalsInv
<1>1. /\ progress[t] = "committed" /\ t \notin Range(pendingDigests)
      /\ progress' = [progress EXCEPT ![t] = "over"]
      /\ UNCHANGED <<settings, pendingDigests, granted, grants, carried, earned>>
  BY DEF NotFound
<1>2. progress \in [Payments -> {"analysed", "committed", "thrown", "over"}]
  BY DEF ApprovalsTypeOK
<1>3. progress' \in [Payments -> {"analysed", "committed", "thrown", "over"}]
  BY <1>1, <1>2
<1>4. \A u \in Range(pendingDigests) : progress'[u] = "committed"
  <2>. TAKE u \in Range(pendingDigests)
  <2>1. u \in Payments /\ u # t /\ progress[u] = "committed"
    BY <1>1, PendingIs DEF ApprovalsTypeOK
  <2>. QED BY <1>1, <1>2, <2>1
<1>5. ApprovalsTypeOK'
  BY <1>1, <1>3, <1>4 DEF ApprovalsTypeOK
<1>6. NoneThrew' => NoneThrew
  BY <1>1, <1>2 DEF NoneThrew
<1>7. BudgetsHold'
  BY <1>1, <1>6 DEF BudgetsHold, BudgetBalance
<1>. QED BY <1>5, <1>7

\* Budgets that were just granted add up, with a balance of 0.
LEMMA FreshBudgets ==
  ASSUME NEW g \in Grants, NEW e \in Counts, \A c \in CoinTypes : e[c] = 0
  PROVE  AddUp(g, g, e)
<1>1. PICK D : D = DOMAIN g.coinBudgets
  OBVIOUS
<1>2. D \subseteq CoinTypes /\ g.sharedBudget \in Int /\ \A c \in D : g.coinBudgets[c] \in Int
  BY <1>1, BudgetsAreOfTypes DEF SettingsOf
<1>3. PICK S : S = CoinTypes \ D
  OBVIOUS
<1>4. IsFiniteSet(S) /\ \A c \in S : e[c] = 0
  BY <1>3, PaymentsAssumption, FS_Subset
<1>5. SumOver(e, S) = 0
  BY <1>4, SumOverZero
<1>. QED BY <1>1, <1>2, <1>3, <1>5 DEF AddUp

\* Settings are chosen or reset.
LEMMA ChooseKeeps ==
  ASSUME ApprovalsInv, NEW s \in Grants \cup {NoSettings}, Choose(s)
  PROVE  ApprovalsInv'
<1>. USE DEF ApprovalsInv
<1>1. /\ settings' = s /\ granted' = s
      /\ pendingDigests' = IF s = NoSettings THEN <<>> ELSE pendingDigests
      /\ carried' = IF s = NoSettings THEN NothingOf ELSE [c \in CoinTypes |-> Reserved(c)]
      /\ earned' = NothingOf
      /\ progress' = [t \in Payments |-> IF progress[t] = "thrown" THEN "over" ELSE progress[t]]
  BY DEF Choose
<1>. DEFINE R == Range(pendingDigests)
<1>2. \A c \in CoinTypes : Reserved(c) = ReservedOf(R, c) /\ ReservedOf(R, c) \in Nat
  <2>1. R \in SUBSET Payments
    BY PendingIs
  <2>2. \A c \in CoinTypes : ReservedOf(R, c) \in Nat
    BY <2>1, ReservedAlso
  <2>. QED BY <2>2 DEF Reserved, ReservedOf
<1>3. NothingOf \in Counts /\ \A c \in CoinTypes : NothingOf[c] = 0
  BY DEF NothingOf, Counts
<1>4. carried' \in Counts /\ earned' \in Counts
  BY <1>1, <1>2, <1>3 DEF Counts
<1>5. progress \in [Payments -> {"analysed", "committed", "thrown", "over"}]
  BY DEF ApprovalsTypeOK
<1>6. progress' \in [Payments -> {"analysed", "committed", "thrown", "over"}]
  BY <1>1, <1>5
<1>7. pendingDigests' \in Seq(Payments) /\ IsInjective(pendingDigests')
      /\ \A u \in Range(pendingDigests') : u \in Range(pendingDigests)
  <2>1. CASE s = NoSettings
    BY <1>1, <2>1 DEF IsInjective, Range
  <2>2. CASE s # NoSettings
    BY <1>1, <2>2 DEF ApprovalsTypeOK
  <2>. QED BY <2>1, <2>2
<1>8. \A u \in Range(pendingDigests') : progress'[u] = "committed"
  <2>. TAKE u \in Range(pendingDigests')
  <2>1. u \in Payments /\ progress[u] = "committed"
    BY <1>7, PendingIs DEF ApprovalsTypeOK
  <2>. QED BY <1>1, <2>1
<1>9. granted' # NoSettings => settings' \in SettingsOf(granted')
  BY <1>1, BudgetsAreOfTypes
<1>10. ApprovalsTypeOK'
  BY <1>1, <1>4, <1>6, <1>7, <1>8, <1>9 DEF ApprovalsTypeOK
<1>11. ASSUME s # NoSettings
       PROVE  NotBelow(granted', settings') /\ AddUp(granted', settings', BudgetBalance')
  <2>1. s \in Grants
    BY <1>11
  <2>2. PICK e : e = BudgetBalance'
    OBVIOUS
  <2>3. e = BalanceOf(carried', earned', R)
    BY <1>1, <1>11, <2>2 DEF BudgetBalance
  <2>4. \A c \in CoinTypes : e[c] = 0
    <3>. TAKE c \in CoinTypes
    <3>1. carried'[c] = ReservedOf(R, c) /\ earned'[c] = 0 /\ ReservedOf(R, c) \in Nat
      BY <1>1, <1>2, <1>3, <1>11
    <3>2. e[c] = carried'[c] + earned'[c] - ReservedOf(R, c)
      BY <2>3 DEF BalanceOf
    <3>. QED BY <3>1, <3>2
  <2>5. e \in Counts
    BY <1>4, <2>3, BalanceIs, PendingIs
  <2>6. AddUp(s, s, e)
    BY <2>1, <2>4, <2>5, FreshBudgets
  <2>. QED BY <1>1, <2>1, <2>2, <2>6, BudgetsAreOfTypes
<1>12. BudgetsHold'
  BY <1>1, <1>11 DEF BudgetsHold
<1>. QED BY <1>10, <1>12

\* Initially.
LEMMA ApprovalsStart == ApprovalsInit => ApprovalsInv
<1>. SUFFICES ASSUME ApprovalsInit PROVE ApprovalsInv
  OBVIOUS
<1>. USE DEF ApprovalsInit
<1>1. pendingDigests \in Seq(Payments) /\ IsInjective(pendingDigests)
  BY DEF IsInjective
<1>2. /\ progress \in [Payments -> {"analysed", "committed", "thrown", "over"}]
      /\ carried \in Counts /\ earned \in Counts
  BY DEF NothingOf, Counts
<1>3. Range(pendingDigests) = {}
  BY DEF Range
<1>4. ApprovalsTypeOK
  BY <1>1, <1>2, <1>3 DEF ApprovalsTypeOK
<1>. QED BY <1>4 DEF ApprovalsInv, BudgetsHold

\* The invariant of the approvals is inductive.
LEMMA ApprovalsInductive == ApprovalsSpec => []ApprovalsInv
<1>1. ApprovalsInit => ApprovalsInv
  BY ApprovalsStart
<1>2. ApprovalsInv /\ [ApprovalsNext]_approvals => ApprovalsInv'
  <2>. SUFFICES ASSUME ApprovalsInv, [ApprovalsNext]_approvals PROVE ApprovalsInv'
    OBVIOUS
  <2>1. CASE UNCHANGED approvals
    BY <2>1 DEF approvals, ApprovalsInv, ApprovalsTypeOK, BudgetsHold, BudgetBalance, NoneThrew
  <2>2. CASE ApprovalsNext
    BY <2>2, ApproveKeeps, NotFoundKeeps, RevertKeeps, ApplyKeeps, ChooseKeeps
       DEF ApprovalsNext
  <2>. QED BY <2>1, <2>2
<1>. QED BY <1>1, <1>2, PTL DEF ApprovalsSpec

\* Whatever is approved, given back, refunded or chosen meanwhile, and whatever throws, no
\* coin budget is overdrawn, if the chain takes no more than the analysis says.
THEOREM NoBudgetIsOverdrawn == ApprovalsSpec => []NeverOverdrawn
<1>1. ApprovalsInv => NeverOverdrawn
  <2>. SUFFICES ASSUME ApprovalsInv, settings # NoSettings,
                       NEW c \in DOMAIN settings.coinBudgets
                PROVE  settings.coinBudgets[c] >= 0
    BY DEF NeverOverdrawn
  <2>1. granted # NoSettings /\ settings \in SettingsOf(granted) /\ NotBelow(granted, settings)
    BY DEF ApprovalsInv, ApprovalsTypeOK, BudgetsHold
  <2>2. c \in DOMAIN granted.coinBudgets
    BY <2>1 DEF SettingsOf
  <2>. QED BY <2>1, <2>2 DEF NotBelow
<1>. QED BY <1>1, ApprovalsInductive, PTL

\* While no booking threw, what is left of every budget is what was granted and what earlier
\* reservations gave back, plus all balance changes, less what is reserved.
THEOREM BudgetsStayExact == ApprovalsSpec => []BudgetsAddUp
<1>1. ApprovalsInv => BudgetsAddUp
  <2>. SUFFICES ASSUME ApprovalsInv, granted # NoSettings, NoneThrew PROVE BudgetsAddUp
    BY DEF BudgetsAddUp, NoneThrew
  <2>. DEFINE R == Range(pendingDigests)
              S == CoinTypes \ DOMAIN granted.coinBudgets
  <2>1. AddUp(granted, settings, BudgetBalance)
    BY DEF ApprovalsInv, BudgetsHold
  <2>2. granted \in Grants /\ R \in SUBSET Payments /\ carried \in Counts /\ earned \in Counts
    BY PendingIs DEF ApprovalsInv, ApprovalsTypeOK
  <2>3. DOMAIN granted.coinBudgets \subseteq CoinTypes
        /\ \A c \in DOMAIN granted.coinBudgets : granted.coinBudgets[c] \in Int
    BY <2>2, BudgetsAreOfTypes DEF SettingsOf
  <2>4. \A c \in DOMAIN granted.coinBudgets :
           settings.coinBudgets[c] = granted.coinBudgets[c] + carried[c] + earned[c] - Reserved(c)
    <3>. TAKE c \in DOMAIN granted.coinBudgets
    <3>1. c \in CoinTypes /\ granted.coinBudgets[c] \in Int
      BY <2>3
    <3>2. carried[c] \in Int /\ earned[c] \in Int /\ ReservedOf(R, c) \in Nat
      BY <2>2, <3>1, ReservedAlso DEF Counts
    <3>3. Reserved(c) = ReservedOf(R, c)
      BY DEF Reserved, ReservedOf
    <3>4. settings.coinBudgets[c] = granted.coinBudgets[c] + BudgetBalance[c]
      BY <2>1 DEF AddUp
    <3>5. BudgetBalance[c] = carried[c] + earned[c] - ReservedOf(R, c)
      BY <3>1 DEF BudgetBalance, BalanceOf
    <3>. QED BY <3>1, <3>2, <3>3, <3>4, <3>5
  <2>5. MapThenSumSet(LAMBDA c : carried[c] + earned[c] - Reserved(c), S)
          = SumOver(BudgetBalance, S)
    <3>1. MapThenSumSet(LAMBDA c : carried[c] + earned[c] - Reserved(c), S)
             = MapThenSumSet(LAMBDA c : carried[c] + earned[c] - ReservedOf(R, c), S)
      BY DEF Reserved, ReservedOf
    <3>. QED BY <3>1, BalanceIsSum DEF BudgetBalance
  <2>6. settings.sharedBudget = granted.sharedBudget + SumOver(BudgetBalance, S)
    BY <2>1 DEF AddUp
  <2>. QED BY <2>4, <2>5, <2>6 DEF BudgetsAddUp
<1>. QED BY <1>1, ApprovalsInductive, PTL

-----------------------------------------------------------------------------
(* The outflow of a transaction.                                            *)

\* A coin is worth nothing when it is gone.  What the analysis believes to remain of a coin
\* beyond that is its excess.
Worth(co, c) == IF c \in DOMAIN co THEN co[c].value ELSE 0
Excess(tr, co, c) ==
  IF tr[c].remaining > Worth(co, c) THEN tr[c].remaining - Worth(co, c) ELSE 0
ExcessOf(tr, co) == [c \in DOMAIN tr |-> Excess(tr, co, c)]
OfType(tr, t) == {c \in DOMAIN tr : tr[c].type = t}

TrackedCoin == [type : Types, remaining : Int]
Coin == [type : Types, value : Nat]
FlowTyped(tr, co, re) ==
  /\ IsFiniteSet(DOMAIN tr) /\ IsFiniteSet(DOMAIN co)
  /\ tr \in [DOMAIN tr -> TrackedCoin] /\ co \in [DOMAIN co -> Coin]
  /\ re \in [Types -> Nat]
  /\ \A c \in Owned : c \in DOMAIN tr /\ tr[c].type = TypeOf(c)
  /\ \A c \in DOMAIN tr \cap DOMAIN co : tr[c].type = co[c].type
\* What was returned to the sender backs the excess of a type.
Backed(tr, co, re, t) == SumOver(ExcessOf(tr, co), OfType(tr, t)) <= re[t]
\* Where other coins are returned, the excess of gas coins is not backed by gas coins.
Judged == {t \in Types : t = GasType => ~ ReturnsOthers}

\* Excess is a number, and what remains is at most the worth and the excess.
LEMMA ExcessType ==
  ASSUME NEW tr, NEW co, NEW re, FlowTyped(tr, co, re), NEW c \in DOMAIN tr
  PROVE  /\ Worth(co, c) \in Nat /\ Excess(tr, co, c) \in Nat /\ tr[c].remaining \in Int
         /\ ExcessOf(tr, co)[c] = Excess(tr, co, c)
         /\ tr[c].remaining <= Worth(co, c) + Excess(tr, co, c)
<1>1. tr[c].remaining \in Int
  BY DEF FlowTyped, TrackedCoin
<1>2. c \in DOMAIN co => co[c].value \in Nat
  BY DEF FlowTyped, Coin
<1>3. Worth(co, c) \in Nat
  BY <1>2 DEF Worth
<1>4. ExcessOf(tr, co)[c] = Excess(tr, co, c)
  BY DEF ExcessOf
<1>. QED BY <1>1, <1>3, <1>4 DEF Excess

\* Coins of a type whose excess does not grow, and new ones without any.
NoMoreExcess(tr, co, tr2, co2, t) ==
  \A c \in OfType(tr2, t) :
     \/ c \in OfType(tr, t) /\ Excess(tr2, co2, c) <= Excess(tr, co, c)
     \/ Excess(tr2, co2, c) = 0

\* Then what was returned still backs it.
LEMMA ExcessFalls ==
  ASSUME NEW tr, NEW co, NEW re, FlowTyped(tr, co, re),
         NEW tr2, NEW co2, NEW re2, FlowTyped(tr2, co2, re2),
         NEW t \in Types, Backed(tr, co, re, t), re[t] <= re2[t],
         NoMoreExcess(tr, co, tr2, co2, t)
  PROVE  Backed(tr2, co2, re2, t)
<1>. DEFINE A == OfType(tr2, t)
            O == OfType(tr, t)
            B == {c \in A \cap O : Excess(tr2, co2, c) <= Excess(tr, co, c)}
            e == ExcessOf(tr, co)
            e2 == ExcessOf(tr2, co2)
<1>1. IsFiniteSet(A) /\ IsFiniteSet(O) /\ IsFiniteSet(B)
  <2>1. IsFiniteSet(DOMAIN tr) /\ IsFiniteSet(DOMAIN tr2)
    BY DEF FlowTyped
  <2>2. O \subseteq DOMAIN tr /\ A \subseteq DOMAIN tr2 /\ B \subseteq O
    BY DEF OfType
  <2>. QED BY <2>1, <2>2, FS_Subset
<1>2. \A c \in O : e[c] \in Nat /\ e[c] = Excess(tr, co, c)
  BY ExcessType DEF OfType
<1>3. \A c \in A : e2[c] \in Nat /\ e2[c] = Excess(tr2, co2, c)
  BY ExcessType DEF OfType
<1>4. \A c \in A \ B : e2[c] = 0
  BY <1>3 DEF NoMoreExcess
<1>5. \A c \in B : e[c] \in Int /\ e2[c] \in Int /\ e2[c] <= e[c]
  BY <1>2, <1>3
<1>6. B \in SUBSET A /\ B \in SUBSET O
  OBVIOUS
<1>. HIDE DEF A, O, B, e, e2
<1>7. SumOver(e2, A) = SumOver(e2, B) + SumOver(e2, A \ B)
  BY <1>1, <1>3, <1>6, SumOverUnion
<1>8. SumOver(e2, A \ B) = 0
  <2>1. IsFiniteSet(A \ B)
    BY <1>1, FS_Subset
  <2>. QED BY <1>4, <2>1, SumOverZero
<1>9. SumOver(e2, B) <= SumOver(e, B)
  BY <1>1, <1>5, SumOverLess
<1>10. SumOver(e, B) <= SumOver(e, O)
  BY <1>1, <1>2, <1>6, SumOverPart
<1>11. SumOver(e2, B) \in Int /\ SumOver(e, B) \in Int
  BY <1>1, <1>5, SumOverType
<1>12. SumOver(e, O) \in Int
  BY <1>1, <1>2, SumOverType
<1>13. SumOver(e, O) <= re[t] /\ re[t] \in Int /\ re2[t] \in Int
  BY DEF Backed, FlowTyped, e, O
<1>14. SumOver(e2, A) <= re2[t]
  BY <1>7, <1>8, <1>9, <1>10, <1>11, <1>12, <1>13
<1>. QED BY <1>14 DEF Backed, A, e2

\* Coins P of a type of which nothing remains, and all their excess and k are in d.
Gathers(tr, co, tr2, co2, t, d, P, k) ==
  /\ OfType(tr2, t) = OfType(tr, t) /\ d \in OfType(tr, t)
  /\ P \subseteq OfType(tr, t) \ {d}
  /\ \A c \in P : Excess(tr2, co2, c) = 0
  /\ \A c \in OfType(tr, t) \ (P \cup {d}) : Excess(tr2, co2, c) <= Excess(tr, co, c)
  /\ Excess(tr2, co2, d) <= Excess(tr, co, d) + SumOver(ExcessOf(tr, co), P) + k

\* Then what was returned still backs it, if k was.
LEMMA ExcessGathers ==
  ASSUME NEW tr, NEW co, NEW re, FlowTyped(tr, co, re),
         NEW tr2, NEW co2, NEW re2, FlowTyped(tr2, co2, re2),
         NEW t \in Types, Backed(tr, co, re, t), NEW k \in Int, re2[t] = re[t] + k,
         NEW d, NEW P, Gathers(tr, co, tr2, co2, t, d, P, k)
  PROVE  Backed(tr2, co2, re2, t)
<1>. DEFINE O == OfType(tr, t)
            e == ExcessOf(tr, co)
            e2 == ExcessOf(tr2, co2)
<1>1. IsFiniteSet(O)
  <2>1. IsFiniteSet(DOMAIN tr) /\ O \subseteq DOMAIN tr
    BY DEF FlowTyped, OfType
  <2>. QED BY <2>1, FS_Subset
<1>2. \A c \in O : e[c] \in Int /\ e[c] = Excess(tr, co, c)
  BY ExcessType DEF OfType
<1>3. \A c \in O : e2[c] \in Int /\ e2[c] = Excess(tr2, co2, c)
  <2>1. \A c \in O : c \in DOMAIN tr2
    BY DEF Gathers, OfType
  <2>. QED BY <2>1, ExcessType
<1>4. /\ d \in O /\ P \in SUBSET (O \ {d})
      /\ \A c \in P : e2[c] = 0
      /\ \A c \in O \ (P \cup {d}) : e2[c] <= e[c]
      /\ e2[d] <= e[d] + SumOver(e, P) + k
  BY <1>2, <1>3 DEF Gathers
<1>5. SumOver(e, O) <= re[t] /\ re[t] \in Int /\ OfType(tr2, t) = O
  BY DEF Backed, FlowTyped, Gathers
<1>. HIDE DEF O, e, e2
<1>6. SumOver(e2, O) <= SumOver(e, O) + k
  BY <1>1, <1>2, <1>3, <1>4, SumOverGathered
<1>7. SumOver(e2, O) \in Int /\ SumOver(e, O) \in Int
  BY <1>1, <1>2, <1>3, SumOverType
<1>8. SumOver(e2, O) <= re2[t]
  BY <1>5, <1>6, <1>7
<1>. QED BY <1>5, <1>8 DEF Backed, e2

\* The same coins are tracked, of the same types.
Alike(tr, tr2) ==
  tr2 \in [DOMAIN tr -> TrackedCoin] /\ \A c \in DOMAIN tr : tr2[c].type = tr[c].type
\* No coins but these are there, of the same types.
Fewer(co, co2) ==
  /\ DOMAIN co2 \subseteq DOMAIN co /\ co2 \in [DOMAIN co2 -> Coin]
  /\ \A c \in DOMAIN co2 : co2[c].type = co[c].type

\* Then coins are still as they should.
LEMMA AlikeIsTyped ==
  ASSUME NEW tr, NEW co, NEW re, FlowTyped(tr, co, re), NEW tr2, NEW co2, Alike(tr, tr2),
         Fewer(co, co2), NEW re2 \in [Types -> Nat]
  PROVE  FlowTyped(tr2, co2, re2) /\ \A t : OfType(tr2, t) = OfType(tr, t)
<1>. USE DEF FlowTyped, Alike, Fewer
<1>1. DOMAIN tr2 = DOMAIN tr /\ tr2 \in [DOMAIN tr2 -> TrackedCoin]
  OBVIOUS
<1>2. IsFiniteSet(DOMAIN co2) /\ IsFiniteSet(DOMAIN tr2)
  BY <1>1, FS_Subset
<1>3. \A c \in Owned : c \in DOMAIN tr2 /\ tr2[c].type = TypeOf(c)
  BY <1>1
<1>4. \A c \in DOMAIN tr2 \cap DOMAIN co2 : tr2[c].type = co2[c].type
  BY <1>1
<1>5. \A t : OfType(tr2, t) = OfType(tr, t)
  BY <1>1 DEF OfType
<1>. QED BY <1>1, <1>2, <1>3, <1>4, <1>5

\* The gas coin is the sender's.
LEMMA GasIsOwned ==
  ASSUME NEW tr, NEW co, NEW re, FlowTyped(tr, co, re)
  PROVE  Gas \in DOMAIN tr /\ tr[Gas].type = GasType /\ GasType \in Types
  BY DEF FlowTyped, Owned, TypeOf, Types

Tracks(tr) == tr \in [DOMAIN tr -> TrackedCoin]
Sets(tr, c, n, tr2) == tr2 = [tr EXCEPT ![c].remaining = n]

\* Other remaining balances of a tracked coin.
LEMMA RemainingChanges ==
  ASSUME NEW tr, Tracks(tr), NEW c \in DOMAIN tr, NEW n \in Int, NEW tr2, Sets(tr, c, n, tr2)
  PROVE  /\ Alike(tr, tr2) /\ DOMAIN tr2 = DOMAIN tr
         /\ tr2[c].remaining = n /\ \A x \in DOMAIN tr \ {c} : tr2[x] = tr[x]
<1>. USE DEF Tracks, Sets
<1>1. PICK r : r = [tr[c] EXCEPT !.remaining = n]
  OBVIOUS
<1>2. r \in TrackedCoin /\ r.remaining = n /\ r.type = tr[c].type
  BY <1>1 DEF TrackedCoin
<1>3. tr2 = [tr EXCEPT ![c] = r]
  BY <1>1
<1>4. DOMAIN tr2 = DOMAIN tr /\ tr2[c] = r /\ \A x \in DOMAIN tr \ {c} : tr2[x] = tr[x]
  BY <1>3
<1>5. \A x \in DOMAIN tr : tr2[x] \in TrackedCoin /\ tr2[x].type = tr[x].type
  BY <1>2, <1>4
<1>6. tr2 \in [DOMAIN tr -> TrackedCoin]
  BY <1>2, <1>3
<1>. QED BY <1>2, <1>4, <1>5, <1>6 DEF Alike

\* What the transfer of an object does to what the analysis knows.
TransferredTo(tr, tr2, c, toSender) ==
  /\ Alike(tr, tr2)
  /\ \A x \in DOMAIN tr \ {c, Gas} : tr2[x] = tr[x]
  /\ c \in DOMAIN tr => tr2[c].remaining = 0
  /\ c \notin DOMAIN tr => tr2 = tr
  /\ c # Gas /\ ~ (toSender /\ c \in DOMAIN tr) => tr2[Gas] = tr[Gas]
  /\ c # Gas /\ toSender /\ c \in DOMAIN tr =>
        tr2[Gas].remaining = tr[Gas].remaining + tr[c].remaining

\* That is what a transfer does.
LEMMA TransferDoes ==
  ASSUME NEW tr, Tracks(tr), Gas \in DOMAIN tr, NEW c, NEW toSender \in BOOLEAN
  PROVE  TransferredTo(tr, Transferred(tr, c, toSender), c, toSender)
<1>1. Tracks(tr) /\ Gas \in DOMAIN tr
  OBVIOUS
<1>2. Alike(tr, tr)
  BY <1>1 DEF Alike, Tracks
<1>3. CASE c \notin DOMAIN tr
  <2>1. Transferred(tr, c, toSender) = tr
    BY <1>3 DEF Transferred
  <2>. QED BY <1>2, <1>3, <2>1 DEF TransferredTo
<1>4. CASE c \in DOMAIN tr /\ ~ toSender
  <2>1. PICK tr2 : tr2 = [tr EXCEPT ![c].remaining = 0]
    OBVIOUS
  <2>1a. Sets(tr, c, 0, tr2)
    BY <2>1 DEF Sets
  <2>2. Transferred(tr, c, toSender) = tr2
    BY <1>4, <2>1 DEF Transferred
  <2>3. /\ Alike(tr, tr2) /\ tr2[c].remaining = 0
        /\ \A x \in DOMAIN tr \ {c} : tr2[x] = tr[x]
    BY <1>1, <1>4, <2>1a, RemainingChanges
  <2>. QED BY <1>1, <1>4, <2>2, <2>3 DEF TransferredTo
<1>5. CASE c \in DOMAIN tr /\ toSender
  <2>1. PICK n : n = tr[Gas].remaining + tr[c].remaining
    OBVIOUS
  <2>2. PICK tr1 : tr1 = [tr EXCEPT ![Gas].remaining = n]
    OBVIOUS
  <2>3. PICK tr2 : tr2 = [tr1 EXCEPT ![c].remaining = 0]
    OBVIOUS
  <2>2a. Sets(tr, Gas, n, tr1)
    BY <2>2 DEF Sets
  <2>3a. Sets(tr1, c, 0, tr2)
    BY <2>3 DEF Sets
  <2>4. Transferred(tr, c, toSender) = tr2
    <3>1. tr1 = [tr EXCEPT ![Gas].remaining = @ + tr[c].remaining]
      BY <2>1, <2>2
    <3>. QED BY <1>5, <2>3, <3>1, Zenon DEF Transferred
  <2>5. n \in Int
    BY <1>1, <1>5, <2>1 DEF Tracks, TrackedCoin
  <2>6. /\ Alike(tr, tr1) /\ DOMAIN tr1 = DOMAIN tr /\ tr1[Gas].remaining = n
        /\ \A x \in DOMAIN tr \ {Gas} : tr1[x] = tr[x]
    BY <1>1, <2>2a, <2>5, RemainingChanges
  <2>7. Tracks(tr1) /\ c \in DOMAIN tr1
    BY <1>5, <2>6 DEF Alike, Tracks
  <2>8. /\ Alike(tr1, tr2) /\ tr2[c].remaining = 0
        /\ \A x \in DOMAIN tr1 \ {c} : tr2[x] = tr1[x]
    BY <2>3a, <2>7, RemainingChanges
  <2>9. Alike(tr, tr2)
    BY <2>6, <2>8 DEF Alike
  <2>10. \A x \in DOMAIN tr \ {c, Gas} : tr2[x] = tr[x]
    BY <2>6, <2>8
  <2>11. c # Gas => tr2[Gas].remaining = n
    BY <1>1, <2>6, <2>8
  <2>. QED BY <1>5, <2>1, <2>4, <2>8, <2>9, <2>10, <2>11 DEF TransferredTo
<1>. QED BY <1>3, <1>4, <1>5

\* The coins without one.
Less1(co, co2, c) ==
  /\ DOMAIN co2 = DOMAIN co \ {c} /\ co2 \in [DOMAIN co2 -> Coin]
  /\ \A x \in DOMAIN co2 : co2[x] = co[x]
\* One object is transferred.
MovedOn(tr, co, re, tr2, co2, re2, c, toSender) ==
  /\ c \in DOMAIN co /\ (toSender /\ ~ ReturnsOthers => co[c].type = GasType)
  /\ TransferredTo(tr, tr2, c, toSender) /\ Less1(co, co2, c) /\ re2 \in [Types -> Nat]
  /\ \A t \in Types : re2[t] = re[t] + (IF toSender /\ co[c].type = t THEN co[c].value ELSE 0)

\* Then what was returned still backs the excess.
LEMMA TransferOne ==
  ASSUME NEW tr, NEW co, NEW re, FlowTyped(tr, co, re), \A t \in Judged : Backed(tr, co, re, t),
         NEW tr2, NEW co2, NEW re2, NEW c, NEW toSender \in BOOLEAN,
         MovedOn(tr, co, re, tr2, co2, re2, c, toSender)
  PROVE  FlowTyped(tr2, co2, re2) /\ \A t \in Judged : Backed(tr2, co2, re2, t)
<1>1. Alike(tr, tr2) /\ Fewer(co, co2) /\ re2 \in [Types -> Nat]
  BY DEF MovedOn, TransferredTo, Less1, Fewer
<1>2. FlowTyped(tr2, co2, re2) /\ \A t : OfType(tr2, t) = OfType(tr, t)
  BY <1>1, AlikeIsTyped
<1>3. Gas \in DOMAIN tr /\ tr[Gas].type = GasType
  BY GasIsOwned
<1>4. /\ c \in DOMAIN co /\ co[c].value \in Nat
      /\ toSender /\ ~ ReturnsOthers => co[c].type = GasType
  BY DEF MovedOn, FlowTyped, Coin
<1>5. DOMAIN tr2 = DOMAIN tr
  BY <1>1 DEF Alike
<1>6. Worth(co2, c) = 0 /\ Worth(co, c) = co[c].value
      /\ \A x \in DOMAIN tr \ {c} : Worth(co2, x) = Worth(co, x)
  BY <1>4 DEF MovedOn, Less1, Worth
<1>7. \A x \in DOMAIN tr \ {c, Gas} : Excess(tr2, co2, x) = Excess(tr, co, x)
  BY <1>6 DEF MovedOn, TransferredTo, Excess
<1>8. c \in DOMAIN tr => Excess(tr2, co2, c) = 0
  BY <1>6 DEF MovedOn, TransferredTo, Excess
<1>9. \A x \in DOMAIN tr : Excess(tr, co, x) \in Nat
  BY ExcessType
<1>. SUFFICES ASSUME NEW t \in Judged PROVE Backed(tr2, co2, re2, t)
  BY <1>2
<1>0. t \in Types /\ (t = GasType => ~ ReturnsOthers)
  BY DEF Judged
<1>10. /\ re2[t] = re[t] + (IF toSender /\ co[c].type = t THEN co[c].value ELSE 0)
       /\ re[t] \in Nat
  BY <1>0 DEF MovedOn, FlowTyped
<1>11. re[t] <= re2[t]
  BY <1>4, <1>10
<1>12. CASE c = Gas \/ ~ toSender \/ c \notin DOMAIN tr \/ t # GasType
  <2>1. ASSUME NEW x \in OfType(tr2, t)
        PROVE  \/ x \in OfType(tr, t) /\ Excess(tr2, co2, x) <= Excess(tr, co, x)
               \/ Excess(tr2, co2, x) = 0
    <3>1. x \in OfType(tr, t) /\ x \in DOMAIN tr /\ tr[x].type = t
      BY <1>2 DEF OfType
    <3>2. CASE x = c
      BY <1>8, <3>1, <3>2
    <3>3. CASE x # c /\ x # Gas
      BY <1>7, <1>9, <3>1, <3>3
    <3>4. CASE x # c /\ x = Gas
      <4>1. ~ (toSender /\ c \in DOMAIN tr)
        BY <1>3, <1>12, <3>1, <3>4
      <4>2. tr2[x] = tr[x]
        BY <3>4, <4>1 DEF MovedOn, TransferredTo
      <4>3. Excess(tr2, co2, x) = Excess(tr, co, x)
        BY <1>6, <3>1, <3>4, <4>2 DEF Excess
      <4>. QED BY <1>9, <3>1, <4>3
    <3>. QED BY <3>2, <3>3, <3>4
  <2>2. NoMoreExcess(tr, co, tr2, co2, t)
    BY <2>1 DEF NoMoreExcess
  <2>. QED BY <1>0, <1>2, <1>11, <2>2, ExcessFalls
<1>13. CASE c # Gas /\ toSender /\ c \in DOMAIN tr /\ t = GasType
  <2>1. c \in OfType(tr, t) /\ Gas \in OfType(tr, t)
    <3>1. tr[c].type = co[c].type
      BY <1>4, <1>13 DEF FlowTyped
    <3>. QED BY <1>0, <1>3, <1>4, <1>13, <3>1 DEF OfType
  <2>2. SumOver(ExcessOf(tr, co), {c}) = Excess(tr, co, c)
    <3>1. PICK e : e = ExcessOf(tr, co)
      OBVIOUS
    <3>2. e[c] \in Int /\ e[c] = Excess(tr, co, c)
      BY <1>13, <3>1, ExcessType
    <3>3. {c} \ {c} = {} /\ IsFiniteSet({c}) /\ SumOver(e, {}) = 0
      BY FS_Singleton, SumOverEmpty
    <3>4. SumOver(e, {c}) = e[c] + SumOver(e, {c} \ {c})
      BY <3>2, <3>3, SumOverRemove
    <3>5. SumOver(e, {c}) = e[c] + 0
      BY <3>3, <3>4, Zenon
    <3>. QED BY <3>1, <3>2, <3>5
  <2>3. Excess(tr2, co2, Gas) <= Excess(tr, co, Gas) + Excess(tr, co, c) + co[c].value
    <3>1. tr2[Gas].remaining = tr[Gas].remaining + tr[c].remaining
      BY <1>13 DEF MovedOn, TransferredTo
    <3>2. /\ tr[Gas].remaining \in Int /\ Worth(co, Gas) \in Nat /\ Excess(tr, co, Gas) \in Nat
          /\ tr[Gas].remaining <= Worth(co, Gas) + Excess(tr, co, Gas)
      BY <1>3, ExcessType
    <3>3. /\ tr[c].remaining \in Int /\ Excess(tr, co, c) \in Nat
          /\ tr[c].remaining <= co[c].value + Excess(tr, co, c)
      BY <1>6, <1>13, ExcessType
    <3>4. Worth(co2, Gas) = Worth(co, Gas)
      BY <1>3, <1>6, <1>13
    <3>5. Excess(tr2, co2, Gas) =
             IF tr2[Gas].remaining > Worth(co, Gas) THEN tr2[Gas].remaining - Worth(co, Gas) ELSE 0
      BY <3>4 DEF Excess
    <3>. QED BY <1>4, <3>1, <3>2, <3>3, <3>5
  <2>4. \A x \in OfType(tr, t) \ ({c} \cup {Gas}) : Excess(tr2, co2, x) <= Excess(tr, co, x)
    BY <1>7, <1>9 DEF OfType
  <2>5. Gathers(tr, co, tr2, co2, t, Gas, {c}, co[c].value)
    BY <1>2, <1>8, <1>13, <2>1, <2>2, <2>3, <2>4 DEF Gathers
  <2>6. re2[t] = re[t] + co[c].value /\ co[c].value \in Int
    BY <1>0, <1>4, <1>10, <1>13
  <2>. QED BY <1>0, <1>2, <2>5, <2>6, ExcessGathers
<1>. QED BY <1>12, <1>13

\* A transfer leaves the tracked coins tracked.
LEMMA StaysTracked ==
  ASSUME NEW D, Gas \in D, NEW a \in [D -> TrackedCoin], NEW c, NEW toSender \in BOOLEAN
  PROVE  Transferred(a, c, toSender) \in [D -> TrackedCoin]
<1>1. Tracks(a) /\ DOMAIN a = D
  BY DEF Tracks
<1>2. Alike(a, Transferred(a, c, toSender))
  BY <1>1, TransferDoes DEF TransferredTo
<1>. QED BY <1>1, <1>2 DEF Alike

\* P is what the analysis knows after each of n transfers.
InTurn(tr, D, objects, toSender, n, P) ==
  /\ P \in [0 .. n -> [D -> TrackedCoin]]
  /\ P[0] = tr
  /\ \A k \in 1 .. n : P[k] = Transferred(P[k - 1], objects[k], toSender)
  /\ FoldLeft(LAMBDA t, c : Transferred(t, c, toSender), tr, objects) = P[n]

\* Objects are transferred from the first to the last.
LEMMA TransfersInOrder ==
  ASSUME NEW D, Gas \in D, NEW tr \in [D -> TrackedCoin], NEW toSender \in BOOLEAN,
         NEW objects, NEW n \in Nat, DOMAIN objects = 1 .. n
  PROVE  \E P : InTurn(tr, D, objects, toSender, n, P)
<1>. DEFINE A == [D -> TrackedCoin]
            base == tr
            S == 1 .. n
            step == [a \in A |-> [i \in S |-> Transferred(a, objects[i], toSender)]]
            pick == [T \in SUBSET S |-> Max(T)]
            Is(h) == h = [T \in SUBSET S |->
                            IF T = {} THEN base
                            ELSE LET i == Max(T) IN Transferred(h[T \ {i}], objects[i], toSender)]
<1>1. FoldLeft(LAMBDA t, c : Transferred(t, c, toSender), tr, objects) = (CHOOSE h : Is(h))[S]
  BY DEF FoldLeft, MapThenFoldSet
<1>3. base \in A
  OBVIOUS
<1>4. step \in [A -> [S -> A]]
  BY StaysTracked
<1>5. Picks(pick, S)
  BY MaxIsGreatest DEF Picks
<1>6. IsFiniteSet(S)
  BY FS_Interval
<1>7. PICK g1 : Folds(step, pick, base, g1, S, A)
  <2>. HIDE DEF S, A, base, step, pick
  <2>. QED BY <1>3, <1>4, <1>5, <1>6, FoldsExist
<1>8. ASSUME NEW T \in SUBSET S
      PROVE  FoldStep(step, pick, base, g1, T) =
               IF T = {} THEN base
               ELSE LET i == Max(T) IN Transferred(g1[T \ {i}], objects[i], toSender)
  <2>1. CASE T = {}
    BY <2>1 DEF FoldStep
  <2>2. CASE T # {}
    <3>1. Max(T) \in T /\ Max(T) \in S /\ pick[T] = Max(T)
      BY <2>2, MaxIsGreatest
    <3>2. g1[T \ {Max(T)}] \in A
      BY <1>7, <3>1 DEF Folds
    <3>3. step[g1[T \ {Max(T)}]][Max(T)] = Transferred(g1[T \ {Max(T)}], objects[Max(T)], toSender)
      BY <3>1, <3>2
    <3>. HIDE DEF A, S, step, pick, base
    <3>. QED BY <2>2, <3>1, <3>3 DEF FoldStep
  <2>. QED BY <2>1, <2>2
<1>9. Is(g1)
  <2>. HIDE DEF A, step, pick, base, S
  <2>. QED BY <1>7, <1>8 DEF Folds
<1>10. PICK h : h = CHOOSE k : Is(k)
  OBVIOUS
<1>11. Is(h)
  <2>. HIDE DEF Is
  <2>. QED BY <1>9, <1>10
<1>. DEFINE H(T) == IF T = {} THEN base
                    ELSE LET i == Max(T) IN Transferred(h[T \ {i}], objects[i], toSender)
<1>12. \A T \in SUBSET S : h[T] = H(T)
  <2>. HIDE DEF base, S
  <2>. QED BY <1>11
<1>13. \A T \in SUBSET S : h[T] \in A
  <2>. DEFINE Bad == {T \in SUBSET S : h[T] \notin A}
  <2>. SUFFICES ASSUME Bad # {} PROVE FALSE
    OBVIOUS
  <2>1. PICK T \in Bad : \A V \in Bad : V \subseteq T => V = T
    <3>1. Bad \in SUBSET SUBSET S
      OBVIOUS
    <3>. HIDE DEF Bad, S
    <3>. QED BY <1>6, <3>1, MinimalSubset
  <2>2. T \in SUBSET S /\ h[T] \notin A /\ h[T] = H(T)
    BY <1>12
  <2>3. T # {}
    BY <2>2, <1>3
  <2>4. Max(T) \in T /\ Max(T) \in S
    BY <2>2, <2>3, MaxIsGreatest
  <2>5. h[T \ {Max(T)}] \in A
    <3>. HIDE DEF A
    <3>. QED BY <2>1, <2>2, <2>4
  <2>6. Transferred(h[T \ {Max(T)}], objects[Max(T)], toSender) \in A
    <3>. HIDE DEF S
    <3>. QED BY <2>4, <2>5, StaysTracked
  <2>. HIDE DEF A, base, S
  <2>. QED BY <2>2, <2>3, <2>6
<1>. DEFINE P == [k \in 0 .. n |-> h[1 .. k]]
<1>14. \A k \in 0 .. n : 1 .. k \in SUBSET S
  OBVIOUS
<1>15. P \in [0 .. n -> A]
  BY <1>13, <1>14
<1>16. P[0] = base
  <2>1. 1 .. 0 = {} /\ 0 \in 0 .. n
    OBVIOUS
  <2>2. P[0] = h[{}]
    BY <2>1
  <2>3. h[{}] = base
    BY <1>12
  <2>. QED BY <2>2, <2>3
<1>17. ASSUME NEW k \in 1 .. n
       PROVE  P[k] = Transferred(P[k - 1], objects[k], toSender)
  <2>1. k \in 0 .. n /\ k - 1 \in 0 .. n
    OBVIOUS
  <2>2. P[k] = h[1 .. k] /\ P[k - 1] = h[1 .. (k - 1)]
    BY <2>1
  <2>3. PICK T : T = 1 .. k
    OBVIOUS
  <2>4. T \in SUBSET S /\ T # {} /\ Max(T) = k /\ T \ {k} = 1 .. (k - 1)
    BY <2>3, MaxOfInterval
  <2>5. h[T] = Transferred(h[T \ {k}], objects[k], toSender)
    <3>. HIDE DEF base, S
    <3>. QED BY <1>12, <2>4
  <2>. HIDE DEF P
  <2>. QED BY <2>2, <2>3, <2>4, <2>5, Zenon
<1>18. FoldLeft(LAMBDA t, c : Transferred(t, c, toSender), tr, objects) = P[n]
  <2>. HIDE DEF Is, base, step, pick, A
  <2>1. P[n] = h[S]
    OBVIOUS
  <2>. HIDE DEF P, S
  <2>. QED BY <1>1, <1>10, <2>1, Zenon
<1>. HIDE DEF P
<1>. QED BY <1>15, <1>16, <1>17, <1>18 DEF InTurn

\* After k transfers: the objects that are gone, the coins left, and what was returned.
Passed(objects, k) == {objects[i] : i \in 1 .. k}
LeftOf(co, gone) == Restrict(co, DOMAIN co \ gone)
PassedOf(co, gone, t) == {c \in gone : co[c].type = t}
ValuesOf(co) == [c \in DOMAIN co |-> co[c].value]
WithReturns(co, re, gone, toSender) ==
  [t \in Types |-> IF toSender THEN re[t] + SumOver(ValuesOf(co), PassedOf(co, gone, t)) ELSE re[t]]
\* Coins whose values are numbers, some of which are gone.
GoneFrom(co, gone) ==
  co \in [DOMAIN co -> Coin] /\ IsFiniteSet(DOMAIN co) /\ gone \subseteq DOMAIN co

\* What was returned is a number, and no more where nothing more is gone.
LEMMA ReturnsType ==
  ASSUME NEW co, NEW re \in [Types -> Nat], NEW gone, GoneFrom(co, gone), NEW toSender \in BOOLEAN
  PROVE  /\ WithReturns(co, re, gone, toSender) \in [Types -> Nat]
         /\ \A c \in DOMAIN co : co[c].value \in Nat /\ ValuesOf(co)[c] = co[c].value
         /\ \A t : IsFiniteSet(PassedOf(co, gone, t))
<1>1. \A c \in DOMAIN co : co[c].value \in Nat /\ ValuesOf(co)[c] = co[c].value
  BY DEF GoneFrom, Coin, ValuesOf
<1>2. \A t : PassedOf(co, gone, t) \in SUBSET DOMAIN co /\ IsFiniteSet(PassedOf(co, gone, t))
  <2>1. \A t : PassedOf(co, gone, t) \subseteq DOMAIN co
    BY DEF PassedOf, GoneFrom
  <2>. QED BY <2>1, FS_Subset DEF GoneFrom
<1>3. \A t : SumOver(ValuesOf(co), PassedOf(co, gone, t)) \in Nat
  <2>1. \A c \in DOMAIN co : ValuesOf(co)[c] \in Nat
    BY <1>1
  <2>. QED BY <1>2, <2>1, SumOverPart DEF GoneFrom
<1>4. WithReturns(co, re, gone, toSender) \in [Types -> Nat]
  BY <1>3 DEF WithReturns
<1>. QED BY <1>1, <1>2, <1>4

\* One more object is gone.
LEMMA OneMoreGone ==
  ASSUME NEW co, NEW re \in [Types -> Nat], NEW gone, GoneFrom(co, gone), NEW toSender \in BOOLEAN,
         NEW c \in DOMAIN co \ gone, toSender /\ ~ ReturnsOthers => co[c].type = GasType,
         NEW tr, NEW tr2, TransferredTo(tr, tr2, c, toSender)
  PROVE  MovedOn(tr, LeftOf(co, gone), WithReturns(co, re, gone, toSender),
                 tr2, LeftOf(co, gone \cup {c}), WithReturns(co, re, gone \cup {c}, toSender),
                 c, toSender)
<1>. DEFINE gone2 == gone \cup {c}
            v == ValuesOf(co)
<1>1. GoneFrom(co, gone2)
  BY DEF GoneFrom
<1>2. /\ WithReturns(co, re, gone2, toSender) \in [Types -> Nat]
      /\ \A x \in DOMAIN co : co[x].value \in Nat /\ v[x] = co[x].value
      /\ \A t : IsFiniteSet(PassedOf(co, gone, t))
  BY <1>1, ReturnsType
<1>3. /\ LeftOf(co, gone) \in [DOMAIN co \ gone -> Coin]
      /\ LeftOf(co, gone2) \in [DOMAIN co \ gone2 -> Coin]
      /\ \A x \in DOMAIN co \ gone : LeftOf(co, gone)[x] = co[x]
      /\ \A x \in DOMAIN co \ gone2 : LeftOf(co, gone2)[x] = co[x]
  <2>1. \A x \in DOMAIN co : co[x] \in Coin
    BY DEF GoneFrom
  <2>. QED BY <2>1 DEF LeftOf, Restrict
<1>4. Less1(LeftOf(co, gone), LeftOf(co, gone2), c)
  <2>1. DOMAIN co \ gone2 = (DOMAIN co \ gone) \ {c}
    OBVIOUS
  <2>2. DOMAIN LeftOf(co, gone) = DOMAIN co \ gone /\ DOMAIN LeftOf(co, gone2) = DOMAIN co \ gone2
    BY <1>3
  <2>3. \A x \in DOMAIN co \ gone2 : LeftOf(co, gone2)[x] = LeftOf(co, gone)[x]
    BY <1>3
  <2>. HIDE DEF gone2
  <2>. QED BY <1>3, <2>1, <2>2, <2>3 DEF Less1
<1>5. c \in DOMAIN LeftOf(co, gone) /\ LeftOf(co, gone)[c] = co[c]
  BY <1>3
<1>6. ASSUME NEW t \in Types
      PROVE  WithReturns(co, re, gone2, toSender)[t] =
               WithReturns(co, re, gone, toSender)[t]
                  + (IF toSender /\ co[c].type = t THEN co[c].value ELSE 0)
  <2>1. SumOver(v, PassedOf(co, gone, t)) \in Int /\ re[t] \in Int
    <3>1. \A x \in PassedOf(co, gone, t) : v[x] \in Int
      BY <1>2 DEF PassedOf, GoneFrom
    <3>. HIDE DEF v
    <3>. QED BY <1>2, <3>1, SumOverType
  <2>2. CASE co[c].type = t
    <3>1. PassedOf(co, gone2, t) = PassedOf(co, gone, t) \cup {c} /\ c \notin PassedOf(co, gone, t)
      BY <2>2 DEF PassedOf
    <3>2. \A x \in PassedOf(co, gone, t) : v[x] \in Int
      BY <1>2 DEF PassedOf, GoneFrom
    <3>3. v[c] \in Int /\ v[c] = co[c].value
      BY <1>2
    <3>4. SumOver(v, PassedOf(co, gone2, t)) = SumOver(v, PassedOf(co, gone, t)) + co[c].value
      <4>. HIDE DEF v, gone2
      <4>. QED BY <1>2, <3>1, <3>2, <3>3, SumOverAdd
    <3>. QED BY <2>1, <2>2, <3>3, <3>4 DEF WithReturns
  <2>3. CASE co[c].type # t
    <3>1. PassedOf(co, gone2, t) = PassedOf(co, gone, t)
      BY <2>3 DEF PassedOf
    <3>. QED BY <2>1, <2>3, <3>1 DEF WithReturns
  <2>. QED BY <2>2, <2>3
<1>. QED BY <1>2, <1>4, <1>5, <1>6 DEF MovedOn

\* However many objects are transferred, what was returned backs the excess.
LEMMA TransfersKeep ==
  ASSUME NEW tr, NEW co, NEW re, FlowTyped(tr, co, re), \A t \in Judged : Backed(tr, co, re, t),
         NEW toSender \in BOOLEAN, NEW n \in Nat, NEW objects \in [1 .. n -> DOMAIN co],
         IsInjective(objects),
         toSender /\ ~ ReturnsOthers => \A k \in 1 .. n : co[objects[k]].type = GasType,
         NEW P, InTurn(tr, DOMAIN tr, objects, toSender, n, P)
  PROVE  LET gone == Passed(objects, n)
             re2 == WithReturns(co, re, gone, toSender)
         IN FlowTyped(P[n], LeftOf(co, gone), re2)
            /\ \A t \in Judged : Backed(P[n], LeftOf(co, gone), re2, t)
<1>. DEFINE Co(k) == LeftOf(co, Passed(objects, k))
            Re(k) == WithReturns(co, re, Passed(objects, k), toSender)
            Good(k) == FlowTyped(P[k], Co(k), Re(k))
                       /\ \A t \in Judged : Backed(P[k], Co(k), Re(k), t)
            Bad == {k \in 0 .. n : ~ Good(k)}
<1>1. \A k \in 0 .. n : GoneFrom(co, Passed(objects, k))
  BY DEF GoneFrom, FlowTyped, Passed
<1>2. re \in [Types -> Nat] /\ P[0] = tr
  BY DEF FlowTyped, InTurn
<1>3. Good(0)
  <2>1. Passed(objects, 0) = {}
    BY DEF Passed
  <2>2. Co(0) = co
    <3>1. co = [x \in DOMAIN co |-> co[x]]
      BY DEF FlowTyped
    <3>. QED BY <2>1, <3>1 DEF LeftOf, Restrict
  <2>3. Re(0) = re
    <3>1. \A t : PassedOf(co, {}, t) = {}
      BY DEF PassedOf
    <3>2. SumOver(ValuesOf(co), {}) = 0
      BY SumOverEmpty
    <3>3. \A t \in Types : re[t] + 0 = re[t]
      BY <1>2
    <3>4. Re(0) = [t \in Types |-> re[t]]
      BY <2>1, <3>1, <3>2, <3>3 DEF WithReturns
    <3>. QED BY <1>2, <3>4
  <2>. QED BY <1>2, <2>2, <2>3
<1>4. ASSUME NEW k \in 1 .. n, Good(k - 1)
      PROVE  Good(k)
  <2>1. PICK c : c = objects[k]
    OBVIOUS
  <2>2. c \in DOMAIN co \ Passed(objects, k - 1)
    BY <2>1 DEF IsInjective, Passed
  <2>3. Passed(objects, k) = Passed(objects, k - 1) \cup {c}
    BY <2>1 DEF Passed
  <2>4. TransferredTo(P[k - 1], P[k], c, toSender)
    <3>1. Tracks(P[k - 1]) /\ Gas \in DOMAIN P[k - 1]
      BY <1>4, GasIsOwned DEF FlowTyped, Tracks
    <3>2. P[k] = Transferred(P[k - 1], c, toSender)
      BY <2>1 DEF InTurn
    <3>. QED BY <3>1, <3>2, TransferDoes
  <2>5. toSender /\ ~ ReturnsOthers => co[c].type = GasType
    BY <2>1
  <2>6. GoneFrom(co, Passed(objects, k - 1))
    BY <1>1
  <2>7. MovedOn(P[k - 1], Co(k - 1), Re(k - 1), P[k], Co(k), Re(k), c, toSender)
    BY <1>2, <2>2, <2>3, <2>4, <2>5, <2>6, OneMoreGone
  <2>. HIDE DEF Co, Re
  <2>. QED BY <1>4, <2>7, TransferOne
<1>5. Bad = {}
  <2>. SUFFICES ASSUME Bad # {} PROVE FALSE
    OBVIOUS
  <2>1. PICK k \in Bad : \A m \in Bad : k <= m
    <3>1. Bad \in SUBSET Nat
      OBVIOUS
    <3>. HIDE DEF Bad
    <3>. QED BY <3>1, LeastNumber
  <2>2. k \in 0 .. n /\ ~ Good(k)
    BY DEF Bad
  <2>. HIDE DEF Good
  <2>3. k # 0
    BY <1>3, <2>2
  <2>4. k \in 1 .. n /\ k - 1 \in 0 .. n /\ ~ (k <= k - 1)
    BY <2>2, <2>3
  <2>5. k - 1 \notin Bad
    BY <2>1, <2>4
  <2>6. Good(k - 1)
    BY <2>4, <2>5
  <2>. QED BY <1>4, <2>2, <2>4, <2>6
<1>6. Good(n)
  <2>. HIDE DEF Good
  <2>. QED BY <1>5
<1>. QED BY <1>6

\* What holds of the analysis and of the execution beside it.
FlowInv ==
  /\ FlowTyped(trackedCoins, coins, returned)
  /\ \A t \in Judged : Backed(trackedCoins, coins, returned, t)
  /\ length \in Nat /\ \A c \in Known \cup DOMAIN coins : c[1] \in 0 .. length

\* The inputs and the gas coin are finitely many.
LEMMA OwnedIsFinite == IsFiniteSet(Owned) /\ \A c \in Owned : c[1] = 0 /\ TypeOf(c) \in Types
<1>1. PICK n \in Nat : DOMAIN InputType = 1 .. n
  <2>1. PICK A : A = Range(InputType)
    OBVIOUS
  <2>2. InputType \in Seq(A)
    BY <2>1, FlowsAssumption
  <2>. QED BY <2>2, LenProperties
<1>. DEFINE F == {<<0, i>> : i \in 1 .. n}
            f == [i \in 1 .. n |-> <<0, i>>]
<1>2. f \in Surjection(1 .. n, F)
  BY DEF Surjection
<1>3. IsFiniteSet(F)
  <2>1. IsFiniteSet(1 .. n)
    BY FS_Interval
  <2>. HIDE DEF f, F
  <2>. QED BY <1>2, <2>1, FS_Surjection
<1>4. Owned = F \cup {Gas}
  BY <1>1 DEF Owned
<1>5. IsFiniteSet(Owned)
  <2>. HIDE DEF F
  <2>. QED BY <1>3, <1>4, FS_AddElement
<1>6. \A c \in Owned : c[1] = 0 /\ TypeOf(c) \in Types
  <2>1. \A i \in DOMAIN InputType : InputType[i] \in Types
    BY DEF Types, Range
  <2>2. GasType \in Types
    BY DEF Types
  <2>3. \A i \in DOMAIN InputType : <<0, i>>[1] = 0 /\ TypeOf(<<0, i>>) \in Types
    BY <2>1, <2>2 DEF TypeOf
  <2>4. Gas[1] = 0 /\ TypeOf(Gas) \in Types
    BY <2>2 DEF Gas, TypeOf
  <2>. QED BY <2>3, <2>4 DEF Owned
<1>. QED BY <1>5, <1>6

\* Totals are sums.
LEMMA TotalIsSum ==
  ASSUME NEW f, NEW S, IsFiniteSet(S)
  PROVE  Total(f, S) = SumOver(f, S)
BY MapThenSumIs DEF Total

\* Initially.
LEMMA FlowsBegin == FlowsInit => FlowInv
<1>. SUFFICES ASSUME FlowsInit PROVE FlowInv
  OBVIOUS
<1>. USE DEF FlowsInit
<1>1. IsFiniteSet(Owned) /\ \A c \in Owned : c[1] = 0 /\ TypeOf(c) \in Types
  BY OwnedIsFinite
<1>2. Balance \in Nat
  BY FlowsAssumption
<1>3. DOMAIN trackedCoins = Owned /\ DOMAIN coins = Owned
  OBVIOUS
<1>4. /\ trackedCoins \in [Owned -> TrackedCoin]
      /\ \A c \in Owned : trackedCoins[c].type = TypeOf(c) /\ trackedCoins[c].remaining = Balance
  BY <1>1, <1>2 DEF TrackedCoin
<1>5. /\ coins \in [Owned -> Coin]
      /\ \A c \in Owned : coins[c].type = TypeOf(c) /\ coins[c].value = Balance
  BY <1>1, <1>2 DEF Coin
<1>6. returned \in [Types -> Nat]
  OBVIOUS
<1>7. FlowTyped(trackedCoins, coins, returned)
  BY <1>1, <1>3, <1>4, <1>5, <1>6 DEF FlowTyped
<1>8. ASSUME NEW t \in Types PROVE Backed(trackedCoins, coins, returned, t)
  <2>. DEFINE e == ExcessOf(trackedCoins, coins)
              S == OfType(trackedCoins, t)
  <2>1. IsFiniteSet(S) /\ S \subseteq Owned
    <3>1. S \subseteq Owned
      BY <1>3 DEF OfType
    <3>. QED BY <1>1, <3>1, FS_Subset
  <2>2. \A c \in S : e[c] = 0
    BY <1>2, <1>3, <1>4, <1>5, <2>1 DEF ExcessOf, Excess, Worth
  <2>3. SumOver(e, S) = 0
    <3>. HIDE DEF e, S
    <3>. QED BY <2>1, <2>2, SumOverZero
  <2>. QED BY <2>3 DEF Backed
<1>9. length \in Nat /\ \A c \in Known \cup DOMAIN coins : c[1] \in 0 .. length
  BY <1>1, <1>3 DEF Known
<1>. QED BY <1>7, <1>8, <1>9 DEF FlowInv, Judged

\* Objects are transferred.
LEMMA TransferKeeps ==
  ASSUME FlowInv, NEW objects \in SeqOf(DOMAIN coins, AtOnce), IsInjective(objects),
         NEW toSender \in BOOLEAN, TransferObjects(objects, toSender), length' = length + 1
  PROVE  FlowInv'
<1>1. PICK n \in Nat : objects \in [1 .. n -> DOMAIN coins]
  BY DEF SeqOf
<1>2. FlowTyped(trackedCoins, coins, returned)
      /\ \A t \in Judged : Backed(trackedCoins, coins, returned, t)
  BY DEF FlowInv
<1>3. trackedCoins \in [Known -> TrackedCoin] /\ Gas \in Known
  BY <1>2, GasIsOwned DEF FlowTyped, Known
<1>4. PICK P : InTurn(trackedCoins, Known, objects, toSender, n, P)
  BY <1>1, <1>3, TransfersInOrder
<1>. DEFINE gone == Passed(objects, n)
            re2 == WithReturns(coins, returned, gone, toSender)
<1>5. toSender /\ ~ ReturnsOthers => \A k \in 1 .. n : coins[objects[k]].type = GasType
  BY <1>1 DEF TransferObjects, ToSet
<1>6. FlowTyped(P[n], LeftOf(coins, gone), re2)
      /\ \A t \in Judged : Backed(P[n], LeftOf(coins, gone), re2, t)
  <2>1. DOMAIN trackedCoins = Known
    BY DEF Known
  <2>2. InTurn(trackedCoins, DOMAIN trackedCoins, objects, toSender, n, P)
    BY <1>4, <2>1
  <2>. QED BY <1>1, <1>2, <1>5, <2>2, TransfersKeep
<1>7. gone = ToSet(objects)
  BY <1>1 DEF Passed, ToSet
<1>8. trackedCoins' = P[n]
  BY <1>4 DEF InTurn, TransferObjects
<1>9. coins' = LeftOf(coins, gone)
  BY <1>7 DEF TransferObjects, Without, LeftOf
<1>10. returned' = re2
  <2>1. \A t \in Types : Total(Values, {c \in ToSet(objects) : coins[c].type = t})
                            = SumOver(ValuesOf(coins), PassedOf(coins, gone, t))
    <3>. TAKE t \in Types
    <3>1. IsFiniteSet(PassedOf(coins, gone, t))
      <4>1. PassedOf(coins, gone, t) \subseteq DOMAIN coins /\ IsFiniteSet(DOMAIN coins)
        BY <1>1, <1>2 DEF PassedOf, Passed, FlowTyped
      <4>. QED BY <4>1, FS_Subset
    <3>2. Values = ValuesOf(coins)
      BY DEF Values, ValuesOf
    <3>. QED BY <1>7, <3>1, <3>2, TotalIsSum DEF PassedOf
  <2>. QED BY <2>1 DEF TransferObjects, WithReturns
<1>11. length' \in Nat /\ \A c \in (Known \cup DOMAIN coins)' : c[1] \in 0 .. length'
  <2>1. DOMAIN P[n] = Known
    <3>1. P \in [0 .. n -> [Known -> TrackedCoin]]
      BY <1>4, Zenon DEF InTurn
    <3>2. n \in 0 .. n
      OBVIOUS
    <3>. QED BY <3>1, <3>2
  <2>2. DOMAIN coins' \subseteq DOMAIN coins
    BY <1>9 DEF LeftOf, Restrict
  <2>3. length \in Nat /\ \A c \in Known \cup DOMAIN coins : c[1] \in 0 .. length
    BY DEF FlowInv
  <2>. QED BY <1>8, <2>1, <2>2, <2>3 DEF Known
<1>. QED BY <1>6, <1>8, <1>9, <1>10, <1>11 DEF FlowInv

\* What is known of coins when the invariant holds.
LEMMA FlowsAre ==
  ASSUME FlowInv
  PROVE  /\ FlowTyped(trackedCoins, coins, returned) /\ returned \in [Types -> Nat]
         /\ DOMAIN trackedCoins = Known /\ IsFiniteSet(Known) /\ IsFiniteSet(DOMAIN coins)
         /\ \A c \in DOMAIN coins :
               coins[c] \in Coin /\ coins[c].type \in Types /\ coins[c].value \in Nat
         /\ \A c \in Known : /\ trackedCoins[c] \in TrackedCoin /\ trackedCoins[c].type \in Types
                             /\ trackedCoins[c].remaining \in Int
                             /\ Excess(trackedCoins, coins, c) \in Nat
         /\ \A c \in Known \cap DOMAIN coins : trackedCoins[c].type = coins[c].type
<1>1. FlowTyped(trackedCoins, coins, returned) /\ DOMAIN trackedCoins = Known
  BY DEF FlowInv, Known
<1>2. \A c \in Known : Excess(trackedCoins, coins, c) \in Nat
  BY <1>1, ExcessType
<1>. QED BY <1>1, <1>2 DEF FlowTyped, TrackedCoin, Coin

\* Consuming coins leaves nothing of them.
LEMMA ConsumingDoes ==
  ASSUME FlowInv, NEW S
  PROVE  /\ Alike(trackedCoins, Consumed(S)) /\ DOMAIN Consumed(S) = Known
         /\ \A c \in Known \cap S : Consumed(S)[c].remaining = 0
         /\ \A c \in Known \ S : Consumed(S)[c] = trackedCoins[c]
<1>1. ASSUME NEW c \in Known
      PROVE  /\ [trackedCoins[c] EXCEPT !.remaining = 0] \in TrackedCoin
             /\ [trackedCoins[c] EXCEPT !.remaining = 0].remaining = 0
             /\ [trackedCoins[c] EXCEPT !.remaining = 0].type = trackedCoins[c].type
  <2>1. PICK r : r = trackedCoins[c]
    OBVIOUS
  <2>2. r \in TrackedCoin
    BY <2>1, FlowsAre
  <2>3. PICK x : x = [r EXCEPT !.remaining = 0]
    OBVIOUS
  <2>4. x \in TrackedCoin /\ x.remaining = 0 /\ x.type = r.type
    BY <2>2, <2>3 DEF TrackedCoin
  <2>. QED BY <2>1, <2>3, <2>4
<1>2. /\ DOMAIN Consumed(S) = Known
      /\ \A c \in Known \cap S : Consumed(S)[c] = [trackedCoins[c] EXCEPT !.remaining = 0]
      /\ \A c \in Known \ S : Consumed(S)[c] = trackedCoins[c]
  BY DEF Consumed
<1>3. \A c \in Known : Consumed(S)[c] \in TrackedCoin /\ Consumed(S)[c].type = trackedCoins[c].type
  <2>1. \A c \in Known : trackedCoins[c] \in TrackedCoin
    BY FlowsAre
  <2>. QED BY <1>1, <1>2, <2>1
<1>4. \A c \in Known \cap S : Consumed(S)[c].remaining = 0
  BY <1>1, <1>2
<1>5. Consumed(S) \in [Known -> TrackedCoin]
  <2>1. Consumed(S) = [c \in Known |-> Consumed(S)[c]]
    BY DEF Consumed
  <2>. QED BY <1>3, <2>1
<1>6. Alike(trackedCoins, Consumed(S))
  BY <1>3, <1>5 DEF Alike, Known
<1>. QED BY <1>2, <1>4, <1>6

\* What remains to show of a command that returns nothing to the sender.
LEMMA CommandKeeps ==
  ASSUME FlowInv, length' = length + 1, returned' = returned,
         FlowTyped(trackedCoins', coins', returned'),
         \A t \in Judged : NoMoreExcess(trackedCoins, coins, trackedCoins', coins', t)
                             \/ Backed(trackedCoins', coins', returned', t),
         \A c \in Known' \cup DOMAIN coins' : c[1] \in 0 .. length \/ c[1] = length + 1
  PROVE  FlowInv'
<1>1. FlowTyped(trackedCoins, coins, returned) /\ returned \in [Types -> Nat] /\ length \in Nat
  BY FlowsAre DEF FlowInv
<1>2. ASSUME NEW t \in Judged
      PROVE  Backed(trackedCoins', coins', returned', t)
  <2>1. Backed(trackedCoins, coins, returned, t) /\ returned[t] <= returned'[t]
    BY <1>1 DEF FlowInv, Judged
  <2>2. t \in Types
    BY DEF Judged
  <2>. QED BY <1>1, <2>1, <2>2, ExcessFalls
<1>3. length' \in Nat /\ \A c \in Known' \cup DOMAIN coins' : c[1] \in 0 .. length'
  BY <1>1
<1>. QED BY <1>2, <1>3 DEF FlowInv

\* Results have new names.
LEMMA ResultsAreNew ==
  ASSUME FlowInv, NEW k
  PROVE  /\ Result(k)[1] = length + 1 /\ Result(k)[2] = k
         /\ Result(k) \notin Known /\ Result(k) \notin DOMAIN coins /\ Result(k) \notin Owned
<1>1. Result(k)[1] = length + 1 /\ Result(k)[2] = k
  BY DEF Result
<1>2. length \in Nat /\ \A c \in Known \cup DOMAIN coins : c[1] \in 0 .. length
  BY DEF FlowInv
<1>3. Owned \subseteq Known
  BY FlowsAre DEF FlowTyped
<1>. QED BY <1>1, <1>2, <1>3

\* A call takes coins.
LEMMA CallKeeps ==
  ASSUME FlowInv, NEW c \in DOMAIN coins, NEW byValue \in SUBSET DOMAIN coins,
         NEW taken \in 0 .. coins[c].value, NEW returns \in BOOLEAN,
         MoveCall(byValue, c, taken, returns), length' = length + 1
  PROVE  FlowInv'
<1>. DEFINE D == DOMAIN coins \ byValue
            new == IF returns THEN {Result(1)} ELSE {}
            S == byValue \cup {c}
<1>1. /\ c \in D /\ coins[c] \in Coin /\ coins[c].value \in Nat
      /\ taken \in Nat /\ taken <= coins[c].value
      /\ coins[c].type \in Types
  BY FlowsAre DEF MoveCall
<1>2. PICK left : left = [Without(byValue) EXCEPT ![c].value = @ - taken]
  OBVIOUS
<1>3. /\ DOMAIN left = D /\ \A x \in D \ {c} : left[x] = coins[x]
      /\ left[c] \in Coin /\ left[c].type = coins[c].type
  <2>1. PICK r : r = [coins[c] EXCEPT !.value = @ - taken]
    OBVIOUS
  <2>2. r \in Coin /\ r.type = coins[c].type
    BY <1>1, <2>1 DEF Coin
  <2>3. left = [Without(byValue) EXCEPT ![c] = r]
    BY <1>1, <1>2, <2>1 DEF Without, Restrict
  <2>4. left = [x \in D |-> IF x = c THEN r ELSE coins[x]]
    BY <2>3 DEF Without, Restrict
  <2>. QED BY <1>1, <2>2, <2>4
<1>4. /\ trackedCoins' = Consumed(S) /\ returned' = returned
      /\ coins' = [x \in D \cup new |->
                     IF x \in D THEN left[x] ELSE [type |-> coins[c].type, value |-> taken]]
  BY <1>2, <1>3 DEF MoveCall
<1>5. [type |-> coins[c].type, value |-> taken] \in Coin
  BY <1>1 DEF Coin
<1>6. /\ DOMAIN coins' = D \cup new /\ \A x \in D : coins'[x] = left[x]
      /\ coins' \in [DOMAIN coins' -> Coin]
  <2>1. \A x \in D : left[x] \in Coin
    BY <1>3, FlowsAre
  <2>. QED BY <1>4, <1>5, <2>1
<1>7. /\ Alike(trackedCoins, Consumed(S)) /\ DOMAIN Consumed(S) = Known
      /\ \A x \in Known \cap S : Consumed(S)[x].remaining = 0
      /\ \A x \in Known \ S : Consumed(S)[x] = trackedCoins[x]
  BY ConsumingDoes
<1>8. Known' = Known /\ DOMAIN trackedCoins' = Known
  BY <1>4, <1>7 DEF Known
<1>9. new \cap Known = {} /\ \A x \in new : x[1] = length + 1
  BY ResultsAreNew
<1>10. FlowTyped(trackedCoins', coins', returned')
  <2>1. IsFiniteSet(DOMAIN coins') /\ IsFiniteSet(DOMAIN trackedCoins')
    <3>1. IsFiniteSet(D)
      BY FlowsAre, FS_Subset
    <3>2. IsFiniteSet(new)
      BY FS_Singleton, FS_EmptySet
    <3>3. IsFiniteSet(D \cup new)
      <4>. HIDE DEF D, new
      <4>. QED BY <3>1, <3>2, FS_Union
    <3>4. IsFiniteSet(Known)
      BY FlowsAre
    <3>. QED BY <1>6, <1>8, <3>3, <3>4
  <2>2. trackedCoins' \in [DOMAIN trackedCoins' -> TrackedCoin]
    BY <1>4, <1>7 DEF Alike
  <2>3. \A x \in Known : trackedCoins'[x].type = trackedCoins[x].type
    BY <1>4, <1>7, FlowsAre DEF Alike
  <2>4. \A x \in Owned : x \in DOMAIN trackedCoins' /\ trackedCoins'[x].type = TypeOf(x)
    BY <1>8, <2>3, FlowsAre DEF FlowTyped
  <2>5. \A x \in DOMAIN trackedCoins' \cap DOMAIN coins' : trackedCoins'[x].type = coins'[x].type
    <3>. TAKE x \in DOMAIN trackedCoins' \cap DOMAIN coins'
    <3>1. x \in Known /\ x \in D
      BY <1>6, <1>8, <1>9
    <3>2. coins'[x].type = coins[x].type
      BY <1>3, <1>6, <3>1
    <3>3. trackedCoins[x].type = coins[x].type
      BY <3>1, FlowsAre
    <3>. QED BY <2>3, <3>1, <3>2, <3>3
  <2>6. returned' \in [Types -> Nat]
    BY <1>4, FlowsAre
  <2>. QED BY <1>6, <2>1, <2>2, <2>4, <2>5, <2>6 DEF FlowTyped
<1>11. ASSUME NEW t \in Types
       PROVE  NoMoreExcess(trackedCoins, coins, trackedCoins', coins', t)
  <2>. SUFFICES ASSUME NEW x \in OfType(trackedCoins', t)
                PROVE  \/ /\ x \in OfType(trackedCoins, t)
                          /\ Excess(trackedCoins', coins', x) <= Excess(trackedCoins, coins, x)
                       \/ Excess(trackedCoins', coins', x) = 0
    BY DEF NoMoreExcess
  <2>1. x \in Known /\ trackedCoins'[x].type = t
    BY <1>8 DEF OfType
  <2>2. Worth(coins', x) \in Nat /\ Excess(trackedCoins', coins', x) \in Nat
    BY <1>8, <1>10, <2>1, ExcessType
  <2>3. CASE x \in S
    <3>1. trackedCoins'[x].remaining = 0
      BY <1>4, <1>7, <2>1, <2>3
    <3>. QED BY <2>2, <3>1 DEF Excess
  <2>4. CASE x \notin S
    <3>1. trackedCoins'[x] = trackedCoins[x]
      BY <1>4, <1>7, <2>1, <2>4
    <3>2. x \in OfType(trackedCoins, t)
      BY <2>1, <3>1, FlowsAre DEF OfType
    <3>3. Worth(coins', x) = Worth(coins, x)
      BY <1>3, <1>6, <1>9, <2>1, <2>4 DEF Worth
    <3>4. Excess(trackedCoins', coins', x) = Excess(trackedCoins, coins, x)
      BY <3>1, <3>3 DEF Excess
    <3>. QED BY <2>2, <3>2, <3>4
  <2>. QED BY <2>3, <2>4
<1>12. \A x \in Known' \cup DOMAIN coins' : x[1] \in 0 .. length \/ x[1] = length + 1
  <2>1. \A x \in Known \cup DOMAIN coins : x[1] \in 0 .. length
    BY DEF FlowInv
  <2>. QED BY <1>6, <1>8, <1>9, <2>1
<1>. QED BY <1>4, <1>10, <1>11, <1>12, CommandKeeps DEF Judged

\* What the analysis believes to remain of coins is their values and their excess at most.
LEMMA RemainsAtMost ==
  ASSUME FlowInv, NEW S \in SUBSET DOMAIN coins
  PROVE  LET K == S \cap Known
             e == ExcessOf(trackedCoins, coins)
         IN /\ Total(Values, S) \in Nat /\ Total(Remaining, K) \in Int /\ SumOver(e, K) \in Nat
            /\ Total(Remaining, K) <= Total(Values, S) + SumOver(e, K)
<1>. DEFINE K == S \cap Known
            e == ExcessOf(trackedCoins, coins)
            v == Values
            r == Remaining
            u == [c \in K |-> v[c] + e[c]]
<1>1. IsFiniteSet(S) /\ IsFiniteSet(K)
  BY FlowsAre, FS_Subset
<1>2. \A c \in S : v[c] \in Nat /\ v[c] = coins[c].value
  BY FlowsAre DEF Values
<1>3. ASSUME NEW c \in K
      PROVE  /\ e[c] \in Nat /\ r[c] \in Int /\ v[c] \in Nat
             /\ r[c] <= v[c] + e[c]
  <2>1. c \in DOMAIN trackedCoins /\ FlowTyped(trackedCoins, coins, returned)
    BY FlowsAre
  <2>2. /\ e[c] \in Nat /\ trackedCoins[c].remaining \in Int
        /\ trackedCoins[c].remaining <= Worth(coins, c) + e[c]
    BY <2>1, ExcessType
  <2>3. r[c] = trackedCoins[c].remaining
    BY DEF Remaining
  <2>4. Worth(coins, c) = v[c]
    BY <1>2 DEF Worth
  <2>. QED BY <1>2, <2>2, <2>3, <2>4
<1>4. Total(v, S) = SumOver(v, S) /\ Total(r, K) = SumOver(r, K)
  BY <1>1, TotalIsSum
<1>5. K \in SUBSET S
  OBVIOUS
<1>6. \A c \in K : u[c] \in Int /\ v[c] \in Int /\ e[c] \in Int /\ u[c] = v[c] + e[c]
                   /\ r[c] \in Int /\ r[c] <= u[c] /\ e[c] \in Nat
  BY <1>3
<1>. HIDE DEF K, e, v, r, u
<1>7. SumOver(v, S) \in Nat
  <2>1. S \in SUBSET S
    OBVIOUS
  <2>. QED BY <1>1, <1>2, <2>1, SumOverPart
<1>8. SumOver(v, K) <= SumOver(v, S)
  BY <1>1, <1>2, <1>5, SumOverPart
<1>9. SumOver(e, K) \in Nat
  <2>1. K \in SUBSET K
    OBVIOUS
  <2>. QED BY <1>1, <1>6, <2>1, SumOverPart
<1>10. SumOver(r, K) \in Int /\ SumOver(v, K) \in Int
  BY <1>1, <1>6, SumOverType
<1>11. SumOver(u, K) = SumOver(v, K) + SumOver(e, K)
  BY <1>1, <1>6, SumOverPlus
<1>12. SumOver(r, K) <= SumOver(u, K)
  BY <1>1, <1>6, SumOverLess
<1>13. SumOver(r, K) <= SumOver(v, S) + SumOver(e, K)
  BY <1>7, <1>8, <1>9, <1>10, <1>11, <1>12
<1>. QED BY <1>4, <1>7, <1>9, <1>10, <1>13 DEF K, e, v, r

\* Coins are merged.
LEMMA MergeKeeps ==
  ASSUME FlowInv, NEW d \in DOMAIN coins, NEW S \in SUBSET DOMAIN coins,
         MergeCoins(d, S), length' = length + 1
  PROVE  FlowInv'
<1>. DEFINE D == DOMAIN coins \ S
            K == S \cap Known
            e == ExcessOf(trackedCoins, coins)
<1>1. /\ d \notin S /\ \A c \in S : coins[c].type = coins[d].type
      /\ coins' = [Without(S) EXCEPT ![d].value = @ + Total(Values, S)]
      /\ returned' = returned
  BY DEF MergeCoins
<1>2. PICK m : m = Total(Values, S)
  OBVIOUS
<1>3. PICK r : r = Total(Remaining, K)
  OBVIOUS
<1>4. m \in Nat /\ r \in Int /\ SumOver(e, K) \in Nat /\ r <= m + SumOver(e, K)
  BY <1>2, <1>3, RemainsAtMost
<1>5. /\ DOMAIN coins' = D /\ \A x \in D \ {d} : coins'[x] = coins[x]
      /\ coins'[d] \in Coin /\ coins'[d].type = coins[d].type
      /\ coins'[d].value = coins[d].value + m
  <2>1. PICK x : x = [coins[d] EXCEPT !.value = @ + m]
    OBVIOUS
  <2>2. coins[d] \in Coin /\ coins[d].value \in Nat
    BY FlowsAre
  <2>3. x \in Coin /\ x.type = coins[d].type /\ x.value = coins[d].value + m
    BY <1>4, <2>1, <2>2 DEF Coin
  <2>4. d \in D
    BY <1>1
  <2>5. coins' = [y \in D |-> IF y = d THEN x ELSE coins[y]]
    BY <1>1, <1>2, <2>1, <2>4 DEF Without, Restrict
  <2>. QED BY <2>3, <2>4, <2>5
<1>6. coins' \in [D -> Coin]
  <2>1. \A x \in D : coins'[x] \in Coin
    BY <1>5, FlowsAre
  <2>2. coins' = [x \in D |-> coins'[x]]
    BY <1>1, <1>5 DEF Without, Restrict
  <2>. QED BY <2>1, <2>2
<1>7. /\ Alike(trackedCoins, Consumed(S)) /\ DOMAIN Consumed(S) = Known
      /\ \A x \in Known \cap S : Consumed(S)[x].remaining = 0
      /\ \A x \in Known \ S : Consumed(S)[x] = trackedCoins[x]
  BY ConsumingDoes
<1>8. /\ Alike(trackedCoins, trackedCoins')
      /\ \A x \in K : trackedCoins'[x].remaining = 0
      /\ \A x \in Known \ (S \cup {d}) : trackedCoins'[x] = trackedCoins[x]
      /\ d \in Known => trackedCoins'[d].remaining = trackedCoins[d].remaining + r
  <2>1. CASE d \notin Known
    <3>1. trackedCoins' = Consumed(S)
      BY <2>1 DEF MergeCoins
    <3>. QED BY <1>7, <2>1, <3>1
  <2>2. CASE d \in Known
    <3>1. trackedCoins' = [Consumed(S) EXCEPT ![d].remaining = @ + r]
      BY <1>3, <2>2 DEF MergeCoins
    <3>2. PICK n : n = Consumed(S)[d].remaining + r
      OBVIOUS
    <3>3. n = trackedCoins[d].remaining + r /\ n \in Int
      BY <1>1, <1>4, <1>7, <2>2, <3>2, FlowsAre
    <3>4. PICK c : c = Consumed(S)
      OBVIOUS
    <3>5. Sets(c, d, n, trackedCoins')
      BY <3>1, <3>2, <3>4 DEF Sets
    <3>6. Tracks(c) /\ DOMAIN c = Known /\ Alike(trackedCoins, c)
      BY <1>7, <3>4 DEF Tracks, Alike
    <3>7. /\ Alike(c, trackedCoins') /\ trackedCoins'[d].remaining = n
          /\ \A x \in Known \ {d} : trackedCoins'[x] = c[x]
      BY <2>2, <3>3, <3>5, <3>6, RemainingChanges
    <3>8. Alike(trackedCoins, trackedCoins')
      BY <3>6, <3>7, FlowsAre DEF Alike
    <3>9. \A x \in K : trackedCoins'[x].remaining = 0
      BY <1>1, <1>7, <3>4, <3>7
    <3>10. \A x \in Known \ (S \cup {d}) : trackedCoins'[x] = trackedCoins[x]
      BY <1>7, <3>4, <3>7
    <3>. QED BY <3>3, <3>7, <3>8, <3>9, <3>10
  <2>. QED BY <2>1, <2>2
<1>9. Fewer(coins, coins')
  <2>1. \A x \in D : coins'[x].type = coins[x].type
    BY <1>5
  <2>. QED BY <1>5, <1>6, <2>1 DEF Fewer
<1>10. /\ FlowTyped(trackedCoins', coins', returned')
       /\ \A t : OfType(trackedCoins', t) = OfType(trackedCoins, t)
  <2>1. FlowTyped(trackedCoins, coins, returned) /\ returned' \in [Types -> Nat]
    BY <1>1, FlowsAre
  <2>. QED BY <1>8, <1>9, <2>1, AlikeIsTyped
<1>11. DOMAIN trackedCoins' = Known /\ Known' = Known
  BY <1>8, FlowsAre DEF Alike, Known
<1>12. /\ \A x \in Known : Excess(trackedCoins, coins, x) \in Nat
       /\ \A x \in Known : Worth(coins', x) \in Nat /\ Excess(trackedCoins', coins', x) \in Nat
  BY <1>10, <1>11, FlowsAre, ExcessType
<1>13. \A x \in K : Excess(trackedCoins', coins', x) = 0
  BY <1>8, <1>12 DEF Excess
<1>14. \A x \in Known \ (S \cup {d}) :
          Excess(trackedCoins', coins', x) = Excess(trackedCoins, coins, x)
  <2>. TAKE x \in Known \ (S \cup {d})
  <2>1. Worth(coins', x) = Worth(coins, x)
    BY <1>5 DEF Worth
  <2>. QED BY <1>8, <2>1 DEF Excess
<1>15. ASSUME NEW t \in Types, ~ (d \in Known /\ t = coins[d].type)
       PROVE  NoMoreExcess(trackedCoins, coins, trackedCoins', coins', t)
  <2>. SUFFICES ASSUME NEW x \in OfType(trackedCoins', t)
                PROVE  \/ /\ x \in OfType(trackedCoins, t)
                          /\ Excess(trackedCoins', coins', x) <= Excess(trackedCoins, coins, x)
                       \/ Excess(trackedCoins', coins', x) = 0
    BY DEF NoMoreExcess
  <2>1. x \in OfType(trackedCoins, t) /\ x \in Known /\ trackedCoins[x].type = t
    BY <1>10, FlowsAre DEF OfType
  <2>2. x # d
    BY <1>15, <2>1, FlowsAre
  <2>3. CASE x \in S
    BY <1>13, <2>1, <2>3
  <2>4. CASE x \notin S
    BY <1>12, <1>14, <2>1, <2>2, <2>4
  <2>. QED BY <2>3, <2>4
<1>16. ASSUME NEW t \in Judged, d \in Known, t = coins[d].type
       PROVE  Backed(trackedCoins', coins', returned', t)
  <2>1. d \in OfType(trackedCoins, t) /\ K \subseteq OfType(trackedCoins, t) \ {d}
    BY <1>1, <1>16, FlowsAre DEF OfType
  <2>2. Excess(trackedCoins', coins', d) <= Excess(trackedCoins, coins, d) + SumOver(e, K) + 0
    <3>1. /\ trackedCoins[d].remaining \in Int /\ Excess(trackedCoins, coins, d) \in Nat
          /\ trackedCoins[d].remaining <= Worth(coins, d) + Excess(trackedCoins, coins, d)
      BY <1>16, FlowsAre, ExcessType
    <3>2. Worth(coins, d) = coins[d].value /\ coins[d].value \in Nat
      BY FlowsAre DEF Worth
    <3>3. Worth(coins', d) = coins[d].value + m
      BY <1>1, <1>5 DEF Worth
    <3>4. trackedCoins'[d].remaining = trackedCoins[d].remaining + r
      BY <1>8, <1>16
    <3>5. PICK q : q = trackedCoins'[d].remaining
      OBVIOUS
    <3>6. PICK w : w = Worth(coins', d)
      OBVIOUS
    <3>7. Excess(trackedCoins', coins', d) = IF q > w THEN q - w ELSE 0
      BY <3>5, <3>6 DEF Excess
    <3>8. q = trackedCoins[d].remaining + r /\ w = coins[d].value + m
      BY <3>3, <3>4, <3>5, <3>6
    <3>. HIDE DEF e, K
    <3>. QED BY <1>4, <3>1, <3>2, <3>7, <3>8
  <2>3. \A x \in OfType(trackedCoins, t) \ (K \cup {d}) :
           Excess(trackedCoins', coins', x) <= Excess(trackedCoins, coins, x)
    <3>. TAKE x \in OfType(trackedCoins, t) \ (K \cup {d})
    <3>1. x \in Known /\ x \in Known \ (S \cup {d})
      BY FlowsAre DEF OfType
    <3>2. Excess(trackedCoins', coins', x) = Excess(trackedCoins, coins, x)
      BY <1>14, <3>1
    <3>. QED BY <1>12, <3>1, <3>2
  <2>4. Gathers(trackedCoins, coins, trackedCoins', coins', t, d, K, 0)
    BY <1>10, <1>13, <2>1, <2>2, <2>3 DEF Gathers
  <2>5. FlowTyped(trackedCoins, coins, returned) /\ Backed(trackedCoins, coins, returned, t)
        /\ returned'[t] = returned[t] + 0
    <3>1. t \in Types /\ returned[t] \in Nat
      BY FlowsAre DEF Judged
    <3>. QED BY <1>1, <1>16, <3>1 DEF FlowInv
  <2>6. t \in Types
    BY DEF Judged
  <2>. HIDE DEF K, e
  <2>. QED BY <1>10, <2>6, <2>4, <2>5, ExcessGathers
<1>17. \A x \in Known' \cup DOMAIN coins' : x[1] \in 0 .. length \/ x[1] = length + 1
  BY <1>5, <1>11 DEF FlowInv
<1>18. \A t \in Judged : NoMoreExcess(trackedCoins, coins, trackedCoins', coins', t)
                          \/ Backed(trackedCoins', coins', returned', t)
  BY <1>15, <1>16 DEF Judged
<1>. HIDE DEF D, K, e
<1>. QED BY <1>1, <1>10, <1>17, <1>18, CommandKeeps

\* The results of a split and what they add up to.
LEMMA SplitResults ==
  ASSUME FlowInv, NEW amounts \in Splits
  PROVE  LET R == {Result(k) : k \in DOMAIN amounts}
         IN /\ IsFiniteSet(R) /\ Total(amounts, DOMAIN amounts) \in Nat
            /\ \A x \in R : /\ x[1] = length + 1 /\ amounts[x[2]] \in Nat
                            /\ x \notin Known /\ x \notin DOMAIN coins /\ x \notin Owned
<1>. DEFINE R == {Result(k) : k \in DOMAIN amounts}
            f == [k \in DOMAIN amounts |-> Result(k)]
<1>1. amounts \in Seq(Nat)
  BY FlowsAssumption
<1>2. PICK n \in Nat : DOMAIN amounts = 1 .. n
  BY <1>1, LenProperties
<1>3. \A k \in DOMAIN amounts : amounts[k] \in Nat
  BY <1>1, ElementOfSeq, LenProperties
<1>4. IsFiniteSet(DOMAIN amounts)
  BY <1>2, FS_Interval
<1>5. f \in Surjection(DOMAIN amounts, R)
  BY DEF Surjection
<1>6. \A x \in R : /\ x[1] = length + 1 /\ amounts[x[2]] \in Nat
                   /\ x \notin Known /\ x \notin DOMAIN coins /\ x \notin Owned
  BY <1>3, ResultsAreNew
<1>7. Total(amounts, DOMAIN amounts) \in Nat
  <2>1. Total(amounts, DOMAIN amounts) = SumOver(amounts, DOMAIN amounts)
    BY <1>4, TotalIsSum
  <2>2. DOMAIN amounts \in SUBSET DOMAIN amounts
    OBVIOUS
  <2>. QED BY <1>3, <1>4, <2>1, <2>2, SumOverPart
<1>. HIDE DEF R, f
<1>8. IsFiniteSet(R)
  BY <1>4, <1>5, FS_Surjection
<1>. QED BY <1>6, <1>7, <1>8 DEF R

\* A coin is split.
LEMMA SplitKeeps ==
  ASSUME FlowInv, NEW c \in DOMAIN coins, NEW amounts \in Splits, NEW pure \in BOOLEAN,
         SplitCoins(c, amounts, pure), length' = length + 1
  PROVE  FlowInv'
<1>1. PICK R : R = {Result(k) : k \in DOMAIN amounts}
  OBVIOUS
<1>2. PICK m : m = Total(amounts, DOMAIN amounts)
  OBVIOUS
<1>3. /\ IsFiniteSet(R) /\ m \in Nat
      /\ \A x \in R : /\ x[1] = length + 1 /\ amounts[x[2]] \in Nat
                      /\ x \notin Known /\ x \notin DOMAIN coins /\ x \notin Owned
  BY <1>1, <1>2, SplitResults
<1>4. coins[c] \in Coin /\ coins[c].type \in Types /\ coins[c].value \in Nat /\ c \notin R
  BY <1>3, FlowsAre
<1>5. m <= coins[c].value /\ returned' = returned
  BY <1>2 DEF SplitCoins
<1>6. PICK v : v = [coins[c] EXCEPT !.value = @ - m]
  OBVIOUS
<1>7. v \in Coin /\ v.type = coins[c].type /\ v.value = coins[c].value - m
  BY <1>3, <1>4, <1>5, <1>6 DEF Coin
<1>8. coins' = [x \in DOMAIN coins \cup R |->
                   CASE x \in R -> [type |-> coins[c].type, value |-> amounts[x[2]]]
                     [] x = c   -> v
                     [] OTHER   -> coins[x]]
  BY <1>1, <1>2, <1>6 DEF SplitCoins
<1>9. /\ DOMAIN coins' = DOMAIN coins \cup R /\ coins'[c] = v
      /\ \A x \in DOMAIN coins \ {c} : coins'[x] = coins[x]
      /\ \A x \in R : coins'[x] = [type |-> coins[c].type, value |-> amounts[x[2]]]
  <2>1. \A x \in DOMAIN coins : x \notin R
    BY <1>3
  <2>. QED BY <1>4, <1>8, <2>1
<1>10. \A x \in R : /\ coins'[x] \in Coin /\ coins'[x].type = coins[c].type
                    /\ coins'[x].value = amounts[x[2]]
  BY <1>3, <1>4, <1>9 DEF Coin
<1>11. coins' \in [DOMAIN coins' -> Coin]
  <2>1. \A x \in DOMAIN coins' : coins'[x] \in Coin
    BY <1>7, <1>9, <1>10, FlowsAre
  <2>2. coins' = [x \in DOMAIN coins' |-> coins'[x]]
    BY <1>8
  <2>. QED BY <2>1, <2>2
<1>12. IsFiniteSet(DOMAIN coins')
  <2>1. IsFiniteSet(DOMAIN coins)
    BY FlowsAre
  <2>. QED BY <1>3, <1>9, <2>1, FS_Union
<1>13. \A x \in DOMAIN coins : coins'[x].type = coins[x].type
  BY <1>7, <1>9
\* The results are tracked, or none is.
<1>14. PICK N : N = IF c \in Known /\ pure THEN R ELSE {}
  OBVIOUS
<1>15. N \subseteq R /\ IsFiniteSet(N) /\ \A x \in N : x \notin Known
  BY <1>3, <1>14, FS_EmptySet
<1>16. /\ DOMAIN trackedCoins' = Known \cup N
       /\ \A x \in Known \ {c} : trackedCoins'[x] = trackedCoins[x]
       /\ \A x \in N : /\ trackedCoins'[x] \in TrackedCoin
                       /\ trackedCoins'[x].type = coins[c].type
                       /\ trackedCoins'[x].remaining = amounts[x[2]]
       /\ c \in Known => /\ trackedCoins'[c] \in TrackedCoin
                         /\ trackedCoins'[c].type = trackedCoins[c].type
                         /\ \/ trackedCoins'[c].remaining = 0
                            \/ trackedCoins'[c].remaining = trackedCoins[c].remaining - m
       /\ trackedCoins' = [x \in DOMAIN trackedCoins' |-> trackedCoins'[x]]
  <2>1. CASE c \notin Known
    <3>1. trackedCoins' = trackedCoins /\ N = {}
      BY <1>14, <2>1 DEF SplitCoins
    <3>2. DOMAIN trackedCoins = Known /\ trackedCoins \in [Known -> TrackedCoin]
      BY FlowsAre DEF FlowTyped
    <3>. QED BY <2>1, <3>1, <3>2
  <2>2. CASE c \in Known /\ ~ pure
    <3>1. trackedCoins' = Consumed({c}) /\ N = {}
      BY <1>14, <2>2 DEF SplitCoins, SplitUnknown
    <3>2. /\ Alike(trackedCoins, Consumed({c})) /\ DOMAIN Consumed({c}) = Known
          /\ \A x \in Known \cap {c} : Consumed({c})[x].remaining = 0
          /\ \A x \in Known \ {c} : Consumed({c})[x] = trackedCoins[x]
      BY ConsumingDoes
    <3>3. DOMAIN trackedCoins = Known
      BY FlowsAre
    <3>. QED BY <2>2, <3>1, <3>2, <3>3 DEF Alike
  <2>3. CASE c \in Known /\ pure
    <3>1. N = R
      BY <1>14, <2>3
    <3>2. PICK w : w = [trackedCoins[c] EXCEPT !.remaining = @ - m]
      OBVIOUS
    <3>3. trackedCoins[c] \in TrackedCoin /\ trackedCoins[c].remaining \in Int
          /\ trackedCoins[c].type = coins[c].type
      BY <2>3, FlowsAre
    <3>4. /\ w \in TrackedCoin /\ w.type = trackedCoins[c].type
          /\ w.remaining = trackedCoins[c].remaining - m
      BY <1>3, <3>2, <3>3 DEF TrackedCoin
    <3>5. trackedCoins' = [x \in Known \cup R |->
                  CASE x \in R -> [type |-> trackedCoins[c].type, remaining |-> amounts[x[2]]]
                    [] x = c   -> w
                    [] OTHER   -> trackedCoins[x]]
      BY <1>1, <1>2, <2>3, <3>2 DEF SplitCoins
    <3>6. \A x \in Known : x \notin R
      BY <1>3
    <3>7. /\ DOMAIN trackedCoins' = Known \cup R /\ trackedCoins'[c] = w
          /\ \A x \in Known \ {c} : trackedCoins'[x] = trackedCoins[x]
          /\ \A x \in R :
                trackedCoins'[x] = [type |-> trackedCoins[c].type, remaining |-> amounts[x[2]]]
      BY <1>4, <2>3, <3>5, <3>6
    <3>8. \A x \in R : /\ trackedCoins'[x] \in TrackedCoin
                       /\ trackedCoins'[x].type = coins[c].type
                       /\ trackedCoins'[x].remaining = amounts[x[2]]
      BY <1>3, <1>4, <3>3, <3>7 DEF TrackedCoin
    <3>9. trackedCoins' = [x \in DOMAIN trackedCoins' |-> trackedCoins'[x]]
      BY <3>5
    <3>. QED BY <3>1, <3>4, <3>7, <3>8, <3>9
  <2>. QED BY <2>1, <2>2, <2>3
<1>17. Known' = Known \cup N
  BY <1>16 DEF Known
<1>18. FlowTyped(trackedCoins', coins', returned')
  <2>1. IsFiniteSet(DOMAIN trackedCoins')
    <3>1. PICK K : K = Known
      OBVIOUS
    <3>2. IsFiniteSet(K)
      BY <3>1, FlowsAre
    <3>3. IsFiniteSet(K \cup N)
      BY <1>15, <3>2, FS_Union
    <3>. QED BY <1>16, <3>1, <3>3
  <2>2. \A x \in Known : /\ trackedCoins'[x] \in TrackedCoin
                         /\ trackedCoins'[x].type = trackedCoins[x].type
    BY <1>16, FlowsAre
  <2>3. trackedCoins' \in [DOMAIN trackedCoins' -> TrackedCoin]
    <3>1. \A x \in DOMAIN trackedCoins' : trackedCoins'[x] \in TrackedCoin
      BY <1>16, <2>2
    <3>. QED BY <1>16, <3>1
  <2>4. \A x \in Owned : x \in DOMAIN trackedCoins' /\ trackedCoins'[x].type = TypeOf(x)
    <3>1. \A x \in Owned : x \in Known /\ trackedCoins[x].type = TypeOf(x)
      BY FlowsAre DEF FlowTyped
    <3>. QED BY <1>16, <2>2, <3>1
  <2>5. \A x \in DOMAIN trackedCoins' \cap DOMAIN coins' : trackedCoins'[x].type = coins'[x].type
    <3>. TAKE x \in DOMAIN trackedCoins' \cap DOMAIN coins'
    <3>1. CASE x \in N
      BY <1>10, <1>15, <1>16, <3>1
    <3>2. CASE x \in Known
      <4>1. x \in DOMAIN coins
        BY <1>3, <1>9, <3>2
      <4>2. trackedCoins[x].type = coins[x].type
        BY <3>2, <4>1, FlowsAre
      <4>. QED BY <1>13, <2>2, <3>2, <4>1, <4>2
    <3>. QED BY <1>16, <3>1, <3>2
  <2>6. returned' \in [Types -> Nat]
    BY <1>5, FlowsAre
  <2>. QED BY <1>11, <1>12, <2>1, <2>3, <2>4, <2>5, <2>6 DEF FlowTyped
<1>19. ASSUME NEW t \in Types
       PROVE  NoMoreExcess(trackedCoins, coins, trackedCoins', coins', t)
  <2>. SUFFICES ASSUME NEW x \in OfType(trackedCoins', t)
                PROVE  \/ /\ x \in OfType(trackedCoins, t)
                          /\ Excess(trackedCoins', coins', x) <= Excess(trackedCoins, coins, x)
                       \/ Excess(trackedCoins', coins', x) = 0
    BY DEF NoMoreExcess
  <2>1. x \in Known \cup N /\ trackedCoins'[x].type = t
    BY <1>16 DEF OfType
  <2>2. PICK q : q = trackedCoins'[x].remaining
    OBVIOUS
  <2>3. PICK w : w = Worth(coins', x)
    OBVIOUS
  <2>4. PICK a : a = Excess(trackedCoins', coins', x)
    OBVIOUS
  <2>5. w \in Nat /\ a \in Nat /\ a = IF q > w THEN q - w ELSE 0
    <3>1. w \in Nat /\ a \in Nat
      BY <1>16, <1>18, <2>1, <2>3, <2>4, ExcessType
    <3>2. a = IF q > w THEN q - w ELSE 0
      BY <2>2, <2>3, <2>4 DEF Excess
    <3>. QED BY <3>1, <3>2
  <2>6. CASE x \in N
    <3>1. q = amounts[x[2]] /\ amounts[x[2]] \in Nat
      BY <1>3, <1>15, <1>16, <2>2, <2>6
    <3>2. w = amounts[x[2]]
      BY <1>9, <1>10, <1>15, <2>3, <2>6 DEF Worth
    <3>. QED BY <2>4, <2>5, <3>1, <3>2
  <2>7. CASE x \in Known /\ x # c
    <3>1. trackedCoins'[x] = trackedCoins[x]
      BY <1>16, <2>7
    <3>2. Worth(coins', x) = Worth(coins, x)
      BY <1>3, <1>9, <2>7 DEF Worth
    <3>3. Excess(trackedCoins', coins', x) = Excess(trackedCoins, coins, x)
      BY <3>1, <3>2 DEF Excess
    <3>4. x \in OfType(trackedCoins, t)
      BY <2>1, <2>7, <3>1, FlowsAre DEF OfType
    <3>5. PICK b : b = Excess(trackedCoins, coins, x)
      OBVIOUS
    <3>6. a = b
      BY <2>4, <3>3, <3>5
    <3>7. a <= b
      BY <2>5, <3>6
    <3>. QED BY <2>4, <3>4, <3>5, <3>7
  <2>8. CASE x \in Known /\ x = c
    <3>1. CASE q = 0
      BY <2>4, <2>5, <3>1
    <3>2. CASE q = trackedCoins[c].remaining - m
      <4>1. PICK q0 : q0 = trackedCoins[c].remaining
        OBVIOUS
      <4>2. PICK w0 : w0 = coins[c].value
        OBVIOUS
      <4>3. Excess(trackedCoins, coins, x) = IF q0 > w0 THEN q0 - w0 ELSE 0
        BY <2>8, <4>1, <4>2 DEF Excess, Worth
      <4>4. q0 \in Int /\ w0 \in Nat
        BY <2>8, <4>1, <4>2, FlowsAre
      <4>5. w = w0 - m
        BY <1>7, <1>9, <2>3, <2>8, <4>2 DEF Worth
      <4>6. a <= Excess(trackedCoins, coins, x)
        BY <1>3, <2>5, <3>2, <4>1, <4>3, <4>4, <4>5
      <4>7. x \in OfType(trackedCoins, t)
        BY <1>16, <2>1, <2>8, FlowsAre DEF OfType
      <4>. QED BY <2>4, <4>6, <4>7
    <3>. QED BY <1>16, <2>2, <2>8, <3>1, <3>2
  <2>. QED BY <2>1, <2>6, <2>7, <2>8
<1>20. \A x \in Known' \cup DOMAIN coins' : x[1] \in 0 .. length \/ x[1] = length + 1
  <2>1. \A x \in Known \cup DOMAIN coins : x[1] \in 0 .. length
    BY DEF FlowInv
  <2>. QED BY <1>3, <1>9, <1>15, <1>17, <2>1
<1>. QED BY <1>5, <1>18, <1>19, <1>20, CommandKeeps DEF Judged

\* Every command keeps the invariant.
LEMMA FlowsContinue == FlowInv /\ [FlowsNext]_flows => FlowInv'
<1>. SUFFICES ASSUME FlowInv, [FlowsNext]_flows PROVE FlowInv'
  OBVIOUS
<1>1. CASE UNCHANGED flows
  <2>1. FlowInv' <=> FlowInv
    BY <1>1 DEF flows, FlowInv, Known
  <2>. QED BY <2>1
<1>2. ASSUME length' = length + 1, NEW c \in DOMAIN coins, NEW amounts \in Splits,
             NEW pure \in BOOLEAN, SplitCoins(c, amounts, pure)
      PROVE  FlowInv'
  BY <1>2, SplitKeeps
<1>3. ASSUME length' = length + 1, NEW d \in DOMAIN coins, NEW S \in SUBSET DOMAIN coins,
             MergeCoins(d, S)
      PROVE  FlowInv'
  BY <1>3, MergeKeeps
<1>4. ASSUME length' = length + 1, NEW objects \in SeqOf(DOMAIN coins, AtOnce),
             NEW toSender \in BOOLEAN, IsInjective(objects), TransferObjects(objects, toSender)
      PROVE  FlowInv'
  BY <1>4, TransferKeeps
<1>5. ASSUME length' = length + 1, NEW c \in DOMAIN coins, NEW byValue \in SUBSET DOMAIN coins,
             NEW returns \in BOOLEAN, NEW taken \in 0 .. coins[c].value,
             MoveCall(byValue, c, taken, returns)
      PROVE  FlowInv'
  BY <1>5, CallKeeps
<1>. QED BY <1>1, <1>2, <1>3, <1>4, <1>5 DEF FlowsNext

\* What the invariant says of the outflow of a type.
LEMMA InvariantCovers == FlowInv => \A t \in Judged : Spent(t) <= Outflow(t)
<1>. SUFFICES ASSUME FlowInv, NEW t \in Judged PROVE Spent(t) <= Outflow(t)
  OBVIOUS
<1>0. t \in Types
  BY DEF Judged
<1>. DEFINE O == OwnedOf(t)
            V == {c \in DOMAIN coins : coins[c].type = t}
            P == O \cap DOMAIN coins
            A == OfType(trackedCoins, t)
            bal == [c \in O |-> Balance]
            out == [c \in O |-> Balance - trackedCoins[c].remaining]
            rem == [c \in O |-> trackedCoins[c].remaining]
            w == [c \in O |-> Worth(coins, c)]
            e == ExcessOf(trackedCoins, coins)
            u == [c \in O |-> w[c] + e[c]]
            v == Values
<1>1. /\ IsFiniteSet(O) /\ O \subseteq Known
      /\ \A c \in O : trackedCoins[c].type = t
  <2>1. O \subseteq Owned
    BY DEF OwnedOf
  <2>2. \A c \in Owned : c \in Known /\ trackedCoins[c].type = TypeOf(c)
    BY FlowsAre DEF FlowTyped
  <2>. QED BY <2>1, <2>2, OwnedIsFinite, FS_Subset DEF OwnedOf
<1>2. Balance \in Nat /\ returned[t] \in Nat
  BY <1>0, FlowsAssumption, FlowsAre
<1>3. ASSUME NEW c \in O
      PROVE  /\ bal[c] \in Int /\ out[c] \in Int /\ rem[c] \in Int /\ bal[c] = out[c] + rem[c]
             /\ w[c] \in Nat /\ e[c] \in Nat /\ u[c] \in Int /\ u[c] = w[c] + e[c]
             /\ rem[c] <= u[c]
  <2>1. c \in DOMAIN trackedCoins /\ FlowTyped(trackedCoins, coins, returned)
    BY <1>1, FlowsAre
  <2>2. /\ Worth(coins, c) \in Nat /\ e[c] \in Nat /\ trackedCoins[c].remaining \in Int
        /\ trackedCoins[c].remaining <= Worth(coins, c) + e[c]
    BY <2>1, ExcessType
  <2>. HIDE DEF e
  <2>. QED BY <1>2, <2>2
<1>4. IsFiniteSet(V) /\ IsFiniteSet(A) /\ \A c \in V : v[c] \in Nat
  <2>1. V \subseteq DOMAIN coins /\ IsFiniteSet(DOMAIN coins)
    BY FlowsAre
  <2>2. A \subseteq Known /\ IsFiniteSet(Known)
    BY FlowsAre DEF OfType
  <2>3. \A c \in V : v[c] \in Nat
    BY FlowsAre DEF Values
  <2>4. IsFiniteSet(V)
    BY <2>1, FS_Subset
  <2>5. IsFiniteSet(A)
    BY <2>2, FS_Subset
  <2>. QED BY <2>3, <2>4, <2>5
<1>5. O \in SUBSET A /\ \A c \in A : e[c] \in Nat
  <2>1. O \in SUBSET A
    BY <1>1, FlowsAre DEF OfType
  <2>2. ASSUME NEW c \in A PROVE e[c] \in Nat
    <3>1. c \in DOMAIN trackedCoins /\ FlowTyped(trackedCoins, coins, returned)
      BY FlowsAre DEF OfType
    <3>. QED BY <3>1, ExcessType
  <2>. QED BY <2>1, <2>2
<1>6. /\ P \in SUBSET O /\ P \in SUBSET V
      /\ \A c \in P : w[c] = v[c] /\ v[c] \in Nat
      /\ \A c \in O \ P : w[c] = 0
  <2>1. ASSUME NEW c \in P PROVE c \in V /\ w[c] = v[c]
    <3>1. c \in Known \cap DOMAIN coins /\ trackedCoins[c].type = t
      BY <1>1
    <3>2. coins[c].type = t
      BY <3>1, FlowsAre
    <3>. QED BY <3>1, <3>2 DEF Worth, Values
  <2>. QED BY <1>4, <2>1 DEF Worth
<1>7. /\ Total(bal, O) = SumOver(bal, O) /\ Total(out, O) = SumOver(out, O)
      /\ Total(v, V) = SumOver(v, V)
  BY <1>1, <1>4, TotalIsSum
<1>8. Spent(t) = Total(bal, O) - returned[t] - Total(v, V) /\ Outflow(t) = Total(out, O)
  BY DEF Spent, Outflow
<1>9. SumOver(e, A) <= returned[t]
  BY DEF FlowInv, Backed
<1>. HIDE DEF O, V, P, A, bal, out, rem, w, e, u, v
<1>10. SumOver(bal, O) = SumOver(out, O) + SumOver(rem, O)
  BY <1>1, <1>3, SumOverPlus
<1>11. SumOver(rem, O) <= SumOver(u, O)
  BY <1>1, <1>3, SumOverLess
<1>12. SumOver(u, O) = SumOver(w, O) + SumOver(e, O)
  BY <1>1, <1>3, SumOverPlus
<1>13. SumOver(e, O) <= SumOver(e, A)
  BY <1>4, <1>5, SumOverPart
<1>14. SumOver(w, O) <= SumOver(v, V)
  <2>1. IsFiniteSet(P) /\ IsFiniteSet(O \ P)
    BY <1>1, <1>6, FS_Subset
  <2>2. SumOver(w, O) = SumOver(w, P) + SumOver(w, O \ P)
    BY <1>1, <1>3, <1>6, SumOverUnion
  <2>3. SumOver(w, O \ P) = 0
    BY <1>6, <2>1, SumOverZero
  <2>4. SumOver(w, P) = SumOver(v, P)
    BY <1>6, <2>1, SumOverEqual
  <2>5. SumOver(v, P) <= SumOver(v, V) /\ SumOver(v, P) \in Nat
    BY <1>4, <1>6, SumOverPart
  <2>. QED BY <2>2, <2>3, <2>4, <2>5
<1>15. /\ SumOver(out, O) \in Int /\ SumOver(rem, O) \in Int /\ SumOver(u, O) \in Int
       /\ SumOver(w, O) \in Int /\ SumOver(e, O) \in Int /\ SumOver(v, V) \in Int
       /\ SumOver(e, A) \in Int
  BY <1>1, <1>3, <1>4, <1>5, SumOverType
<1>. QED BY <1>2, <1>7, <1>8, <1>9, <1>10, <1>11, <1>12, <1>13, <1>14, <1>15

\* With any coins returned to the sender, the outflow the wallet is told of every type but
\* gas is never less than what leaves the sender.
THEOREM OtherOutflowsCover ==
  FlowsSpec => [](\A t \in Types \ {GasType} : Spent(t) <= Outflow(t))
<1>1. FlowsInit => FlowInv
  BY FlowsBegin
<1>2. FlowInv /\ [FlowsNext]_flows => FlowInv'
  BY FlowsContinue
<1>3. FlowInv => \A t \in Types \ {GasType} : Spent(t) <= Outflow(t)
  BY InvariantCovers DEF Judged
<1>. QED BY <1>1, <1>2, <1>3, PTL DEF FlowsSpec

\* With gas coins returned to the sender, the outflow the wallet is told of any type is never
\* less than what leaves the sender.
THEOREM OutflowsCover == ~ ReturnsOthers => (FlowsSpec => []OutflowCoversSpending)
<1>. SUFFICES ASSUME ~ ReturnsOthers PROVE FlowsSpec => []OutflowCoversSpending
  OBVIOUS
<1>1. FlowsInit => FlowInv
  BY FlowsBegin
<1>2. FlowInv /\ [FlowsNext]_flows => FlowInv'
  BY FlowsContinue
<1>3. FlowInv => OutflowCoversSpending
  BY InvariantCovers DEF Judged, OutflowCoversSpending
<1>. QED BY <1>1, <1>2, <1>3, PTL DEF FlowsSpec

-----------------------------------------------------------------------------
(* The connection of a dapp to a wallet.                                    *)

ConnectionTyped ==
  /\ status \in {"disconnected", "connecting", "connected", "reconnecting"}
  /\ course \in {"undisturbed", "disturbed", "recovering"}
  /\ compatible \subseteq Wallets
  /\ asked = [c \in Connects |-> asked[c]] /\ restoring = [r \in Restores |-> restoring[r]]

\* The status tells that a wallet is asked only while one is.
StatusTells ==
  status \in {"connecting", "reconnecting"} => \E c \in Connects : asked[c] # Nothing

\* Unless calls have crossed, one call of connectWallet at a time has set the status.
OneAsks ==
  course # "disturbed" => \A c \in Connects : asked[c] # Nothing =>
    /\ status = IF asked[c].again THEN "reconnecting" ELSE "connecting"
    /\ ~leaving /\ \A r \in Restores : restoring[r] = Nothing
    /\ \A d \in Connects \ {c} : asked[d] = Nothing

\* A wallet that is being left is connected, or has gone by itself.
OneLeaves ==
  course # "disturbed" /\ leaving =>
    /\ \A r \in Restores : restoring[r] = Nothing
    /\ status = "connected" \/ (status = "disconnected" /\ saved = None /\ current = None)

\* Autoconnect looks for the wallet that was chosen.
RestoresTheChoice ==
  course = "undisturbed" /\ ~Broken =>
    \A r \in Restores : restoring[r] # Nothing => restoring[r].for.wallet = chosen

ConnectionInv ==
  /\ ConnectionTyped /\ StatusTells /\ OneAsks /\ OneLeaves
  /\ RestoresTheChoice /\ SavedWalletIsChosen

\* Accounts of wallets differ from the account that stands for none.
LEMMA NoneHasNoWallet ==
  /\ None.wallet = NoWallet /\ Nothing.for = None
  /\ \A w \in Wallets : \A n : Account(w, n).wallet = w /\ Account(w, n) # None
  /\ \A a : a.wallet \in Wallets => a # None
BY WalletsAssumption DEF None, Nothing, Account

\* While all is well, a connection in use has an account of the wallet that was chosen.
LEMMA InUseIsChosen ==
  ASSUME ConnectionInv, ~Broken, InUse(status)
  PROVE  /\ current # None /\ current.wallet \in Wallets
         /\ course = "undisturbed" => current.wallet = chosen
<1>1. current.wallet \in Wallets
  BY DEF Broken, Throws, ConnectionInv, ConnectionTyped
<1>2. CASE course = "undisturbed"
  <2>1. saved.wallet = current.wallet
    BY <1>2 DEF ConnectionInv, SavedWalletIsChosen
  <2>2. saved # None => saved.wallet = chosen
    BY <1>2 DEF ConnectionInv, SavedWalletIsChosen
  <2>. QED BY <1>1, <2>1, <2>2, NoneHasNoWallet
<1>3. CASE course # "undisturbed"
  BY <1>1, <1>3, NoneHasNoWallet
<1>. QED BY <1>2, <1>3

\* Without a connection in use there is no account.
LEMMA NotInUse ==
  ASSUME ConnectionInv, ~Broken, course = "undisturbed", ~InUse(status)
  PROVE  current = None
BY DEF ConnectionInv, SavedWalletIsChosen, StatusFitsAccount

\* At first there is no connection and nothing is saved.
LEMMA ConnectionBegins == ConnectionInit => ConnectionInv
BY NoneHasNoWallet
   DEF ConnectionInit, ConnectionInv, ConnectionTyped, StatusTells, OneAsks, OneLeaves,
       RestoresTheChoice, SavedWalletIsChosen, StatusFitsAccount, InUse

\* When nothing is under way, a wallet is connected or none.
LEMMA IdleStatus ==
  ASSUME ConnectionInv, Idle
  PROVE  /\ ~leaving /\ \A r \in Restores : restoring[r] = Nothing
         /\ \A c \in Connects : asked[c] = Nothing
         /\ status \in {"connected", "disconnected"}
BY DEF Idle, NothingCalled, ConnectionInv, ConnectionTyped, StatusTells

\* Connecting forgets what was saved, or keeps it; when another call is under way nothing
\* is said of what follows.
LEMMA ConnectingKeeps ==
  ASSUME ConnectionInv, ~Broken, NEW c \in Connects, NEW w \in Wallets, NEW n,
         ConnectWallet(c, w, n)
  PROVE  ConnectionInv'
<1>. DEFINE again == status = "connected"
            call == [for |-> Account(w, n), again |-> again, present |-> FALSE]
<1>1. /\ Started /\ asked' = [asked EXCEPT ![c] = call]
      /\ status' = IF again THEN "reconnecting" ELSE "connecting"
      /\ current' = current /\ saved' = Saved(status', current)
      /\ UNCHANGED <<compatible, leaving, restoring, chosen>>
  BY DEF ConnectWallet, Become
<1>2. /\ asked' = [d \in Connects |-> asked'[d]] /\ asked'[c] = call
      /\ \A d \in Connects \ {c} : asked'[d] = asked[d]
  BY <1>1 DEF ConnectionInv, ConnectionTyped
<1>3. call.for.wallet = w /\ call.for # None /\ (call.again <=> status = "connected")
  BY NoneHasNoWallet
<1>. HIDE DEF call
<1>4. call # Nothing
  BY <1>3, NoneHasNoWallet
<1>5. ConnectionTyped' /\ StatusTells'
  BY <1>1, <1>2, <1>4 DEF ConnectionInv, ConnectionTyped, StatusTells, Started
<1>6. CASE ~Idle
  BY <1>1, <1>5, <1>6
     DEF Started, ConnectionInv, OneAsks, OneLeaves, RestoresTheChoice, SavedWalletIsChosen
<1>7. CASE Idle
  <2>1. /\ ~leaving /\ \A r \in Restores : restoring[r] = Nothing
        /\ \A d \in Connects : asked[d] = Nothing
        /\ status \in {"connected", "disconnected"}
    BY <1>7, IdleStatus
  <2>2. OneAsks'
    BY <1>1, <1>2, <1>3, <2>1 DEF OneAsks
  <2>3. OneLeaves' /\ RestoresTheChoice'
    BY <1>1, <2>1 DEF OneLeaves, RestoresTheChoice
  <2>4. ASSUME course' = "undisturbed", ~Broken'
        PROVE  /\ StatusFitsAccount' /\ (saved # None => saved.wallet = chosen)'
               /\ (InUse(status) => saved.wallet = current.wallet)'
    <3>1. course = "undisturbed"
      BY <1>1, <1>7, <2>4 DEF Started
    <3>2. saved' = current /\ current' = current
      BY <1>1, <2>1, <2>4 DEF Saved, Broken, Throws
    <3>3. CASE status = "connected"
      BY <1>1, <3>1, <3>2, <3>3, InUseIsChosen DEF StatusFitsAccount, InUse
    <3>4. CASE status = "disconnected"
      BY <1>1, <3>1, <3>2, <3>4, NotInUse DEF StatusFitsAccount, InUse
    <3>. QED BY <2>1, <3>3, <3>4
  <2>5. SavedWalletIsChosen'
    BY <2>4 DEF SavedWalletIsChosen
  <2>. QED BY <1>5, <2>2, <2>3, <2>5 DEF ConnectionInv
<1>. QED BY <1>6, <1>7

\* The answer connects the wallet that was asked and saves it, which also sets right what
\* calls that crossed had left.
LEMMA AnswerConnects ==
  ASSUME ConnectionInv, ~Broken, NEW c \in Connects, Connected(c)
  PROVE  ConnectionInv'
<1>1. /\ asked[c] # Nothing /\ asked' = [asked EXCEPT ![c] = Nothing]
      /\ chosen' = asked[c].for.wallet /\ Done
      /\ UNCHANGED <<compatible, leaving, restoring>>
  BY DEF Connected
<1>2. PICK given \in Answers : Become("connected", Selected(asked[c], given))
  BY DEF Connected
<1>3. /\ asked' = [d \in Connects |-> asked'[d]] /\ asked'[c] = Nothing
      /\ \A d \in Connects \ {c} : asked'[d] = asked[d]
      /\ status' = "connected" /\ current' = Selected(asked[c], given)
      /\ saved' = Saved("connected", current')
  BY <1>1, <1>2 DEF ConnectionInv, ConnectionTyped, Become
<1>4. ConnectionTyped' /\ StatusTells'
  BY <1>1, <1>3 DEF ConnectionInv, ConnectionTyped, StatusTells, Done
<1>5. CASE course = "disturbed"
  BY <1>1, <1>4, <1>5
     DEF Done, ConnectionInv, OneAsks, OneLeaves, RestoresTheChoice, SavedWalletIsChosen
<1>6. CASE course # "disturbed"
  <2>1. /\ status \in {"connecting", "reconnecting"}
        /\ ~leaving /\ \A r \in Restores : restoring[r] = Nothing
        /\ \A d \in Connects \ {c} : asked[d] = Nothing
    BY <1>1, <1>6 DEF ConnectionInv, OneAsks
  <2>2. OneAsks' /\ OneLeaves' /\ RestoresTheChoice'
    BY <1>1, <1>3, <2>1 DEF OneAsks, OneLeaves, RestoresTheChoice
  <2>3. ASSUME ~Broken'
        PROVE  saved' = current' /\ current' # None /\ current'.wallet = chosen'
    <3>1. current'.wallet \in compatible /\ compatible \subseteq Wallets
      BY <1>1, <1>3, <2>3 DEF Broken, Throws, InUse, ConnectionInv, ConnectionTyped
    <3>2. saved' = current'
      BY <1>3, <2>1, <3>1 DEF Saved, Throws
    <3>3. Selected(asked[c], given) # None
      BY <1>3, <3>1, NoneHasNoWallet
    <3>4. Selected(asked[c], given).wallet = asked[c].for.wallet
      BY <3>3 DEF Selected, Account
    <3>. QED BY <1>1, <1>3, <3>2, <3>3, <3>4
  <2>4. SavedWalletIsChosen'
    BY <1>3, <2>3 DEF SavedWalletIsChosen, StatusFitsAccount, InUse
  <2>. QED BY <1>4, <2>2, <2>4 DEF ConnectionInv
<1>. QED BY <1>5, <1>6

\* A refusal leaves the wallet that was connected before, if any.
LEMMA RefusalRestores ==
  ASSUME ConnectionInv, ~Broken, NEW c \in Connects, ConnectFails(c)
  PROVE  ConnectionInv'
<1>1. /\ asked[c] # Nothing /\ asked' = [asked EXCEPT ![c] = Nothing] /\ InVain
      /\ status' = IF asked[c].again THEN "connected" ELSE "disconnected"
      /\ current' = current /\ saved' = Saved(status', current)
      /\ UNCHANGED <<compatible, leaving, restoring, chosen>>
  BY DEF ConnectFails, Become
<1>2. /\ asked' = [d \in Connects |-> asked'[d]] /\ asked'[c] = Nothing
      /\ \A d \in Connects \ {c} : asked'[d] = asked[d]
  BY <1>1 DEF ConnectionInv, ConnectionTyped
<1>3. ConnectionTyped' /\ StatusTells'
  BY <1>1, <1>2 DEF ConnectionInv, ConnectionTyped, StatusTells, InVain
<1>4. CASE course # "undisturbed"
  <2>1. course' = "disturbed"
    BY <1>1, <1>4 DEF InVain, ConnectionInv, ConnectionTyped
  <2>. QED BY <1>3, <2>1
     DEF ConnectionInv, OneAsks, OneLeaves, RestoresTheChoice, SavedWalletIsChosen
<1>5. CASE course = "undisturbed"
  <2>1. /\ status = IF asked[c].again THEN "reconnecting" ELSE "connecting"
        /\ ~leaving /\ \A r \in Restores : restoring[r] = Nothing
        /\ \A d \in Connects \ {c} : asked[d] = Nothing
    BY <1>1, <1>5 DEF ConnectionInv, OneAsks
  <2>2. OneAsks' /\ OneLeaves' /\ RestoresTheChoice'
    BY <1>1, <1>2, <2>1 DEF OneAsks, OneLeaves, RestoresTheChoice
  <2>3. CASE asked[c].again
    <3>1. saved' = current
      BY <1>1, <2>1, <2>3 DEF Saved, Broken, Throws, InUse
    <3>2. current # None /\ current.wallet = chosen
      BY <1>5, <2>1, <2>3, InUseIsChosen DEF InUse
    <3>3. SavedWalletIsChosen'
      BY <1>1, <2>3, <3>1, <3>2 DEF SavedWalletIsChosen, StatusFitsAccount, InUse
    <3>. QED BY <1>3, <2>2, <3>3 DEF ConnectionInv
  <2>4. CASE ~asked[c].again
    <3>1. current = None
      BY <1>5, <2>1, <2>4, NotInUse DEF InUse
    <3>2. saved' = None
      BY <1>1, <2>1, <2>4, <3>1 DEF Saved, Throws, InUse
    <3>3. SavedWalletIsChosen'
      BY <1>1, <2>4, <3>1, <3>2 DEF SavedWalletIsChosen, StatusFitsAccount, InUse
    <3>. QED BY <1>3, <2>2, <3>3 DEF ConnectionInv
  <2>. QED BY <2>3, <2>4
<1>. QED BY <1>4, <1>5

\* A wallet is left.
LEMMA LeavingKeeps ==
  ASSUME ConnectionInv, ~Broken, DisconnectWallet \/ Disconnected
  PROVE  ConnectionInv'
<1>1. CASE DisconnectWallet
  <2>1. /\ Started /\ Associated # NoWallet
        /\ UNCHANGED <<compatible, status, current, asked, restoring, saved, chosen>>
    BY <1>1 DEF DisconnectWallet
  <2>2. ConnectionTyped' /\ StatusTells'
    BY <2>1 DEF ConnectionInv, ConnectionTyped, StatusTells, Started
  <2>3. CASE ~Idle
    BY <2>1, <2>2, <2>3
       DEF Started, ConnectionInv, OneAsks, OneLeaves, RestoresTheChoice, SavedWalletIsChosen
  <2>4. CASE Idle
    <3>1. /\ \A r \in Restores : restoring[r] = Nothing
          /\ \A d \in Connects : asked[d] = Nothing
          /\ status = "connected"
      BY <2>1, <2>4, IdleStatus DEF Associated, InUse
    <3>2. OneAsks' /\ OneLeaves' /\ RestoresTheChoice'
      BY <2>1, <3>1 DEF OneAsks, OneLeaves, RestoresTheChoice
    <3>3. course' = "undisturbed" => course = "undisturbed"
      BY <2>1, <2>4 DEF Started
    <3>4. SavedWalletIsChosen'
      BY <2>1, <3>3
         DEF ConnectionInv, SavedWalletIsChosen, StatusFitsAccount, Broken, Throws, InUse
    <3>. QED BY <2>2, <3>2, <3>4 DEF ConnectionInv
  <2>. QED BY <2>3, <2>4
<1>2. CASE Disconnected
  <2>1. /\ leaving /\ ~leaving' /\ status' = "disconnected" /\ current' = None
        /\ saved' = Saved("disconnected", None) /\ chosen' = NoWallet /\ Done
        /\ UNCHANGED <<compatible, asked, restoring>>
    BY <1>2 DEF Disconnected, Reset, Become
  <2>2. ConnectionTyped' /\ StatusTells'
    BY <2>1 DEF ConnectionInv, ConnectionTyped, StatusTells, Done
  <2>3. CASE course = "disturbed"
    BY <2>1, <2>2, <2>3
       DEF Done, ConnectionInv, OneAsks, OneLeaves, RestoresTheChoice, SavedWalletIsChosen
  <2>4. CASE course # "disturbed"
    <3>1. /\ \A r \in Restores : restoring[r] = Nothing
          /\ status = "connected" \/ (status = "disconnected" /\ saved = None)
          /\ \A d \in Connects : asked[d] = Nothing
      BY <2>1, <2>4 DEF ConnectionInv, OneAsks, OneLeaves
    <3>2. saved' = None
      BY <2>1, <3>1 DEF Saved, Throws, InUse
    <3>3. OneAsks' /\ OneLeaves' /\ RestoresTheChoice'
      BY <2>1, <3>1 DEF OneAsks, OneLeaves, RestoresTheChoice
    <3>4. SavedWalletIsChosen'
      BY <2>1, <3>2 DEF SavedWalletIsChosen, StatusFitsAccount, InUse
    <3>. QED BY <2>2, <3>3, <3>4 DEF ConnectionInv
  <2>. QED BY <2>3, <2>4
<1>. QED BY <1>1, <1>2

\* Another account of the same wallet.
LEMMA SwitchingKeeps ==
  ASSUME ConnectionInv, ~Broken, NEW n \in Accounts, SwitchAccount(n)
  PROVE  ConnectionInv'
<1>1. /\ Associated # NoWallet /\ current' = Account(Associated, n)
      /\ UNCHANGED <<compatible, status, asked, leaving, restoring, saved, chosen, course>>
  BY DEF SwitchAccount
<1>2. InUse(status) /\ Associated = current.wallet
  BY <1>1 DEF Associated
<1>3. current # None /\ current.wallet \in Wallets
  BY <1>2, InUseIsChosen
<1>4. current'.wallet = current.wallet /\ current' # None
  BY <1>1, <1>2, <1>3, NoneHasNoWallet
<1>5. ConnectionTyped' /\ StatusTells' /\ OneAsks'
  BY <1>1 DEF ConnectionInv, ConnectionTyped, StatusTells, OneAsks
<1>6. OneLeaves'
  BY <1>1, <1>2 DEF ConnectionInv, OneLeaves, InUse
<1>7. RestoresTheChoice'
  BY <1>1 DEF ConnectionInv, RestoresTheChoice
<1>8. SavedWalletIsChosen'
  BY <1>1, <1>2, <1>3, <1>4 DEF ConnectionInv, SavedWalletIsChosen, StatusFitsAccount, InUse
<1>. QED BY <1>5, <1>6, <1>7, <1>8 DEF ConnectionInv

\* A connection follows its wallet or ends with it, whatever is under way.
LEMMA FollowingKeeps ==
  ASSUME NEW cs, NEW as, Follow(cs, as), ~Broken
  PROVE  \/ UNCHANGED <<status, current, saved>>
         \/ /\ status = "connected" /\ status' = status /\ saved' = saved
            /\ current'.wallet = current.wallet /\ current' # None
         \/ /\ status = "connected" /\ status' = "disconnected"
            /\ current' = None /\ saved' = None
<1>1. CASE status # "connected"
  BY <1>1 DEF Follow
<1>2. CASE status = "connected" /\ Resolved(cs, as) = None
  BY <1>2 DEF Follow, Reset, Become, Saved, Throws, InUse
<1>3. CASE status = "connected" /\ Resolved(cs, as) # None
  <2>1. Resolved(cs, as).wallet = current.wallet
    BY <1>3 DEF Resolved, Account
  <2>2. status' = status /\ current' = Resolved(cs, as) /\ saved' = saved
    BY <1>3 DEF Follow, Become, Saved
  <2>. QED BY <1>3, <2>1, <2>2
<1>. QED BY <1>1, <1>2, <1>3

\* What an autoconnect that disturbs nothing finds is the wallet that was chosen.
LEMMA LookingKeeps ==
  ASSUME ConnectionInv, ~Broken, NEW cs, cs \subseteq Wallets, NEW as, Autoconnect(cs, as)
  PROVE  /\ restoring' = [r \in Restores |-> restoring'[r]]
         /\ course' \in {course, "disturbed"}
         /\ \/ UNCHANGED <<restoring, course>>
            \/ /\ course' = "disturbed"
            \/ /\ NothingCalled /\ course' = course
               /\ course = "undisturbed" =>
                    \A r \in Restores : restoring'[r] # Nothing =>
                                          restoring'[r].for.wallet = chosen
<1>1. restoring = [r \in Restores |-> restoring[r]]
  BY DEF ConnectionInv, ConnectionTyped
<1>2. CASE UNCHANGED <<restoring, course>>
  BY <1>1, <1>2
<1>3. ASSUME NEW found, found = FoundAccount(saved, cs, as), found # Nothing, LookFor(found)
      PROVE  /\ restoring' = [r \in Restores |-> restoring'[r]]
             /\ \/ course' = "disturbed"
                \/ /\ NothingCalled /\ course' = course
                   /\ course = "undisturbed" =>
                        \A r \in Restores : restoring'[r] # Nothing =>
                                              restoring'[r].for.wallet = chosen
  <2>1. PICK r \in Restores : restoring' = [restoring EXCEPT ![r] = found]
    BY <1>3 DEF LookFor
  <2>2. /\ restoring' = [q \in Restores |-> restoring'[q]] /\ restoring'[r] = found
        /\ \A q \in Restores \ {r} : restoring'[q] = restoring[q]
    BY <1>1, <2>1
  <2>3. course' = IF NothingCalled THEN course ELSE "disturbed"
    BY <1>3 DEF LookFor
  <2>4. saved # None /\ found.for = saved
    BY <1>3 DEF FoundAccount
  <2>5. course = "undisturbed" => found.for.wallet = chosen
    BY <2>4 DEF ConnectionInv, SavedWalletIsChosen
  <2>6. course = "undisturbed" =>
          \A q \in Restores : restoring[q] # Nothing => restoring[q].for.wallet = chosen
    BY DEF ConnectionInv, RestoresTheChoice
  <2>. QED BY <2>2, <2>3, <2>5, <2>6
<1>4. CASE ~ UNCHANGED <<restoring, course>>
  <2>1. LookFor(FoundAccount(saved, cs, as))
    BY <1>4 DEF Autoconnect
  <2>2. FoundAccount(saved, cs, as) # Nothing
    BY <1>4, <2>1 DEF LookFor
  <2>. QED BY <1>3, <2>1, <2>2
<1>. QED BY <1>2, <1>4

\* Wallets change.
LEMMA WalletsKeep == ASSUME ConnectionInv, ~Broken, WalletsChange PROVE ConnectionInv'
<1>1. PICK cs \in SUBSET Wallets, as \in UNION {[xs -> Answers] : xs \in SUBSET Wallets} :
        compatible' = cs /\ Follow(cs, as) /\ Autoconnect(cs, as)
  BY DEF WalletsChange
<1>2. UNCHANGED <<asked, leaving, chosen>>
  BY DEF WalletsChange
<1>3. \/ UNCHANGED <<status, current, saved>>
      \/ /\ status = "connected" /\ status' = status /\ saved' = saved
         /\ current'.wallet = current.wallet /\ current' # None
      \/ /\ status = "connected" /\ status' = "disconnected"
         /\ current' = None /\ saved' = None
  BY <1>1, FollowingKeeps
<1>4. /\ restoring' = [r \in Restores |-> restoring'[r]]
      /\ course' \in {course, "disturbed"}
      /\ \/ UNCHANGED <<restoring, course>>
         \/ /\ course' = "disturbed"
         \/ /\ NothingCalled /\ course' = course
            /\ course = "undisturbed" =>
                 \A r \in Restores : restoring'[r] # Nothing =>
                                       restoring'[r].for.wallet = chosen
  <2>1. cs \subseteq Wallets
    OBVIOUS
  <2>. QED BY <1>1, <2>1, LookingKeeps
<1>5. ConnectionTyped' /\ StatusTells'
  BY <1>1, <1>2, <1>3, <1>4 DEF ConnectionInv, ConnectionTyped, StatusTells
<1>6. CASE course' = "disturbed"
  BY <1>5, <1>6
     DEF ConnectionInv, OneAsks, OneLeaves, RestoresTheChoice, SavedWalletIsChosen
<1>7. CASE course' # "disturbed"
  <2>1. course' = course
    BY <1>4, <1>7
  <2>2. OneAsks'
    <3>1. \A c \in Connects : asked[c] # Nothing =>
             ~NothingCalled /\ status \in {"connecting", "reconnecting"}
      BY <1>7, <2>1 DEF NothingCalled, ConnectionInv, OneAsks
    <3>2. \A c \in Connects : asked[c] # Nothing =>
             UNCHANGED <<restoring, status>>
      BY <1>3, <1>4, <1>7, <3>1
    <3>. QED BY <1>2, <1>7, <2>1, <3>2 DEF ConnectionInv, OneAsks
  <2>3. OneLeaves'
    <3>1. leaving => ~NothingCalled
      BY DEF NothingCalled
    <3>2. leaving => UNCHANGED restoring
      BY <1>4, <1>7, <3>1
    <3>. QED BY <1>2, <1>3, <1>7, <2>1, <3>2 DEF ConnectionInv, OneLeaves
  <2>4. RestoresTheChoice'
    BY <1>2, <1>4, <1>7, <2>1 DEF ConnectionInv, RestoresTheChoice
  <2>5. SavedWalletIsChosen'
    BY <1>2, <1>3, <2>1, NoneHasNoWallet
       DEF ConnectionInv, SavedWalletIsChosen, StatusFitsAccount, InUse
  <2>. QED BY <1>5, <2>2, <2>3, <2>4, <2>5 DEF ConnectionInv
<1>. QED BY <1>6, <1>7

\* What is restored is what was saved, by this page or by the one before.
LEMMA RestoringKeeps ==
  ASSUME ConnectionInv, ~Broken, NEW r \in Restores, Restored(r)
  PROVE  ConnectionInv'
<1>1. /\ restoring[r] # Nothing /\ restoring' = [restoring EXCEPT ![r] = Nothing]
      /\ UNCHANGED <<compatible, asked, leaving, chosen, course>>
  BY DEF Restored
<1>2. /\ restoring' = [q \in Restores |-> restoring'[q]] /\ restoring'[r] = Nothing
      /\ \A q \in Restores \ {r} : restoring'[q] = restoring[q]
  BY <1>1 DEF ConnectionInv, ConnectionTyped
<1>3. Become("connected", restoring[r].for) \/ UNCHANGED <<status, current, saved>>
  BY DEF Restored
<1>4. ConnectionTyped' /\ StatusTells'
  BY <1>1, <1>2, <1>3 DEF ConnectionInv, ConnectionTyped, StatusTells, Become
<1>5. CASE course = "disturbed"
  BY <1>1, <1>4, <1>5
     DEF ConnectionInv, OneAsks, OneLeaves, RestoresTheChoice, SavedWalletIsChosen
<1>6. CASE course # "disturbed"
  <2>1. /\ \A d \in Connects : asked[d] = Nothing
        /\ ~leaving /\ status \in {"connected", "disconnected"}
    BY <1>1, <1>6 DEF ConnectionInv, OneAsks, OneLeaves, StatusTells, ConnectionTyped
  <2>2. OneAsks' /\ OneLeaves'
    BY <1>1, <2>1 DEF OneAsks, OneLeaves
  <2>3. RestoresTheChoice'
    BY <1>1, <1>2 DEF ConnectionInv, RestoresTheChoice
  <2>4. CASE UNCHANGED <<status, current, saved>>
    <3>1. SavedWalletIsChosen'
      BY <1>1, <2>4 DEF ConnectionInv, SavedWalletIsChosen, StatusFitsAccount, Broken, Throws
    <3>. QED BY <1>4, <2>2, <2>3, <3>1 DEF ConnectionInv
  <2>5. CASE Become("connected", restoring[r].for)
    <3>1. /\ status' = "connected" /\ current' = restoring[r].for
          /\ saved' = Saved("connected", current')
      BY <2>5 DEF Become
    <3>2. ASSUME course' = "undisturbed", ~Broken'
          PROVE  current' # None /\ current'.wallet = chosen /\ saved'.wallet = chosen
      <4>1. current'.wallet \in compatible /\ current'.wallet \in Wallets
        BY <1>1, <3>1, <3>2 DEF Broken, Throws, InUse, ConnectionInv, ConnectionTyped
      <4>2. current'.wallet = chosen
        BY <1>1, <3>1, <3>2 DEF ConnectionInv, RestoresTheChoice
      <4>3. saved' = IF status = "connected" THEN saved ELSE current'
        BY <3>1, <4>1 DEF Saved, Throws
      <4>4. status = "connected" => saved.wallet = current.wallet /\ current.wallet = chosen
        BY <1>1, <3>2, InUseIsChosen DEF ConnectionInv, SavedWalletIsChosen, InUse
      <4>. QED BY <4>1, <4>2, <4>3, <4>4, NoneHasNoWallet
    <3>3. SavedWalletIsChosen'
      BY <1>1, <3>1, <3>2 DEF SavedWalletIsChosen, StatusFitsAccount, InUse
    <3>. QED BY <1>4, <2>2, <2>3, <3>3 DEF ConnectionInv
  <2>. QED BY <1>3, <2>4, <2>5
<1>. QED BY <1>5, <1>6

\* A page that is loaded again has only the storage.
LEMMA ReloadingKeeps == ASSUME ConnectionInv, Reload PROVE ConnectionInv'
<1>1. /\ compatible' = {} /\ status' = "disconnected" /\ current' = None
      /\ asked' = [c \in Connects |-> Nothing] /\ ~leaving'
      /\ restoring' = [r \in Restores |-> Nothing]
      /\ course' = IF Broken \/ course = "recovering" THEN "disturbed" ELSE course
      /\ UNCHANGED <<saved, chosen>>
  BY DEF Reload
<1>2. ConnectionTyped' /\ StatusTells'
  BY <1>1 DEF ConnectionInv, ConnectionTyped, StatusTells
<1>3. OneAsks' /\ OneLeaves' /\ RestoresTheChoice'
  BY <1>1 DEF OneAsks, OneLeaves, RestoresTheChoice
<1>4. SavedWalletIsChosen'
  BY <1>1 DEF ConnectionInv, SavedWalletIsChosen, StatusFitsAccount, InUse
<1>. QED BY <1>2, <1>3, <1>4 DEF ConnectionInv

\* No step of a call, a wallet or the page disturbs what is saved.
LEMMA ConnectionKept ==
  ASSUME ConnectionInv, [ConnectionNext]_walletConnection
  PROVE  ConnectionInv'
<1>1. CASE UNCHANGED walletConnection
  BY <1>1 DEF ConnectionInv, ConnectionTyped, StatusTells, OneAsks, OneLeaves,
              RestoresTheChoice, SavedWalletIsChosen, StatusFitsAccount, Broken, Throws,
              walletConnection
<1>2. CASE Reload
  BY <1>2, ReloadingKeeps
<1>3. CASE ~Broken /\ PageNext
  <2>1. ASSUME NEW c \in Connects, NEW w \in Wallets, NEW n, ConnectWallet(c, w, n)
        PROVE  ConnectionInv'
    BY <1>3, <2>1, ConnectingKeeps
  <2>2. ASSUME NEW c \in Connects, Connected(c) \/ ConnectFails(c)
        PROVE  ConnectionInv'
    BY <1>3, <2>2, AnswerConnects, RefusalRestores
  <2>3. CASE DisconnectWallet \/ Disconnected
    BY <1>3, <2>3, LeavingKeeps
  <2>4. ASSUME NEW n \in Accounts, SwitchAccount(n)
        PROVE  ConnectionInv'
    BY <1>3, <2>4, SwitchingKeeps
  <2>5. CASE WalletsChange
    BY <1>3, <2>5, WalletsKeep
  <2>6. ASSUME NEW r \in Restores, Restored(r)
        PROVE  ConnectionInv'
    BY <1>3, <2>6, RestoringKeeps
  <2>. QED BY <1>3, <2>1, <2>2, <2>3, <2>4, <2>5, <2>6 DEF PageNext
<1>. QED BY <1>1, <1>2, <1>3 DEF ConnectionNext

\* The stores of dapp-kit-core agree, for any wallets, calls, wallet changes and reloads at
\* any time: unless calls have crossed, the storage holds the wallet the user chose last and
\* has not left, and a connection is in use just when it has an account, that of the wallet
\* that is saved (store.ts, sync-state-to-storage.ts).  When calls have crossed, the first
\* call after them that nothing crosses and that succeeds sets this right.
THEOREM ReloadsRestoreTheChoice == ConnectionSpec => []SavedWalletIsChosen
<1>1. ConnectionInit => ConnectionInv
  BY ConnectionBegins
<1>2. ConnectionInv /\ [ConnectionNext]_walletConnection => ConnectionInv'
  BY ConnectionKept
<1>3. ConnectionInv => SavedWalletIsChosen
  BY DEF ConnectionInv
<1>. QED BY <1>1, <1>2, <1>3, PTL DEF ConnectionSpec

=============================================================================
