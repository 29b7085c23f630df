------------------------------ MODULE Bitmasks -------------------------------
(****************************************************************************)
(* Bitmask (bitmask.go): the set of a session's component types, or of the  *)
(* types a system requires or excludes, as words of bits. The queries look  *)
(* at the first word, then skip the others when the argument has none       *)
(* there. Two masks are built bit by bit beside the sets they stand for.    *)
(*                                                                          *)
(* A word is the set of the positions at which it has a one: &, | and &^    *)
(* are \cap, \cup and \, zero is {}, and 1 << b is {b} for b < WordBits.    *)
(****************************************************************************)
EXTENDS Integers

CONSTANTS
  Words,    \* 4 in the code
  WordBits  \* 64 in the code

ASSUME WordsAssumption == Words \in Nat \ {0} /\ WordBits \in Nat \ {0}

Bits    == 0 .. Words * WordBits - 1
WordIx  == 0 .. Words - 1
Word    == SUBSET (0 .. WordBits - 1)

VARIABLES
  mask,  \* the two masks
  bitset \* the sets of IDs they stand for

maskVars == <<mask, bitset>>

MaskInit ==
  /\ mask = [m \in {"session", "system"} |-> [i \in WordIx |-> {}]]
  /\ bitset = [m \in {"session", "system"} |-> {}]

-----------------------------------------------------------------------------
At(id)  == id \div WordBits
Bit(id) == id % WordBits

SetBit(m, id)   == [m EXCEPT ![At(id)] = m[At(id)] \cup {Bit(id)}]
ClearBit(m, id) == [m EXCEPT ![At(id)] = m[At(id)] \ {Bit(id)}]
HasBit(m, id)   == Bit(id) \in m[At(id)]

(* Mutant: the fast path ends the search when the first word is empty.       *)
OnlyFirstEarly(o) == o[0] = {} \/ \A i \in WordIx \ {0} : o[i] = {}

(* The fast path: nothing is left to compare after the first word.           *)
OnlyFirst(o) == \A i \in WordIx \ {0} : o[i] = {}

ContainsAll(m, o) ==
  /\ (m[0] \cap o[0]) = o[0]
  /\ OnlyFirst(o) \/ \A i \in WordIx \ {0} : (m[i] \cap o[i]) = o[i]

ContainsAny(m, o) ==
  \/ (m[0] \cap o[0]) # {}
  \/ ~OnlyFirst(o) /\ \E i \in WordIx \ {0} : (m[i] \cap o[i]) # {}

IsZero(m)        == \A i \in WordIx : m[i] = {}
OrMask(m, o)     == [i \in WordIx |-> m[i] \cup o[i]]
AndMask(m, o)    == [i \in WordIx |-> m[i] \cap o[i]]
AndNotMask(m, o) == [i \in WordIx |-> m[i] \ o[i]]
IsDisjoint(m, o) == ~ContainsAny(m, o)

-----------------------------------------------------------------------------
SetId(k, id) ==
  /\ mask' = [mask EXCEPT ![k] = SetBit(mask[k], id)]
  /\ bitset' = [bitset EXCEPT ![k] = bitset[k] \cup {id}]

ClearId(k, id) ==
  /\ mask' = [mask EXCEPT ![k] = ClearBit(mask[k], id)]
  /\ bitset' = [bitset EXCEPT ![k] = bitset[k] \ {id}]

MaskNext == \E k \in {"session", "system"}, id \in Bits : SetId(k, id) \/ ClearId(k, id)

MaskSpec == MaskInit /\ [][MaskNext]_maskVars

-----------------------------------------------------------------------------
(* Properties.                                                               *)

BitsOf(m) == {id \in Bits : HasBit(m, id)}

(* Masks and queries are those of sets, whichever words the bits are in:     *)
(* what canRun lets through has every required and no excluded component.    *)
MasksAreSets ==
  LET m == mask["session"]
      o == mask["system"]
      s == bitset["session"]
      t == bitset["system"]
  IN
  /\ BitsOf(m) = s /\ BitsOf(o) = t
  /\ ContainsAll(m, o) <=> t \subseteq s
  /\ ContainsAny(m, o) <=> s \cap t # {}
  /\ IsZero(m) <=> s = {}
  /\ IsDisjoint(m, o) <=> s \cap t = {}
  /\ BitsOf(OrMask(m, o)) = s \cup t /\ BitsOf(AndMask(m, o)) = s \cap t
  /\ BitsOf(AndNotMask(m, o)) = s \ t

=============================================================================
