------------------------------ MODULE Columns ------------------------------
(***************************************************************************)
(* The library's classes for SET and ENUM columns (set_t, enum_t): objects *)
(* that share their column's map from names to numbers by reference.  Each *)
(* of them may put names into it: operator[] inserts what it does not find *)
(* with the number 0, and the program may define names when objects exist. *)
(* Numbers are sets of bits, no more than the 16 that an enum_t has; a     *)
(* text is the set of the names in it, where NoName is the empty one.      *)
(***************************************************************************)
EXTENDS Naturals, FiniteSets

CONSTANTS Obj,         \* objects of one column
          SetBits,     \* names and numbers that the program defines for a SET,
          EnumNumbers, \* and those that it defines for an ENUM
          Unknown,     \* other names that are asked for
          NoName,
          Bits         \* of a number

ColumnNames == DOMAIN SetBits \cup DOMAIN EnumNumbers \cup Unknown \cup {NoName}
Numbers == SUBSET Bits

\* The names of a SET have bits of their own; those of an ENUM are numbered.
ASSUME ColumnsAssumption ==
    /\ IsFiniteSet(ColumnNames)
    /\ NoName \notin DOMAIN SetBits \cup DOMAIN EnumNumbers
    /\ \A n \in DOMAIN SetBits : SetBits[n] \in Numbers \ {{}}
    /\ \A m, n \in DOMAIN SetBits : m # n => SetBits[m] \cap SetBits[n] = {}
    /\ \A n \in DOMAIN EnumNumbers : EnumNumbers[n] \in Numbers \ {{}}
    /\ \A m, n \in DOMAIN EnumNumbers : m # n => EnumNumbers[m] # EnumNumbers[n]

VARIABLES
    type,    \* "set" or "enum", or "none" if there is no column
    m_mmap,  \* the column's map
    m_value, \* each object's number
    m_vmap,  \* an enum_t's map from numbers to names
    members, \* the defined names that an object was given
    unnamed  \* enum_t objects that were asked for the name of a number without one

\* What the program defines for the column there is.
Defined == IF type = "set" THEN SetBits ELSE EnumNumbers

columnVars == <<type, m_mmap, m_value, m_vmap, members, unnamed>>

\* m_mmap[n], and the map after it.
At(n) == IF n \in DOMAIN m_mmap THEN m_mmap[n] ELSE {}
Touch(ns) == m_mmap' = [n \in DOMAIN m_mmap \cup ns |-> At(n)]

Mask(ns) == UNION {At(n) : n \in ns}

\* The constructor of enum_t turns the map round.
TurnedOver == [v \in {m_mmap[n] : n \in DOMAIN m_mmap} |->
                  CHOOSE n \in DOMAIN m_mmap : m_mmap[n] = v]

\* The program has defined some names when the objects are made.
ColumnInit ==
    /\ type \in {"set", "enum"}
    /\ \E ns \in SUBSET DOMAIN Defined : m_mmap = [n \in ns |-> Defined[n]]
    /\ m_value = [o \in Obj |-> {}]
    /\ m_vmap = [o \in Obj |-> IF type = "set" THEN <<>> ELSE TurnedOver]
    /\ members = [o \in Obj |-> {}]
    /\ unnamed = {}

\* It defines no name that was asked for before: enum_t would not notice.
Define(n) ==
    /\ type # "none" /\ n \notin DOMAIN m_mmap
    /\ m_mmap' = [k \in DOMAIN m_mmap \cup {n} |-> IF k = n THEN Defined[n] ELSE m_mmap[k]]
    /\ UNCHANGED <<type, m_value, m_vmap, members, unnamed>>

-----------------------------------------------------------------------------
(* set_t.                                                                  *)

Becomes(o, v) == m_value' = [m_value EXCEPT ![o] = v]
Has(o, ns) == members' = [members EXCEPT ![o] = ns]
Known(ns) == {n \in ns : At(n) # {}}

\* Mutant: the old value stays.
AssignKeeps(o, ns) == Becomes(o, m_value[o] \cup Mask(ns))

Assign(o, ns) == Becomes(o, Mask(ns))

SetText(o, ns) ==
    /\ type = "set"
    /\ \/ Assign(o, ns) /\ Has(o, Known(ns))
       \/ Becomes(o, m_value[o] \cup Mask(ns)) /\ Has(o, members[o] \cup Known(ns))
       \/ Becomes(o, m_value[o] \ Mask(ns)) /\ Has(o, members[o] \ Known(ns))
    /\ Touch(ns)
    /\ UNCHANGED <<type, m_vmap, unnamed>>

\* The operators with numbers; bits are of defined names.
SetNumber(o, ns) ==
    /\ type = "set" /\ ns \subseteq Known(ColumnNames)
    /\ \/ Becomes(o, Mask(ns)) /\ Has(o, ns)
       \/ Becomes(o, m_value[o] \cup Mask(ns)) /\ Has(o, members[o] \cup ns)
       \/ Becomes(o, m_value[o] \cap Mask(ns)) /\ Has(o, members[o] \cap ns)
    /\ UNCHANGED <<type, m_mmap, m_vmap, unnamed>>

InSetOf(o, n) == m_value[o] \cap At(n) # {}

InSet(n) ==
    /\ type = "set"
    /\ Touch({n})
    /\ UNCHANGED <<type, m_value, m_vmap, members, unnamed>>

SetString(o) == {n \in DOMAIN m_mmap : m_value[o] \cap m_mmap[n] # {}}

-----------------------------------------------------------------------------
(* enum_t.                                                                 *)

EnumName(o, n) ==
    /\ type = "enum"
    /\ Touch({n})
    /\ Becomes(o, At(n)) /\ Has(o, Known({n}))
    /\ UNCHANGED <<type, m_vmap, unnamed>>

EnumNumber(o, v) ==
    /\ type = "enum"
    /\ Becomes(o, v) /\ Has(o, {n \in Known(ColumnNames) : At(n) = v})
    /\ UNCHANGED <<type, m_mmap, m_vmap, unnamed>>

\* Mutant: the names are looked up once.
RenewedOnce(o) == IF m_vmap[o] = <<>> THEN TurnedOver ELSE m_vmap[o]

\* The map is made anew, over the old one, if it is not as large as the column's.
Renewed(o) ==
    IF Cardinality(DOMAIN m_vmap[o]) = Cardinality(DOMAIN m_mmap) THEN m_vmap[o]
    ELSE [v \in DOMAIN m_vmap[o] \cup DOMAIN TurnedOver |->
             IF v \in DOMAIN TurnedOver THEN TurnedOver[v] ELSE m_vmap[o][v]]

EnumString(o) ==
    IF m_value[o] \in DOMAIN Renewed(o) THEN Renewed(o)[m_value[o]] ELSE NoName

\* A number without a name gets the empty one in the object's map.
String(o) ==
    /\ type = "enum"
    /\ m_vmap' = [m_vmap EXCEPT ![o] =
                     [v \in DOMAIN Renewed(o) \cup {m_value[o]} |->
                         IF v = m_value[o] THEN EnumString(o) ELSE Renewed(o)[v]]]
    /\ unnamed' = IF m_value[o] \in DOMAIN Renewed(o) THEN unnamed ELSE unnamed \cup {o}
    /\ UNCHANGED <<type, m_mmap, m_value, members>>

ColumnNext ==
    \/ \E n \in DOMAIN Defined : Define(n)
    \/ \E n \in ColumnNames : InSet(n)
    \/ \E o \in Obj :
          \/ \E ns \in SUBSET ColumnNames : (ns # {} /\ SetText(o, ns)) \/ SetNumber(o, ns)
          \/ \E n \in ColumnNames : EnumName(o, n)
          \/ \E v \in Numbers : EnumNumber(o, v)
          \/ String(o)

ColumnSpec == ColumnInit /\ [][ColumnNext]_columnVars

-----------------------------------------------------------------------------
\* A SET has the names that it was given, as its text and as in_set says, whatever
\* names came into the map by other objects' ways (set_t.cpp:32-135).
SetKept ==
    type = "set" => \A o \in Obj :
        SetString(o) = members[o] /\ {n \in ColumnNames : InSetOf(o, n)} = members[o]

\* An ENUM that was given a name says that name, although names may have come into
\* the shared map since its own was made; unless it was asked before for the name of
\* a number without one, which makes its map larger than it is up to date
\* (enum_t.cpp:27-63).
EnumKept ==
    type = "enum" => \A o \in Obj \ unnamed : \A n \in members[o] : EnumString(o) = n
=============================================================================
