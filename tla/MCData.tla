------------------------------- MODULE MCData -------------------------------
(***************************************************************************)
(* The data of the server for TLC: one value on its way through statement  *)
(* and row (Codec), or sessions at the tables (Accounts), which have of a  *)
(* name what Codec says becomes of it, or objects of one SET or ENUM       *)
(* column (Columns).                                                       *)
(***************************************************************************)
EXTENDS Codec, Accounts, Columns

\* "n", "o", and "n" with a character 0, which the tables take for "n".
Names == {<<110>>, <<111>>, <<0, 110>>}
Passwords == {<<39>>, <<92, 0>>}
StoredText == [s \in Names \cup Passwords |-> Literal(SafeStr(s)).value]

\* IDs of four bytes of two bits each: 0, and 66 = 1 0 0 2, whose first byte is 1,
\* and 129 = 2 0 0 1, the same in the other byte order, which is no positive int.
SomeIds == {0, 66, 129}
Swap == (0 :> 0) @@ (66 :> 129) @@ (129 :> 66)
TopByte == [i \in SomeIds |-> i \div 64]

Alike == Permutations(Conn) \cup Permutations(Obj)

\* A SET of two names, and an ENUM of two, 1 and 3, whose numbers share a bit;
\* 0 and 2 have no name.
NameBits == [red |-> {0}, blue |-> {1}]
NameNumbers == [red |-> {0}, blue |-> {0, 1}]

NoValue ==
    /\ kind = "none" /\ given = <<>> /\ base = 10
    /\ text = <<>> /\ column = NULL /\ got = 0 /\ step = "given"

NoColumn ==
    /\ type = "none" /\ m_mmap = <<>> /\ m_value = <<>> /\ m_vmap = <<>>
    /\ members = <<>> /\ unnamed = {}

DataInit ==
    /\ Init
    /\ \/ NoValue /\ NoColumn
       \/ ValueInit /\ NoColumn
       \/ NoValue /\ ColumnInit

DataNext ==
    \/ kind # "none" /\ ValueNext /\ UNCHANGED <<vars, columnVars>>
    \/ ColumnNext /\ UNCHANGED <<vars, valueVars>>
    \/ kind = "none" /\ type = "none" /\ Next /\ UNCHANGED <<valueVars, columnVars>>

DataSpec == DataInit /\ [][DataNext]_<<vars, valueVars, columnVars>>
=============================================================================
