------------------------------- MODULE Scope -------------------------------
(***************************************************************************)
(* The symbol tables of scope.h/scope.cc: a stack of environments, each a  *)
(* table from names to object symbols (variables, functions, typedefs).    *)
(*                                                                         *)
(* The code keeps an `Env` per scope in `envs`; a table is modelled as a   *)
(* total function whose value is NoSymbol where the StringMap has no entry.*)
(* A symbol is reduced to what the lookups tell apart: what it declares,   *)
(* which declaration made it (0 for functions, which all declarations of a *)
(* name share), and, for a function, CFuncType::hasBody.  SymbolKind::kobj *)
(* is split in "var" and "func" because SemaFuncDecl tests the symbol's    *)
(* type kind against TY_Func.                                              *)
(***************************************************************************)
EXTENDS SequencesExt

CONSTANT Names     \* the identifiers of the program

NoSymbol == [kind |-> "none", decl |-> 0, body |-> FALSE]

Symbol == [kind : {"var", "func", "typedef"}, decl : Nat, body : BOOLEAN]

Table == [Names -> Symbol \cup {NoSymbol}]

EmptyTable == [n \in Names |-> NoSymbol]

\* StringMap::insert: an entry that is already there is kept.
Insert(table, n, s) ==
    IF table[n] = NoSymbol THEN [table EXCEPT ![n] = s] ELSE table

EnterScope(envs) == Append(envs, EmptyTable)

ExitScope(envs) == Front(envs)

FindObjSymbolInCurEnv(envs, n) == Last(envs)[n]

AddObjSymbol(envs, n, s) ==
    [envs EXCEPT ![Len(envs)] = Insert(@, n, s)]

\* The environments that hold an entry for n.
EnvsWith(envs, n) == {i \in DOMAIN envs : envs[i][n] # NoSymbol}

\* From the innermost environment outwards, the first entry found.
FindObjSymbol(envs, n) ==
    LET hits == EnvsWith(envs, n)
    IN  IF hits = {} THEN NoSymbol ELSE envs[Max(hits)][n]

=============================================================================
