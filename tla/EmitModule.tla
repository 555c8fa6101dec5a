----------------------------- MODULE EmitModule -----------------------------
(***************************************************************************)
(* emit_module of emit.rs writes one analyzed module: the type blocks      *)
(* first (TypeBlocks), then functions and constants (Definitions).         *)
(***************************************************************************)
EXTENDS Integers, Sequences, SequencesExt

CONSTANTS Types, Names, Main

VARIABLES deps, single, javaLang, claimed, current, fields, target, seen, stack, calls, preds, forward,
          constants, public, overridden, walked, unwalked, suppressMain, groups,
          reachable, frontier, g, k, forms,
          typePhase, defPhase

typeVars == <<deps, single, javaLang, claimed, current, fields, target, seen, stack, calls, preds, forward, typePhase>>
defVars == <<constants, public, overridden, walked, unwalked, suppressMain, groups,
             reachable, frontier, g, k, forms, defPhase>>
vars == <<typeVars, defVars>>

T == INSTANCE TypeBlocks WITH phase <- typePhase
D == INSTANCE Definitions WITH phase <- defPhase

ASSUME EmitAssumption == T!TypesAssumption /\ D!MainAssumption

Init == T!Init /\ D!Init

EmitTypes == T!Step /\ UNCHANGED defVars
EmitDefinitions == typePhase = "done" /\ D!Step /\ UNCHANGED typeVars
Written == typePhase = "done" /\ defPhase = "done"

Next == EmitTypes \/ EmitDefinitions \/ (Written /\ UNCHANGED vars)
Spec == Init /\ [][Next]_vars /\ WF_vars(EmitTypes \/ EmitDefinitions)
-----------------------------------------------------------------------------
(* Each half's variables stay in the ranges emit_module's locals have.     *)
TypeOK == T!TypeOK /\ D!TypeOK

(* emit_module ends: local_cycle visits a type once, reachability a name.  *)
Terminates == <>Written

(* Composing the schemas of a type's fields never comes back to the type.  *)
SchemaBuildEnds == T!SchemaBuildEnds
(* Only a field on such a cycle is reduced to its type's predicate.        *)
CutsOnlyCycles == T!CutsOnlyCycles
(* Type blocks refer only to what is above them or declared ahead.         *)
NamesResolve == T!NamesResolve

(* A definition refers only to names declared or defined above it.         *)
ResolvesInOrder == D!ResolvesInOrder
(* The functions a constant holds are defined when it is evaluated.        *)
ConstantsHoldFunctions == D!ConstantsHoldFunctions
(* Public functions and constants are each emitted exactly once.           *)
InterfaceEmitted == D!InterfaceEmitted
(* Dropped private functions are referred to by nothing that is emitted.   *)
DroppedIsDead == D!DroppedIsDead
=============================================================================
