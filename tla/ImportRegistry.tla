--------------------------- MODULE ImportRegistry ---------------------------
(***************************************************************************)
(* What the registry of BIRD imports (ModuleService.imports with its       *)
(* importsMu) promises, without goroutines, streams or setup steps.        *)
(*                                                                         *)
(* An import h is installed once, for its key keyOf[h], and becomes the    *)
(* key's entry; installing it releases (cancels and closes) the import it  *)
(* replaces in the same atomic step.  An installed import may also release *)
(* itself at any time (its loop returns).  A release is never undone.      *)
(***************************************************************************)

EXTENDS TLAPS

CONSTANTS
    Keys,       \* instance keys
    Holders,    \* imports
    NoHolder    \* "no entry"

VARIABLES
    entry,      \* key -> the import the registry holds for it
    keyOf,      \* the key each import was set up for
    installed,  \* imports ever installed
    released    \* installed imports whose context and connection are gone

avars == <<entry, keyOf, installed, released>>

Init ==
    /\ entry = [k \in Keys |-> NoHolder]
    /\ keyOf \in [Holders -> Keys]
    /\ installed = {}
    /\ released = {}

(* Install h: it replaces the key's entry, which is released at once.      *)
InstallImport(h) ==
    LET k == keyOf[h] IN
    /\ h \notin installed
    /\ entry' = [entry EXCEPT ![k] = h]
    /\ installed' = installed \cup {h}
    /\ released' = released \cup ({entry[k]} \ {NoHolder})
    /\ UNCHANGED keyOf

(* An installed import stops by itself and releases its resources.         *)
ReleaseImport(h) ==
    /\ h \in installed \ released
    /\ released' = released \cup {h}
    /\ UNCHANGED <<entry, keyOf, installed>>

Next == \E h \in Holders : InstallImport(h) \/ ReleaseImport(h)

Spec == Init /\ [][Next]_avars

-----------------------------------------------------------------------------
(* The registry's guarantee: every installed import that is still live     *)
(* (not released) is the entry of its key, so no key ever has two live     *)
(* imports feeding the RIB at once.                                        *)
LiveImportIsEntry ==
    \A h \in installed \ released : entry[keyOf[h]] = h

-----------------------------------------------------------------------------
(* The shapes of the registry's state; an entry is an installed import.  *)
RegistryTypeOK ==
    /\ entry \in [Keys -> installed \cup {NoHolder}]
    /\ keyOf \in [Holders -> Keys]
    /\ installed \subseteq Holders
    /\ released \subseteq installed

RegistryInv == RegistryTypeOK /\ LiveImportIsEntry

(* For any sets of keys and imports with "no entry" not an import: every   *)
(* behaviour of the registry keeps each live import the entry of its key.  *)
(* The invariant is inductive once conjoined with the shape of the state:  *)
(* an install releases exactly the import that was the key's entry, which  *)
(* by the invariant is the only live import of that key.                   *)
THEOREM LiveImportIsEntryHolds ==
    ASSUME NoHolder \notin Holders
    PROVE  Spec => []LiveImportIsEntry
<1>1. Init => RegistryInv
  BY DEF Init, RegistryInv, RegistryTypeOK, LiveImportIsEntry
<1>2. RegistryInv /\ [Next]_avars => RegistryInv'
  <2> SUFFICES ASSUME RegistryInv, [Next]_avars PROVE RegistryInv'
    OBVIOUS
  <2> USE DEF RegistryInv, RegistryTypeOK, LiveImportIsEntry
  <2>1. ASSUME NEW h \in Holders, InstallImport(h) PROVE RegistryInv'
    <3> DEFINE k == keyOf[h]
    <3>1. k \in Keys
      OBVIOUS
    <3>2. RegistryTypeOK'
      BY <2>1, <3>1 DEF InstallImport
    <3>3. ASSUME NEW g \in installed' \ released' PROVE entry'[keyOf'[g]] = g
      <4>1. CASE g = h
        BY <2>1, <3>1, <4>1 DEF InstallImport
      <4>2. CASE g # h
        <5>1. g \in installed \ released /\ keyOf'[g] = keyOf[g]
          BY <2>1, <4>2 DEF InstallImport
        <5>2. entry[keyOf[g]] = g
          BY <5>1
        <5>3. keyOf[g] # k
          BY <2>1, <5>1, <5>2 DEF InstallImport
        <5>4. QED
          BY <2>1, <5>1, <5>2, <5>3 DEF InstallImport
      <4>3. QED
        BY <4>1, <4>2
    <3>4. QED
      BY <3>2, <3>3
  <2>2. ASSUME NEW h \in Holders, ReleaseImport(h) PROVE RegistryInv'
    BY <2>2 DEF ReleaseImport
  <2>3. CASE UNCHANGED avars
    BY <2>3 DEF avars
  <2>4. QED
    BY <2>1, <2>2, <2>3 DEF Next
<1>3. RegistryInv => LiveImportIsEntry
  BY DEF RegistryInv
<1>4. QED
  BY <1>1, <1>2, <1>3, PTL DEF Spec

=============================================================================
