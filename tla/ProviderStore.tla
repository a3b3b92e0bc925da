--------------------------- MODULE ProviderStore ---------------------------
(***************************************************************************)
(* What the providers keep, for those who read it and those who write it:  *)
(* items with fields.                                                      *)
(***************************************************************************)
CONSTANTS
    Name,         \* items in the store
    Field,        \* fields of an item, Main among them
    Main,         \* the field a reference stands for when it names none
    Value,        \* texts of secrets
    None          \* no text

ASSUME ProviderStoreAssumption == Main \in Field /\ None \notin Value
=============================================================================
