-------------------------------- MODULE Service --------------------------------
(***************************************************************************)
(* Four mechanisms that keep state of their own beside the pipeline: the    *)
(* cached keys of authentication, the cache of page images, the schema      *)
(* migrations and the Gmail account.  They share no variable, so that one   *)
(* of them is chosen in the initial state and only that one takes steps:    *)
(* the states explored are the sum of theirs, not the product.              *)
(***************************************************************************)
EXTENDS CertCache, PageCache, Migrations, GmailAccount

VARIABLE mechanism   \* the one that takes steps

vars == <<certVars, pageVars, migrationVars, accountVars, mechanism>>

Mechanism == {"certs", "pages", "migrations", "account"}

TypeOK ==
    /\ mechanism \in Mechanism
    /\ CertTypeOK
    /\ PageTypeOK
    /\ MigrationTypeOK
    /\ AccountTypeOK

Init ==
    /\ mechanism \in Mechanism
    /\ CertInit
    /\ PageInit
    /\ MigrationInit
    /\ AccountInit
    /\ mechanism # "account" => key = 0

Next ==
    /\ UNCHANGED mechanism
    /\ \/ /\ mechanism = "certs"
          /\ CertNext
          /\ UNCHANGED <<pageVars, migrationVars, accountVars>>
       \/ /\ mechanism = "pages"
          /\ PageNext
          /\ UNCHANGED <<certVars, migrationVars, accountVars>>
       \/ /\ mechanism = "migrations"
          /\ MigrationNext
          /\ UNCHANGED <<certVars, pageVars, accountVars>>
       \/ /\ mechanism = "account"
          /\ AccountNext
          /\ UNCHANGED <<certVars, pageVars, migrationVars>>

Spec == Init /\ [][Next]_vars /\ (mechanism = "certs" => CertFairness)

-----------------------------------------------------------------------------
(* Property *)

\* The property KeysFollow of the cached keys, where it is they that take steps.
KeysSettle == mechanism = "certs" => KeysFollow
================================================================================
