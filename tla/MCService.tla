----------------------------- MODULE MCService ------------------------------
(***************************************************************************)
(* The request side of the service for model checking: a behaviour is one  *)
(* request through the API, or visitors of the public catalog, or requests *)
(* that create a class under one key.  The three share no state, so a      *)
(* behaviour holds one of them and the state spaces add up.                *)
(***************************************************************************)
EXTENDS Api, Catalog, ClassCreation

\* Claims of every kind: complete, without role and member, of a parent with
\* and without a tenant, malformed, missing, and the token of a service.
MCCallers ==
    {NoClaims,
     Claims("jwt", FALSE, "S", "", FALSE), Claims("jwt", FALSE, "S", "A", TRUE),
     Claims("jwt", FALSE, "S", "A", FALSE), Claims("jwt", FALSE, "bad", "bad", TRUE),
     Claims("jwt", TRUE, "P", "", FALSE), Claims("jwt", TRUE, "bad", "", FALSE),
     Claims("jwt", TRUE, "P", "A", TRUE), Claims("internal", FALSE, "", "", FALSE)}

\* One fact at a time, or none.
OneFact == {{}} \cup {{f} : f \in Facts}

VARIABLE subject

allVars == <<subject, vars, catalogVars, creationVars>>

MCInit ==
    /\ subject \in {"endpoint", "catalog", "creation"}
    /\ Init
    /\ CatalogInit /\ (subject # "catalog" => policy.open /\ snapshot.known)
    /\ CreationInit

MCNext ==
    \/ subject = "endpoint" /\ Next /\ UNCHANGED <<subject, catalogVars, creationVars>>
    \/ subject = "catalog" /\ CatalogNext /\ UNCHANGED <<subject, vars, creationVars>>
    \/ subject = "creation" /\ CreationNext /\ UNCHANGED <<subject, vars, catalogVars>>

Spec == MCInit /\ [][MCNext]_allVars /\ CatalogFairness /\ CreationFairness

-----------------------------------------------------------------------------
\* Every visitor of the public catalog and every creation under a key is answered,
\* whoever fails while holding the catalog's mutex or the key that others wait for,
\* and unless the process dies (catalog_policy.go:61, class_creation_store.go:27).
\* The requests of the endpoints are not meant: nothing makes them wait.
RequestsAnswered == VisitorsAnswered /\ CreationsEnd

=============================================================================
