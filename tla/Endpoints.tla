------------------------------ MODULE Endpoints ------------------------------
(***************************************************************************)
(* endpoints.yaml: which files load, and which endpoint a call without or  *)
(* with an alias is routed to (Python).                                    *)
(*                                                                         *)
(* A file is its schema version, its endpoints by alias, and its default.  *)
(* Of an endpoint the checks tell apart the role, the URL's scheme and     *)
(* whether it names a host; paths and aliases are taken as well-formed.  A *)
(* missing file counts as one of the right version with no endpoints.      *)
(***************************************************************************)
EXTENDS FiniteSets, Naturals

CONSTANTS Aliases,       \* endpoint names
          NoAlias,       \* no alias given, or no default
          SchemaVersion, \* CLIENT_ENDPOINT_SCHEMA_VERSION
          MaxCosigners   \* most cosigner endpoints a file may have (12)

ASSUME NoAliasAssumption == NoAlias \notin Aliases

WithRole(file, role) ==
  {a \in DOMAIN file.endpoints : file.endpoints[a].role = role}

(* _normalize_client_endpoint: an SSH URL with a host, in one of two roles. *)
EndpointValid(e) ==
  /\ e.role \in {"signer", "cosigner"}
  /\ e.scheme = "ssh"
  /\ e.host

(* Bug: the default is taken as the file has it. *)
LoadsUnchecked(file) ==
  /\ file.version = SchemaVersion
  /\ \A a \in DOMAIN file.endpoints : EndpointValid(file.endpoints[a])
  /\ Cardinality(WithRole(file, "cosigner")) <= MaxCosigners
  /\ Cardinality(WithRole(file, "signer")) <= 1

(* load_client_endpoint_registry: the file is refused as a whole. *)
Loads(file) ==
  /\ file.version = SchemaVersion
  /\ \A a \in DOMAIN file.endpoints : EndpointValid(file.endpoints[a])
  /\ Cardinality(WithRole(file, "cosigner")) <= MaxCosigners
  /\ Cardinality(WithRole(file, "signer")) <= 1
  /\ file.default # NoAlias => file.default \in WithRole(file, "signer")

(* The default is filled in with the one signer, if the file has one. *)
DefaultOf(file) ==
  IF file.default = NoAlias /\ WithRole(file, "signer") # {}
  THEN CHOOSE a \in Aliases : a \in WithRole(file, "signer")
  ELSE file.default

(* resolve_client_endpoint: the alias asked for, or the default. *)
Selected(file, alias) == IF alias = NoAlias THEN DefaultOf(file) ELSE alias

Resolves(file, alias) ==
  Loads(file) /\ Selected(file, alias) \in DOMAIN file.endpoints
=============================================================================
