-------------------------- MODULE MCExternalInputs --------------------------
(***************************************************************************)
(* Two retained inputs, one of each kind: metadata fetched as JSON, and    *)
(* the Ubuntu configurations that a script fetches.                        *)
(***************************************************************************)
EXTENDS ExternalInputs

MCOrder == <<"gentoo-sources", "ubuntu-config">>
MCJson == {"gentoo-sources"}
=============================================================================
