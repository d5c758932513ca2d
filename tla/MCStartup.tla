----------------------------- MODULE MCStartup ------------------------------
(* Instances of Startup for TLC.                                           *)
EXTENDS Startup

(* An older file may come late, and the newer one be edited; three files   *)
(* are one too many, with two of one version among them.                   *)
Drafts == {[version |-> 1, content |-> "a"], [version |-> 2, content |-> "a"],
           [version |-> 2, content |-> "b"]}
=============================================================================
