------------------------------ MODULE MCHubEntry ------------------------------
(* An outlet, fetched twice by discovery, and a controller.                *)
EXTENDS HubEntry

MCPlugRemote == [plug |-> "outlet", remote |-> "controller"]
=============================================================================
