------------------------------ MODULE MCEvents ------------------------------
(* Every event and every class that is both written and read.              *)
EXTENDS Payloads

MCNames == DOMAIN Event
MCCopied == DOMAIN Class \ {"guild", "guild_member", "presence"}
=============================================================================
