------------------------------ MODULE MCWorkflow ------------------------------
EXTENDS Workflow

(* Every escalation may be in force.                                        *)
MCInForce == Escalations
=============================================================================
