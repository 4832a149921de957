------------------------------ MODULE MCWorkflow ------------------------------
EXTENDS Workflow
=============================================================================
