---------------------------- MODULE MCProvision ----------------------------
\* Provision with the bounds of its configurations
EXTENDS Provision

=============================================================================
