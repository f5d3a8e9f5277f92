-------------------------- MODULE MCRegistrarBlocking --------------------------
EXTENDS RegistrarBlocking, TLC

CONSTANTS r1, r2, admin, cron

MCRegistrars == {r1, r2}
MCOneRegistrar == {r1}
MCCallers == {admin, cron}
=============================================================================
