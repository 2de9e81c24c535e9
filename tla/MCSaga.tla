------------------------------- MODULE MCSaga -------------------------------
EXTENDS SagaLoop
=============================================================================
