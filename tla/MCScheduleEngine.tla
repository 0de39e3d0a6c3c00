--------------------------- MODULE MCScheduleEngine ---------------------------
\* A prompt that fires once and one that recurs, due together when the
\* first timer is late.
EXTENDS ScheduleEngine

CONSTANTS once, daily

MCStartAt == once :> 1 @@ daily :> 0
MCMaxExecutions == once :> 1 @@ daily :> Unlimited
=============================================================================
