-------------------------- MODULE MCReviewPipeline --------------------------
(***************************************************************************)
(* ReviewPipeline on small instances: how often each kind of outside event *)
(* happens is a constant of the configuration.                             *)
(***************************************************************************)
EXTENDS ReviewPipeline

CONSTANTS PushLimit, JobLimit, CliLimit, FailLimit, DeathLimit, ResendLimit,
          PostLimit, DeleteLimit

MCLimit == [push |-> PushLimit, job |-> JobLimit, cli |-> CliLimit,
            fail |-> FailLimit, death |-> DeathLimit, resend |-> ResendLimit,
            post |-> PostLimit, delete |-> DeleteLimit]
=============================================================================
