-------------------------------- MODULE MCRetry --------------------------------
(* Retry with intervals that grow past their maximum and past the range of a *)
(* duration, one attempt, none, and no time for an attempt.                  *)
EXTENDS Retry

Config(n, least, most, jitter, timeout) ==
    [MaxRetries |-> n, MinInterval |-> least, MaxInterval |-> most,
     MaxJitter |-> jitter, Timeout |-> timeout]

MCConfigs == {Config(4, 3, 10, 2, 5), Config(6, 1, 20, 0, 5), Config(3, 5, 30, 6, 5),
              Config(2, 9, 4, 1, 0), Config(0, 1, 1, 1, 1), Config(-1, 1, 1, 0, 1)}
===============================================================================
