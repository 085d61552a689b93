-------------------------- MODULE ScreenLockCommon --------------------------
(* The numbers of screenlock_common.h that travel between the processes.     *)
(* A bool travels as 0 or 1.                                                 *)
EXTENDS Integers

\* ErrCodeOffset of the subsystem: any number above the other codes; what
\* counts is that it is not 0, which an empty reply reads as.
SCREENLOCK_ERR_OFFSET == 1000

E_SCREENLOCK ==
  [OK                 |-> SCREENLOCK_ERR_OFFSET,
   READ_PARCEL_ERROR  |-> SCREENLOCK_ERR_OFFSET + 2,
   WRITE_PARCEL_ERROR |-> SCREENLOCK_ERR_OFFSET + 3,
   PARAMETERS_INVALID |-> SCREENLOCK_ERR_OFFSET + 7,
   NO_PERMISSION      |-> SCREENLOCK_ERR_OFFSET + 10,
   NULLPTR            |-> SCREENLOCK_ERR_OFFSET + 11,
   SENDREQUEST_FAILED |-> SCREENLOCK_ERR_OFFSET + 12,
   NOT_SYSTEM_APP     |-> SCREENLOCK_ERR_OFFSET + 13,
   NOT_FOCUS_APP      |-> SCREENLOCK_ERR_OFFSET + 14,
   USER_ID_INVALID    |-> SCREENLOCK_ERR_OFFSET + 15]

SCREEN == [SUCC |-> 0, FAIL |-> 1, CANCEL |-> 2, EARLY_SUCCESS |-> 3, ALREADY_UNLOCKED |-> 4]

JsErrorCode ==
  [NO_PERMISSION |-> 201, NOT_SYSTEM_APP |-> 202, INVALID_PARAMS |-> 401,
   SERVICE_ABNORMAL |-> 13200002, ILLEGAL_USE |-> 13200003, USER_ID_INVALID |-> 13200004]

USER_NULL == -10000

Bit(b) == IF b THEN 1 ELSE 0
=============================================================================
