------------------------------- MODULE Tokens -------------------------------
(***************************************************************************)
(* The JWT manager of pkg/auth/jwt.go.                                     *)
(*                                                                         *)
(* A token is the value of its claims.  The signature is deterministic     *)
(* (HS256 over the claims, no token id), and the two time claims are       *)
(* written in whole seconds, so two tokens with equal claims are the same  *)
(* string: the model gets that for free by letting a token BE its claims.  *)
(*                                                                         *)
(* Time is the integer part of the clock, in the unit of the claims.       *)
(* iat is left out: it is exp minus the lifetime of the token's type.      *)
(* The e-mail claim is left out: no operation changes a user's e-mail.     *)
(***************************************************************************)
EXTENDS Naturals

CONSTANTS
    Users,       \* user ids
    Roles,       \* values of users.role
    AccessTTL,   \* lifetime of an access token  (JWT_EXPIRATION_HOURS)
    RefreshTTL   \* lifetime of a refresh token  (JWT_REFRESH_EXPIRATION_HOURS)

ASSUME TTLAssumption == AccessTTL \in Nat /\ RefreshTTL \in Nat

TokenType == {"access", "refresh"}

Claims == [type : TokenType, sub : Users, role : Roles, exp : Nat]

generateToken(userID, role, type, ttl, now) ==
    [type |-> type, sub |-> userID, role |-> role, exp |-> now + ttl]

\* The four clock readings of one pair are taken to fall in one second.
GenerateTokenPair(userID, role, now) ==
    {generateToken(userID, role, "access", AccessTTL, now),
     generateToken(userID, role, "refresh", RefreshTTL, now)}

\* Every presented token carries our signature (clients present what they were
\* handed), so validation is what is left: type and expiry.
ValidateToken(token, expectedType, now) ==
    /\ now < token.exp
    /\ token.type = expectedType
=============================================================================
