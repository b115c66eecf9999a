------------------------------ MODULE Validation ------------------------------
(***************************************************************************)
(* The DTOs of the routes with a body, as ValidationPipe with              *)
(* transform: true applies them: class-transformer first, on the           *)
(* properties the body has, then the validators.                           *)
(*                                                                         *)
(* A text is its length and what it is: an e-mail in lower case, one with  *)
(* capitals, or no e-mail (two of these, so that texts of a length may     *)
(* differ).  A body is an object; the library validates no bare array.     *)
(***************************************************************************)
EXTENDS Naturals, FiniteSets

CONSTANTS
  TokenLength,   \* RandomGenerator.DEFAULT_TOKEN_LENGTH
  IdLength       \* RandomGenerator.DEFAULT_ID_LENGTH

ASSUME LengthsAreEven ==
  /\ TokenLength \in Nat \ {0} /\ TokenLength % 2 = 0
  /\ IdLength \in Nat

Text(is, length) == [is |-> is, length |-> length]
Texts == [is : {"email", "Email", "word", "other word"}, length : Nat]

\* Values that are no text: not in the body, true, or anything else of JSON.
Absent == [is |-> "absent", length |-> 0]
True == [is |-> "true", length |-> 0]
False == [is |-> "false", length |-> 0]
Odd == [is |-> "odd", length |-> 0]

IsText(value) == value.is \in {"email", "Email", "word", "other word"}

\* The rule of each property of each DTO, and the DTO of each handler.
LoginRequestDto == [email |-> "email", password |-> "text"]

RegisterRequestDto ==
  [email |-> "email", firstName |-> "text", lastName |-> "text",
   password |-> "text", confirmPassword |-> "match",
   isAcceptTermsAndConditions |-> "terms"]

ConfirmRegisterRequestDto == [tokenValue |-> "token"]
ResetPasswordRequestDto == [email |-> "email"]

ConfirmPasswordResetRequestDto ==
  [tokenValue |-> "token", password |-> "newPassword",
   confirmPassword |-> "match"]

GetTokenHoldRequestDto == [tokenCode |-> "token"]

Dtos ==
  [login                |-> LoginRequestDto,
   getTokenHold         |-> GetTokenHoldRequestDto,
   register             |-> RegisterRequestDto,
   confirmRegister      |-> ConfirmRegisterRequestDto,
   resetPassword        |-> ResetPasswordRequestDto,
   confirmPasswordReset |-> ConfirmPasswordResetRequestDto,
   googleAuthRedirect   |-> <<>>]

-----------------------------------------------------------------------------
\* Mutation: randomBytes of the default length.
DefaultRandomId(idLength) == Text("word", 2 * (IdLength \div 2))

\* generateRandomId: half as many bytes, two digits each.
GenerateRandomId(idLength) == Text("word", 2 * (idLength \div 2))

\* What is mailed in a link, or put in the redirect of a Google login.
DrawnToken == GenerateRandomId(TokenLength)

-----------------------------------------------------------------------------
\* Mutation: the e-mail is not transformed.
AsGiven(value) == value

ToLowerCase(value) ==
  IF value.is = "Email" THEN [value EXCEPT !.is = "email"] ELSE value

IsTrue(value) == IF value = True THEN True ELSE False

\* @Transform runs on what the body has.
Transformed(rule, value) ==
  IF value = Absent THEN value
  ELSE IF rule = "email" THEN ToLowerCase(value)
  ELSE IF rule = "terms" THEN IsTrue(value)
  ELSE value

\* toLowerCase of what is no text throws.
TransformThrows(route, body) ==
  \E f \in DOMAIN body :
    Dtos[route][f] = "email" /\ body[f] # Absent /\ ~IsText(body[f])

PlainToInstance(route, body) ==
  [f \in DOMAIN body |-> Transformed(Dtos[route][f], body[f])]

IsNotEmptyText(value) == IsText(value) /\ value.length > 0

Match(dto, value) == value = dto.password

\* A property of dto meets the validators of its rule.
Meets(rule, dto, value) ==
  /\ rule # "terms" => IsNotEmptyText(value)
  /\ rule = "email" => value.is \in {"email", "Email"}
  /\ rule = "newPassword" => value.length >= 8
  /\ rule = "match" => Match(dto, value)
  /\ rule = "token" => value.length = TokenLength
  /\ rule = "terms" => value \in {True, False}

Valid(route, dto) ==
  \A f \in DOMAIN dto : Meets(Dtos[route][f], dto, dto[f])

=============================================================================
