------------------------------ MODULE AuthWire ------------------------------
(* The messages of the auth service (gen/go/auth/v1/auth_vtproto.pb.go).    *)
(* For each, the order and the tag bytes of MarshalToSizedBufferVT, the tag *)
(* lengths of SizeVT and the cases of UnmarshalVT, as module Wire reads     *)
(* them.                                                                    *)
EXTENDS Wire, CommonWire

CreateTokenRequest_Marshal ==
  << MapStr(<<\h22>>, "Metadata"), I64(<<\h18>>, "TtlSeconds"), Strs(<<\h12>>, "Policies"),
     Str(<<\h0a>>, "Identity") >>
CreateTokenRequest_Size ==
  << Str(1, "Identity"), Strs(1, "Policies"), I64(1, "TtlSeconds"), MapStr(1, "Metadata") >>
CreateTokenRequest_Unmarshal ==
  << Str(1, "Identity"), Strs(2, "Policies"), I64(3, "TtlSeconds"), MapStr(4, "Metadata") >>

CreateTokenResponse_Marshal ==
  << Strs(<<\h22>>, "Policies"), I64(<<\h18>>, "ExpiresAt"), Str(<<\h12>>, "TokenId"),
     Str(<<\h0a>>, "Token") >>
CreateTokenResponse_Size ==
  << Str(1, "Token"), Str(1, "TokenId"), I64(1, "ExpiresAt"), Strs(1, "Policies") >>
CreateTokenResponse_Unmarshal ==
  << Str(1, "Token"), Str(2, "TokenId"), I64(3, "ExpiresAt"), Strs(4, "Policies") >>

ValidateTokenRequest_Marshal ==
  << Str(<<\h22>>, "Action"), Str(<<\h1a>>, "Resource"), Str(<<\h12>>, "RequiredPolicy"),
     Str(<<\h0a>>, "Token") >>
ValidateTokenRequest_Size ==
  << Str(1, "Token"), Str(1, "RequiredPolicy"), Str(1, "Resource"), Str(1, "Action") >>
ValidateTokenRequest_Unmarshal ==
  << Str(1, "Token"), Str(2, "RequiredPolicy"), Str(3, "Resource"), Str(4, "Action") >>

ValidateTokenResponse_Marshal ==
  << Str(<<\h3a>>, "ErrorMessage"), I64(<<\h30>>, "ExpiresAt"), MapStr(<<\h2a>>, "Metadata"),
     Strs(<<\h22>>, "Policies"), Str(<<\h1a>>, "TokenId"), Str(<<\h12>>, "Identity"),
     Bool(<<\h08>>, "Valid") >>
ValidateTokenResponse_Size ==
  << Bool(1, "Valid"), Str(1, "Identity"), Str(1, "TokenId"), Strs(1, "Policies"),
     MapStr(1, "Metadata"), I64(1, "ExpiresAt"), Str(1, "ErrorMessage") >>
ValidateTokenResponse_Unmarshal ==
  << Bool(1, "Valid"), Str(2, "Identity"), Str(3, "TokenId"), Strs(4, "Policies"),
     MapStr(5, "Metadata"), I64(6, "ExpiresAt"), Str(7, "ErrorMessage") >>

RevokeTokenRequest_Marshal == << Str(<<\h12>>, "TokenId"), Str(<<\h0a>>, "Token") >>
RevokeTokenRequest_Size == << Str(1, "Token"), Str(1, "TokenId") >>
RevokeTokenRequest_Unmarshal == << Str(1, "Token"), Str(2, "TokenId") >>

RevokeTokenResponse_Marshal == << Bool(<<\h08>>, "Success") >>
RevokeTokenResponse_Size == << Bool(1, "Success") >>
RevokeTokenResponse_Unmarshal == << Bool(1, "Success") >>

RefreshTokenRequest_Marshal == << I64(<<\h10>>, "TtlSeconds"), Str(<<\h0a>>, "Token") >>
RefreshTokenRequest_Size == << Str(1, "Token"), I64(1, "TtlSeconds") >>
RefreshTokenRequest_Unmarshal == << Str(1, "Token"), I64(2, "TtlSeconds") >>

RefreshTokenResponse_Marshal ==
  << I64(<<\h18>>, "ExpiresAt"), Str(<<\h12>>, "TokenId"), Str(<<\h0a>>, "Token") >>
RefreshTokenResponse_Size == << Str(1, "Token"), Str(1, "TokenId"), I64(1, "ExpiresAt") >>
RefreshTokenResponse_Unmarshal == << Str(1, "Token"), Str(2, "TokenId"), I64(3, "ExpiresAt") >>

ListTokensRequest_Marshal ==
  << Msg(<<\h12>>, "Pagination", PaginationRequest_Marshal), Str(<<\h0a>>, "Identity") >>
ListTokensRequest_Size == << Str(1, "Identity"), Msg(1, "Pagination", PaginationRequest_Size) >>
ListTokensRequest_Unmarshal ==
  << Str(1, "Identity"), Msg(2, "Pagination", PaginationRequest_Unmarshal) >>

TokenInfo_Marshal ==
  << I64(<<\h30>>, "LastUsedAt"), I64(<<\h28>>, "ExpiresAt"), I64(<<\h20>>, "CreatedAt"),
     Strs(<<\h1a>>, "Policies"), Str(<<\h12>>, "Identity"), Str(<<\h0a>>, "TokenId") >>
TokenInfo_Size ==
  << Str(1, "TokenId"), Str(1, "Identity"), Strs(1, "Policies"), I64(1, "CreatedAt"),
     I64(1, "ExpiresAt"), I64(1, "LastUsedAt") >>
TokenInfo_Unmarshal ==
  << Str(1, "TokenId"), Str(2, "Identity"), Strs(3, "Policies"), I64(4, "CreatedAt"),
     I64(5, "ExpiresAt"), I64(6, "LastUsedAt") >>

ListTokensResponse_Marshal ==
  << Msg(<<\h12>>, "Pagination", PaginationResponse_Marshal),
     Msgs(<<\h0a>>, "Tokens", TokenInfo_Marshal) >>
ListTokensResponse_Size ==
  << Msgs(1, "Tokens", TokenInfo_Size), Msg(1, "Pagination", PaginationResponse_Size) >>
ListTokensResponse_Unmarshal ==
  << Msgs(1, "Tokens", TokenInfo_Unmarshal), Msg(2, "Pagination", PaginationResponse_Unmarshal) >>

CreateAPIKeyRequest_Marshal ==
  << MapStr(<<\h2a>>, "Metadata"), I64(<<\h20>>, "TtlSeconds"), Strs(<<\h1a>>, "Policies"),
     Str(<<\h12>>, "Identity"), Str(<<\h0a>>, "Name") >>
CreateAPIKeyRequest_Size ==
  << Str(1, "Name"), Str(1, "Identity"), Strs(1, "Policies"), I64(1, "TtlSeconds"),
     MapStr(1, "Metadata") >>
CreateAPIKeyRequest_Unmarshal ==
  << Str(1, "Name"), Str(2, "Identity"), Strs(3, "Policies"), I64(4, "TtlSeconds"),
     MapStr(5, "Metadata") >>

CreateAPIKeyResponse_Marshal ==
  << I64(<<\h18>>, "ExpiresAt"), Str(<<\h12>>, "KeyId"), Str(<<\h0a>>, "ApiKey") >>
CreateAPIKeyResponse_Size == << Str(1, "ApiKey"), Str(1, "KeyId"), I64(1, "ExpiresAt") >>
CreateAPIKeyResponse_Unmarshal == << Str(1, "ApiKey"), Str(2, "KeyId"), I64(3, "ExpiresAt") >>

ValidateAPIKeyRequest_Marshal ==
  << Str(<<\h1a>>, "Action"), Str(<<\h12>>, "Resource"), Str(<<\h0a>>, "ApiKey") >>
ValidateAPIKeyRequest_Size == << Str(1, "ApiKey"), Str(1, "Resource"), Str(1, "Action") >>
ValidateAPIKeyRequest_Unmarshal == << Str(1, "ApiKey"), Str(2, "Resource"), Str(3, "Action") >>

ValidateAPIKeyResponse_Marshal ==
  << Str(<<\h2a>>, "ErrorMessage"), Strs(<<\h22>>, "Policies"), Str(<<\h1a>>, "KeyId"),
     Str(<<\h12>>, "Identity"), Bool(<<\h08>>, "Valid") >>
ValidateAPIKeyResponse_Size ==
  << Bool(1, "Valid"), Str(1, "Identity"), Str(1, "KeyId"), Strs(1, "Policies"),
     Str(1, "ErrorMessage") >>
ValidateAPIKeyResponse_Unmarshal ==
  << Bool(1, "Valid"), Str(2, "Identity"), Str(3, "KeyId"), Strs(4, "Policies"),
     Str(5, "ErrorMessage") >>

RevokeAPIKeyRequest_Marshal == << Str(<<\h0a>>, "KeyId") >>
RevokeAPIKeyRequest_Size == << Str(1, "KeyId") >>
RevokeAPIKeyRequest_Unmarshal == << Str(1, "KeyId") >>

RevokeAPIKeyResponse_Marshal == << Bool(<<\h08>>, "Success") >>
RevokeAPIKeyResponse_Size == << Bool(1, "Success") >>
RevokeAPIKeyResponse_Unmarshal == << Bool(1, "Success") >>

ListAPIKeysRequest_Marshal ==
  << Msg(<<\h12>>, "Pagination", PaginationRequest_Marshal), Str(<<\h0a>>, "Identity") >>
ListAPIKeysRequest_Size == << Str(1, "Identity"), Msg(1, "Pagination", PaginationRequest_Size) >>
ListAPIKeysRequest_Unmarshal ==
  << Str(1, "Identity"), Msg(2, "Pagination", PaginationRequest_Unmarshal) >>

APIKeyInfo_Marshal ==
  << I64(<<\h38>>, "LastUsedAt"), I64(<<\h30>>, "ExpiresAt"), I64(<<\h28>>, "CreatedAt"),
     Strs(<<\h22>>, "Policies"), Str(<<\h1a>>, "Identity"), Str(<<\h12>>, "Name"),
     Str(<<\h0a>>, "KeyId") >>
APIKeyInfo_Size ==
  << Str(1, "KeyId"), Str(1, "Name"), Str(1, "Identity"), Strs(1, "Policies"),
     I64(1, "CreatedAt"), I64(1, "ExpiresAt"), I64(1, "LastUsedAt") >>
APIKeyInfo_Unmarshal ==
  << Str(1, "KeyId"), Str(2, "Name"), Str(3, "Identity"), Strs(4, "Policies"),
     I64(5, "CreatedAt"), I64(6, "ExpiresAt"), I64(7, "LastUsedAt") >>

ListAPIKeysResponse_Marshal ==
  << Msg(<<\h12>>, "Pagination", PaginationResponse_Marshal),
     Msgs(<<\h0a>>, "ApiKeys", APIKeyInfo_Marshal) >>
ListAPIKeysResponse_Size ==
  << Msgs(1, "ApiKeys", APIKeyInfo_Size), Msg(1, "Pagination", PaginationResponse_Size) >>
ListAPIKeysResponse_Unmarshal ==
  << Msgs(1, "ApiKeys", APIKeyInfo_Unmarshal),
     Msg(2, "Pagination", PaginationResponse_Unmarshal) >>

PolicyRule_Marshal ==
  << MapStr(<<\h1a>>, "Conditions"), Strs(<<\h12>>, "Capabilities"), Str(<<\h0a>>, "Path") >>
PolicyRule_Size == << Str(1, "Path"), Strs(1, "Capabilities"), MapStr(1, "Conditions") >>
PolicyRule_Unmarshal == << Str(1, "Path"), Strs(2, "Capabilities"), MapStr(3, "Conditions") >>

CreatePolicyRequest_Marshal ==
  << Str(<<\h1a>>, "Description"), Msgs(<<\h12>>, "Rules", PolicyRule_Marshal),
     Str(<<\h0a>>, "Name") >>
CreatePolicyRequest_Size ==
  << Str(1, "Name"), Msgs(1, "Rules", PolicyRule_Size), Str(1, "Description") >>
CreatePolicyRequest_Unmarshal ==
  << Str(1, "Name"), Msgs(2, "Rules", PolicyRule_Unmarshal), Str(3, "Description") >>

CreatePolicyResponse_Marshal == << I64(<<\h10>>, "CreatedAt"), Str(<<\h0a>>, "Name") >>
CreatePolicyResponse_Size == << Str(1, "Name"), I64(1, "CreatedAt") >>
CreatePolicyResponse_Unmarshal == << Str(1, "Name"), I64(2, "CreatedAt") >>

GetPolicyRequest_Marshal == << Str(<<\h0a>>, "Name") >>
GetPolicyRequest_Size == << Str(1, "Name") >>
GetPolicyRequest_Unmarshal == << Str(1, "Name") >>

Policy_Marshal ==
  << I64(<<\h28>>, "UpdatedAt"), I64(<<\h20>>, "CreatedAt"), Str(<<\h1a>>, "Description"),
     Msgs(<<\h12>>, "Rules", PolicyRule_Marshal), Str(<<\h0a>>, "Name") >>
Policy_Size ==
  << Str(1, "Name"), Msgs(1, "Rules", PolicyRule_Size), Str(1, "Description"),
     I64(1, "CreatedAt"), I64(1, "UpdatedAt") >>
Policy_Unmarshal ==
  << Str(1, "Name"), Msgs(2, "Rules", PolicyRule_Unmarshal), Str(3, "Description"),
     I64(4, "CreatedAt"), I64(5, "UpdatedAt") >>

GetPolicyResponse_Marshal == << Msg(<<\h0a>>, "Policy", Policy_Marshal) >>
GetPolicyResponse_Size == << Msg(1, "Policy", Policy_Size) >>
GetPolicyResponse_Unmarshal == << Msg(1, "Policy", Policy_Unmarshal) >>

UpdatePolicyRequest_Marshal ==
  << Str(<<\h1a>>, "Description"), Msgs(<<\h12>>, "Rules", PolicyRule_Marshal),
     Str(<<\h0a>>, "Name") >>
UpdatePolicyRequest_Size ==
  << Str(1, "Name"), Msgs(1, "Rules", PolicyRule_Size), Str(1, "Description") >>
UpdatePolicyRequest_Unmarshal ==
  << Str(1, "Name"), Msgs(2, "Rules", PolicyRule_Unmarshal), Str(3, "Description") >>

UpdatePolicyResponse_Marshal == << I64(<<\h10>>, "UpdatedAt"), Str(<<\h0a>>, "Name") >>
UpdatePolicyResponse_Size == << Str(1, "Name"), I64(1, "UpdatedAt") >>
UpdatePolicyResponse_Unmarshal == << Str(1, "Name"), I64(2, "UpdatedAt") >>

DeletePolicyRequest_Marshal == << Str(<<\h0a>>, "Name") >>
DeletePolicyRequest_Size == << Str(1, "Name") >>
DeletePolicyRequest_Unmarshal == << Str(1, "Name") >>

DeletePolicyResponse_Marshal == << Bool(<<\h08>>, "Success") >>
DeletePolicyResponse_Size == << Bool(1, "Success") >>
DeletePolicyResponse_Unmarshal == << Bool(1, "Success") >>

ListPoliciesRequest_Marshal == << Msg(<<\h0a>>, "Pagination", PaginationRequest_Marshal) >>
ListPoliciesRequest_Size == << Msg(1, "Pagination", PaginationRequest_Size) >>
ListPoliciesRequest_Unmarshal == << Msg(1, "Pagination", PaginationRequest_Unmarshal) >>

ListPoliciesResponse_Marshal ==
  << Msg(<<\h12>>, "Pagination", PaginationResponse_Marshal),
     Msgs(<<\h0a>>, "Policies", Policy_Marshal) >>
ListPoliciesResponse_Size ==
  << Msgs(1, "Policies", Policy_Size), Msg(1, "Pagination", PaginationResponse_Size) >>
ListPoliciesResponse_Unmarshal ==
  << Msgs(1, "Policies", Policy_Unmarshal), Msg(2, "Pagination", PaginationResponse_Unmarshal) >>

EvaluatePolicyRequest_Marshal ==
  << MapStr(<<\h22>>, "Context"), Str(<<\h1a>>, "Action"), Str(<<\h12>>, "Resource"),
     Strs(<<\h0a>>, "Policies") >>
EvaluatePolicyRequest_Size ==
  << Strs(1, "Policies"), Str(1, "Resource"), Str(1, "Action"), MapStr(1, "Context") >>
EvaluatePolicyRequest_Unmarshal ==
  << Strs(1, "Policies"), Str(2, "Resource"), Str(3, "Action"), MapStr(4, "Context") >>

EvaluatePolicyResponse_Marshal ==
  << Str(<<\h1a>>, "DenialReason"), Str(<<\h12>>, "MatchedRule"), Bool(<<\h08>>, "Allowed") >>
EvaluatePolicyResponse_Size ==
  << Bool(1, "Allowed"), Str(1, "MatchedRule"), Str(1, "DenialReason") >>
EvaluatePolicyResponse_Unmarshal ==
  << Bool(1, "Allowed"), Str(2, "MatchedRule"), Str(3, "DenialReason") >>

(* Every message of the package, by name. *)
AuthMessages ==
  [ CreateTokenRequest |-> Message(CreateTokenRequest_Marshal, CreateTokenRequest_Size, CreateTokenRequest_Unmarshal),
    CreateTokenResponse |-> Message(CreateTokenResponse_Marshal, CreateTokenResponse_Size, CreateTokenResponse_Unmarshal),
    ValidateTokenRequest |-> Message(ValidateTokenRequest_Marshal, ValidateTokenRequest_Size, ValidateTokenRequest_Unmarshal),
    ValidateTokenResponse |-> Message(ValidateTokenResponse_Marshal, ValidateTokenResponse_Size, ValidateTokenResponse_Unmarshal),
    RevokeTokenRequest |-> Message(RevokeTokenRequest_Marshal, RevokeTokenRequest_Size, RevokeTokenRequest_Unmarshal),
    RevokeTokenResponse |-> Message(RevokeTokenResponse_Marshal, RevokeTokenResponse_Size, RevokeTokenResponse_Unmarshal),
    RefreshTokenRequest |-> Message(RefreshTokenRequest_Marshal, RefreshTokenRequest_Size, RefreshTokenRequest_Unmarshal),
    RefreshTokenResponse |-> Message(RefreshTokenResponse_Marshal, RefreshTokenResponse_Size, RefreshTokenResponse_Unmarshal),
    ListTokensRequest |-> Message(ListTokensRequest_Marshal, ListTokensRequest_Size, ListTokensRequest_Unmarshal),
    TokenInfo |-> Message(TokenInfo_Marshal, TokenInfo_Size, TokenInfo_Unmarshal),
    ListTokensResponse |-> Message(ListTokensResponse_Marshal, ListTokensResponse_Size, ListTokensResponse_Unmarshal),
    CreateAPIKeyRequest |-> Message(CreateAPIKeyRequest_Marshal, CreateAPIKeyRequest_Size, CreateAPIKeyRequest_Unmarshal),
    CreateAPIKeyResponse |-> Message(CreateAPIKeyResponse_Marshal, CreateAPIKeyResponse_Size, CreateAPIKeyResponse_Unmarshal),
    ValidateAPIKeyRequest |-> Message(ValidateAPIKeyRequest_Marshal, ValidateAPIKeyRequest_Size, ValidateAPIKeyRequest_Unmarshal),
    ValidateAPIKeyResponse |-> Message(ValidateAPIKeyResponse_Marshal, ValidateAPIKeyResponse_Size, ValidateAPIKeyResponse_Unmarshal),
    RevokeAPIKeyRequest |-> Message(RevokeAPIKeyRequest_Marshal, RevokeAPIKeyRequest_Size, RevokeAPIKeyRequest_Unmarshal),
    RevokeAPIKeyResponse |-> Message(RevokeAPIKeyResponse_Marshal, RevokeAPIKeyResponse_Size, RevokeAPIKeyResponse_Unmarshal),
    ListAPIKeysRequest |-> Message(ListAPIKeysRequest_Marshal, ListAPIKeysRequest_Size, ListAPIKeysRequest_Unmarshal),
    APIKeyInfo |-> Message(APIKeyInfo_Marshal, APIKeyInfo_Size, APIKeyInfo_Unmarshal),
    ListAPIKeysResponse |-> Message(ListAPIKeysResponse_Marshal, ListAPIKeysResponse_Size, ListAPIKeysResponse_Unmarshal),
    PolicyRule |-> Message(PolicyRule_Marshal, PolicyRule_Size, PolicyRule_Unmarshal),
    CreatePolicyRequest |-> Message(CreatePolicyRequest_Marshal, CreatePolicyRequest_Size, CreatePolicyRequest_Unmarshal),
    CreatePolicyResponse |-> Message(CreatePolicyResponse_Marshal, CreatePolicyResponse_Size, CreatePolicyResponse_Unmarshal),
    GetPolicyRequest |-> Message(GetPolicyRequest_Marshal, GetPolicyRequest_Size, GetPolicyRequest_Unmarshal),
    Policy |-> Message(Policy_Marshal, Policy_Size, Policy_Unmarshal),
    GetPolicyResponse |-> Message(GetPolicyResponse_Marshal, GetPolicyResponse_Size, GetPolicyResponse_Unmarshal),
    UpdatePolicyRequest |-> Message(UpdatePolicyRequest_Marshal, UpdatePolicyRequest_Size, UpdatePolicyRequest_Unmarshal),
    UpdatePolicyResponse |-> Message(UpdatePolicyResponse_Marshal, UpdatePolicyResponse_Size, UpdatePolicyResponse_Unmarshal),
    DeletePolicyRequest |-> Message(DeletePolicyRequest_Marshal, DeletePolicyRequest_Size, DeletePolicyRequest_Unmarshal),
    DeletePolicyResponse |-> Message(DeletePolicyResponse_Marshal, DeletePolicyResponse_Size, DeletePolicyResponse_Unmarshal),
    ListPoliciesRequest |-> Message(ListPoliciesRequest_Marshal, ListPoliciesRequest_Size, ListPoliciesRequest_Unmarshal),
    ListPoliciesResponse |-> Message(ListPoliciesResponse_Marshal, ListPoliciesResponse_Size, ListPoliciesResponse_Unmarshal),
    EvaluatePolicyRequest |-> Message(EvaluatePolicyRequest_Marshal, EvaluatePolicyRequest_Size, EvaluatePolicyRequest_Unmarshal),
    EvaluatePolicyResponse |-> Message(EvaluatePolicyResponse_Marshal, EvaluatePolicyResponse_Size, EvaluatePolicyResponse_Unmarshal) ]
==============================================================================
