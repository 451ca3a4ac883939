------------------------------ MODULE LockWire ------------------------------
(* The messages of the lock service, the vault                              *)
(* (gen/go/lock/v1/lock_vtproto.pb.go). For each, the order and the tag     *)
(* bytes of MarshalToSizedBufferVT, the tag lengths of SizeVT and the cases *)
(* of UnmarshalVT, as module Wire reads them.                               *)
EXTENDS Wire, CommonWire

GetSecretRequest_Marshal == << I32(<<\h10>>, "Version"), Str(<<\h0a>>, "Path") >>
GetSecretRequest_Size == << Str(1, "Path"), I32(1, "Version") >>
GetSecretRequest_Unmarshal == << Str(1, "Path"), I32(2, "Version") >>

SecretMetadata_Marshal ==
  << MapStr(<<\h4a>>, "CustomMetadata"), Bool(<<\h40>>, "Destroyed"), I64(<<\h38>>, "DeletedAt"),
     I64(<<\h30>>, "UpdatedAt"), I64(<<\h28>>, "CreatedAt"), I32(<<\h20>>, "OldestVersion"),
     I32(<<\h18>>, "CurrentVersion"), I32(<<\h10>>, "Version"), Str(<<\h0a>>, "Path") >>
SecretMetadata_Size ==
  << Str(1, "Path"), I32(1, "Version"), I32(1, "CurrentVersion"), I32(1, "OldestVersion"),
     I64(1, "CreatedAt"), I64(1, "UpdatedAt"), I64(1, "DeletedAt"), Bool(1, "Destroyed"),
     MapStr(1, "CustomMetadata") >>
SecretMetadata_Unmarshal ==
  << Str(1, "Path"), I32(2, "Version"), I32(3, "CurrentVersion"), I32(4, "OldestVersion"),
     I64(5, "CreatedAt"), I64(6, "UpdatedAt"), I64(7, "DeletedAt"), Bool(8, "Destroyed"),
     MapStr(9, "CustomMetadata") >>

GetSecretResponse_Marshal ==
  << Msg(<<\h12>>, "Metadata", SecretMetadata_Marshal), MapBytes(<<\h0a>>, "Data") >>
GetSecretResponse_Size == << MapBytes(1, "Data"), Msg(1, "Metadata", SecretMetadata_Size) >>
GetSecretResponse_Unmarshal ==
  << MapBytes(1, "Data"), Msg(2, "Metadata", SecretMetadata_Unmarshal) >>

PutSecretRequest_Marshal ==
  << MapStr(<<\h22>>, "CustomMetadata"), I32(<<\h18>>, "Cas"), MapBytes(<<\h12>>, "Data"),
     Str(<<\h0a>>, "Path") >>
PutSecretRequest_Size ==
  << Str(1, "Path"), MapBytes(1, "Data"), I32(1, "Cas"), MapStr(1, "CustomMetadata") >>
PutSecretRequest_Unmarshal ==
  << Str(1, "Path"), MapBytes(2, "Data"), I32(3, "Cas"), MapStr(4, "CustomMetadata") >>

PutSecretResponse_Marshal == << I64(<<\h10>>, "CreatedAt"), I32(<<\h08>>, "Version") >>
PutSecretResponse_Size == << I32(1, "Version"), I64(1, "CreatedAt") >>
PutSecretResponse_Unmarshal == << I32(1, "Version"), I64(2, "CreatedAt") >>

DeleteSecretRequest_Marshal ==
  << Bool(<<\h18>>, "Permanent"), Packed(<<\h12>>, "Versions"), Str(<<\h0a>>, "Path") >>
DeleteSecretRequest_Size == << Str(1, "Path"), Packed(1, "Versions"), Bool(1, "Permanent") >>
DeleteSecretRequest_Unmarshal == << Str(1, "Path"), Packed(2, "Versions"), Bool(3, "Permanent") >>

DeleteSecretResponse_Marshal == << Bool(<<\h08>>, "Success") >>
DeleteSecretResponse_Size == << Bool(1, "Success") >>
DeleteSecretResponse_Unmarshal == << Bool(1, "Success") >>

ListSecretsRequest_Marshal ==
  << Msg(<<\h12>>, "Pagination", PaginationRequest_Marshal), Str(<<\h0a>>, "PathPrefix") >>
ListSecretsRequest_Size == << Str(1, "PathPrefix"), Msg(1, "Pagination", PaginationRequest_Size) >>
ListSecretsRequest_Unmarshal ==
  << Str(1, "PathPrefix"), Msg(2, "Pagination", PaginationRequest_Unmarshal) >>

ListSecretsResponse_Marshal ==
  << Msg(<<\h12>>, "Pagination", PaginationResponse_Marshal), Strs(<<\h0a>>, "Keys") >>
ListSecretsResponse_Size == << Strs(1, "Keys"), Msg(1, "Pagination", PaginationResponse_Size) >>
ListSecretsResponse_Unmarshal ==
  << Strs(1, "Keys"), Msg(2, "Pagination", PaginationResponse_Unmarshal) >>

GetSecretMetadataRequest_Marshal == << Str(<<\h0a>>, "Path") >>
GetSecretMetadataRequest_Size == << Str(1, "Path") >>
GetSecretMetadataRequest_Unmarshal == << Str(1, "Path") >>

SecretVersionMetadata_Marshal ==
  << Bool(<<\h20>>, "Destroyed"), I64(<<\h18>>, "DeletedAt"), I64(<<\h10>>, "CreatedAt"),
     I32(<<\h08>>, "Version") >>
SecretVersionMetadata_Size ==
  << I32(1, "Version"), I64(1, "CreatedAt"), I64(1, "DeletedAt"), Bool(1, "Destroyed") >>
SecretVersionMetadata_Unmarshal ==
  << I32(1, "Version"), I64(2, "CreatedAt"), I64(3, "DeletedAt"), Bool(4, "Destroyed") >>

GetSecretMetadataResponse_Marshal ==
  << Msgs(<<\h12>>, "Versions", SecretVersionMetadata_Marshal),
     Msg(<<\h0a>>, "Metadata", SecretMetadata_Marshal) >>
GetSecretMetadataResponse_Size ==
  << Msg(1, "Metadata", SecretMetadata_Size), Msgs(1, "Versions", SecretVersionMetadata_Size) >>
GetSecretMetadataResponse_Unmarshal ==
  << Msg(1, "Metadata", SecretMetadata_Unmarshal),
     Msgs(2, "Versions", SecretVersionMetadata_Unmarshal) >>

CreateKeyRequest_Marshal ==
  << I64(<<\h48>>, "AutoRotatePeriod"), I32(<<\h40>>, "MinEncryptionVersion"),
     I32(<<\h38>>, "MinDecryptionVersion"), Bool(<<\h30>>, "ConvergentEncryption"),
     Bool(<<\h28>>, "Derived"), Bool(<<\h20>>, "AllowPlaintextBackup"),
     Bool(<<\h18>>, "Exportable"), Enum(<<\h10>>, "Type"), Str(<<\h0a>>, "Name") >>
CreateKeyRequest_Size ==
  << Str(1, "Name"), Enum(1, "Type"), Bool(1, "Exportable"), Bool(1, "AllowPlaintextBackup"),
     Bool(1, "Derived"), Bool(1, "ConvergentEncryption"), I32(1, "MinDecryptionVersion"),
     I32(1, "MinEncryptionVersion"), I64(1, "AutoRotatePeriod") >>
CreateKeyRequest_Unmarshal ==
  << Str(1, "Name"), Enum(2, "Type"), Bool(3, "Exportable"), Bool(4, "AllowPlaintextBackup"),
     Bool(5, "Derived"), Bool(6, "ConvergentEncryption"), I32(7, "MinDecryptionVersion"),
     I32(8, "MinEncryptionVersion"), I64(9, "AutoRotatePeriod") >>

CreateKeyResponse_Marshal ==
  << I64(<<\h20>>, "CreatedAt"), I32(<<\h18>>, "LatestVersion"), Enum(<<\h10>>, "Type"),
     Str(<<\h0a>>, "Name") >>
CreateKeyResponse_Size ==
  << Str(1, "Name"), Enum(1, "Type"), I32(1, "LatestVersion"), I64(1, "CreatedAt") >>
CreateKeyResponse_Unmarshal ==
  << Str(1, "Name"), Enum(2, "Type"), I32(3, "LatestVersion"), I64(4, "CreatedAt") >>

GetKeyRequest_Marshal == << Str(<<\h0a>>, "Name") >>
GetKeyRequest_Size == << Str(1, "Name") >>
GetKeyRequest_Unmarshal == << Str(1, "Name") >>

GetKeyResponse_Marshal ==
  << I64(<<\h58>>, "UpdatedAt"), I64(<<\h50>>, "CreatedAt"), I64(<<\h48>>, "AutoRotatePeriod"),
     Bool(<<\h40>>, "ConvergentEncryption"), Bool(<<\h38>>, "Derived"),
     Bool(<<\h30>>, "Exportable"), I32(<<\h28>>, "MinEncryptionVersion"),
     I32(<<\h20>>, "MinDecryptionVersion"), I32(<<\h18>>, "LatestVersion"),
     Enum(<<\h10>>, "Type"), Str(<<\h0a>>, "Name") >>
GetKeyResponse_Size ==
  << Str(1, "Name"), Enum(1, "Type"), I32(1, "LatestVersion"), I32(1, "MinDecryptionVersion"),
     I32(1, "MinEncryptionVersion"), Bool(1, "Exportable"), Bool(1, "Derived"),
     Bool(1, "ConvergentEncryption"), I64(1, "AutoRotatePeriod"), I64(1, "CreatedAt"),
     I64(1, "UpdatedAt") >>
GetKeyResponse_Unmarshal ==
  << Str(1, "Name"), Enum(2, "Type"), I32(3, "LatestVersion"), I32(4, "MinDecryptionVersion"),
     I32(5, "MinEncryptionVersion"), Bool(6, "Exportable"), Bool(7, "Derived"),
     Bool(8, "ConvergentEncryption"), I64(9, "AutoRotatePeriod"), I64(10, "CreatedAt"),
     I64(11, "UpdatedAt") >>

DeleteKeyRequest_Marshal == << Str(<<\h0a>>, "Name") >>
DeleteKeyRequest_Size == << Str(1, "Name") >>
DeleteKeyRequest_Unmarshal == << Str(1, "Name") >>

DeleteKeyResponse_Marshal == << Bool(<<\h08>>, "Success") >>
DeleteKeyResponse_Size == << Bool(1, "Success") >>
DeleteKeyResponse_Unmarshal == << Bool(1, "Success") >>

ListKeysRequest_Marshal == << Msg(<<\h0a>>, "Pagination", PaginationRequest_Marshal) >>
ListKeysRequest_Size == << Msg(1, "Pagination", PaginationRequest_Size) >>
ListKeysRequest_Unmarshal == << Msg(1, "Pagination", PaginationRequest_Unmarshal) >>

ListKeysResponse_Marshal ==
  << Msg(<<\h12>>, "Pagination", PaginationResponse_Marshal), Strs(<<\h0a>>, "Keys") >>
ListKeysResponse_Size == << Strs(1, "Keys"), Msg(1, "Pagination", PaginationResponse_Size) >>
ListKeysResponse_Unmarshal ==
  << Strs(1, "Keys"), Msg(2, "Pagination", PaginationResponse_Unmarshal) >>

RotateKeyRequest_Marshal == << Str(<<\h0a>>, "Name") >>
RotateKeyRequest_Size == << Str(1, "Name") >>
RotateKeyRequest_Unmarshal == << Str(1, "Name") >>

RotateKeyResponse_Marshal == << I64(<<\h10>>, "RotatedAt"), I32(<<\h08>>, "NewVersion") >>
RotateKeyResponse_Size == << I32(1, "NewVersion"), I64(1, "RotatedAt") >>
RotateKeyResponse_Unmarshal == << I32(1, "NewVersion"), I64(2, "RotatedAt") >>

UpdateKeyConfigRequest_Marshal ==
  << I64(<<\h30>>, "AutoRotatePeriod"), Bool(<<\h28>>, "Exportable"),
     Bool(<<\h20>>, "DeletionAllowed"), I32(<<\h18>>, "MinEncryptionVersion"),
     I32(<<\h10>>, "MinDecryptionVersion"), Str(<<\h0a>>, "Name") >>
UpdateKeyConfigRequest_Size ==
  << Str(1, "Name"), I32(1, "MinDecryptionVersion"), I32(1, "MinEncryptionVersion"),
     Bool(1, "DeletionAllowed"), Bool(1, "Exportable"), I64(1, "AutoRotatePeriod") >>
UpdateKeyConfigRequest_Unmarshal ==
  << Str(1, "Name"), I32(2, "MinDecryptionVersion"), I32(3, "MinEncryptionVersion"),
     Bool(4, "DeletionAllowed"), Bool(5, "Exportable"), I64(6, "AutoRotatePeriod") >>

UpdateKeyConfigResponse_Marshal == << Bool(<<\h08>>, "Success") >>
UpdateKeyConfigResponse_Size == << Bool(1, "Success") >>
UpdateKeyConfigResponse_Unmarshal == << Bool(1, "Success") >>

GetKeyVersionsRequest_Marshal == << Str(<<\h0a>>, "Name") >>
GetKeyVersionsRequest_Size == << Str(1, "Name") >>
GetKeyVersionsRequest_Unmarshal == << Str(1, "Name") >>

KeyVersion_Marshal ==
  << Bytes(<<\h1a>>, "PublicKey"), I64(<<\h10>>, "CreatedAt"), I32(<<\h08>>, "Version") >>
KeyVersion_Size == << I32(1, "Version"), I64(1, "CreatedAt"), Bytes(1, "PublicKey") >>
KeyVersion_Unmarshal == << I32(1, "Version"), I64(2, "CreatedAt"), Bytes(3, "PublicKey") >>

GetKeyVersionsResponse_Marshal ==
  << Msgs(<<\h1a>>, "Versions", KeyVersion_Marshal), Enum(<<\h10>>, "Type"),
     Str(<<\h0a>>, "Name") >>
GetKeyVersionsResponse_Size ==
  << Str(1, "Name"), Enum(1, "Type"), Msgs(1, "Versions", KeyVersion_Size) >>
GetKeyVersionsResponse_Unmarshal ==
  << Str(1, "Name"), Enum(2, "Type"), Msgs(3, "Versions", KeyVersion_Unmarshal) >>

GetEncryptionKeyRequest_Marshal == << I32(<<\h10>>, "Version"), Str(<<\h0a>>, "Name") >>
GetEncryptionKeyRequest_Size == << Str(1, "Name"), I32(1, "Version") >>
GetEncryptionKeyRequest_Unmarshal == << Str(1, "Name"), I32(2, "Version") >>

GetEncryptionKeyResponse_Marshal ==
  << Bytes(<<\h22>>, "PublicKey"), Enum(<<\h18>>, "Type"), I32(<<\h10>>, "Version"),
     Bytes(<<\h0a>>, "Key") >>
GetEncryptionKeyResponse_Size ==
  << Bytes(1, "Key"), I32(1, "Version"), Enum(1, "Type"), Bytes(1, "PublicKey") >>
GetEncryptionKeyResponse_Unmarshal ==
  << Bytes(1, "Key"), I32(2, "Version"), Enum(3, "Type"), Bytes(4, "PublicKey") >>

GetSealStatusRequest_Marshal == << >>
GetSealStatusRequest_Size == << >>
GetSealStatusRequest_Unmarshal == << >>

SealStatus_Marshal ==
  << Str(<<\h4a>>, "Version"), Str(<<\h42>>, "ClusterName"), Str(<<\h3a>>, "ClusterId"),
     Str(<<\h32>>, "SealType"), I32(<<\h28>>, "Progress"), I32(<<\h20>>, "Shares"),
     I32(<<\h18>>, "Threshold"), Bool(<<\h10>>, "Initialized"), Bool(<<\h08>>, "Sealed") >>
SealStatus_Size ==
  << Bool(1, "Sealed"), Bool(1, "Initialized"), I32(1, "Threshold"), I32(1, "Shares"),
     I32(1, "Progress"), Str(1, "SealType"), Str(1, "ClusterId"), Str(1, "ClusterName"),
     Str(1, "Version") >>
SealStatus_Unmarshal ==
  << Bool(1, "Sealed"), Bool(2, "Initialized"), I32(3, "Threshold"), I32(4, "Shares"),
     I32(5, "Progress"), Str(6, "SealType"), Str(7, "ClusterId"), Str(8, "ClusterName"),
     Str(9, "Version") >>

InitializeRequest_Marshal ==
  << I32(<<\h38>>, "RecoveryThreshold"), I32(<<\h30>>, "RecoveryShares"),
     Strs(<<\h2a>>, "RecoveryKeys"), Str(<<\h22>>, "RootTokenPgpKey"), Strs(<<\h1a>>, "PgpKeys"),
     I32(<<\h10>>, "SecretThreshold"), I32(<<\h08>>, "SecretShares") >>
InitializeRequest_Size ==
  << I32(1, "SecretShares"), I32(1, "SecretThreshold"), Strs(1, "PgpKeys"),
     Str(1, "RootTokenPgpKey"), Strs(1, "RecoveryKeys"), I32(1, "RecoveryShares"),
     I32(1, "RecoveryThreshold") >>
InitializeRequest_Unmarshal ==
  << I32(1, "SecretShares"), I32(2, "SecretThreshold"), Strs(3, "PgpKeys"),
     Str(4, "RootTokenPgpKey"), Strs(5, "RecoveryKeys"), I32(6, "RecoveryShares"),
     I32(7, "RecoveryThreshold") >>

InitializeResponse_Marshal ==
  << Strs(<<\h2a>>, "RecoveryKeysBase64"), Strs(<<\h22>>, "RecoveryKeys"),
     Strs(<<\h1a>>, "RootTokens"), Strs(<<\h12>>, "KeysBase64"), Strs(<<\h0a>>, "Keys") >>
InitializeResponse_Size ==
  << Strs(1, "Keys"), Strs(1, "KeysBase64"), Strs(1, "RootTokens"), Strs(1, "RecoveryKeys"),
     Strs(1, "RecoveryKeysBase64") >>
InitializeResponse_Unmarshal ==
  << Strs(1, "Keys"), Strs(2, "KeysBase64"), Strs(3, "RootTokens"), Strs(4, "RecoveryKeys"),
     Strs(5, "RecoveryKeysBase64") >>

UnsealRequest_Marshal == << Bool(<<\h10>>, "Reset_"), Str(<<\h0a>>, "Key") >>
UnsealRequest_Size == << Str(1, "Key"), Bool(1, "Reset_") >>
UnsealRequest_Unmarshal == << Str(1, "Key"), Bool(2, "Reset_") >>

SealRequest_Marshal == << >>
SealRequest_Size == << >>
SealRequest_Unmarshal == << >>

GetLeaderRequest_Marshal == << >>
GetLeaderRequest_Size == << >>
GetLeaderRequest_Unmarshal == << >>

GetLeaderResponse_Marshal == << Bool(<<\h10>>, "IsSelf"), Str(<<\h0a>>, "LeaderAddress") >>
GetLeaderResponse_Size == << Str(1, "LeaderAddress"), Bool(1, "IsSelf") >>
GetLeaderResponse_Unmarshal == << Str(1, "LeaderAddress"), Bool(2, "IsSelf") >>

JoinClusterRequest_Marshal == << Bool(<<\h10>>, "NonVoter"), Str(<<\h0a>>, "LeaderAddress") >>
JoinClusterRequest_Size == << Str(1, "LeaderAddress"), Bool(1, "NonVoter") >>
JoinClusterRequest_Unmarshal == << Str(1, "LeaderAddress"), Bool(2, "NonVoter") >>

JoinClusterResponse_Marshal == << Str(<<\h12>>, "NodeId"), Bool(<<\h08>>, "Success") >>
JoinClusterResponse_Size == << Bool(1, "Success"), Str(1, "NodeId") >>
JoinClusterResponse_Unmarshal == << Bool(1, "Success"), Str(2, "NodeId") >>

LeaveClusterRequest_Marshal == << >>
LeaveClusterRequest_Size == << >>
LeaveClusterRequest_Unmarshal == << >>

LeaveClusterResponse_Marshal == << Bool(<<\h08>>, "Success") >>
LeaveClusterResponse_Size == << Bool(1, "Success") >>
LeaveClusterResponse_Unmarshal == << Bool(1, "Success") >>

GetClusterStatusRequest_Marshal == << >>
GetClusterStatusRequest_Size == << >>
GetClusterStatusRequest_Unmarshal == << >>

ClusterNode_Marshal ==
  << I64(<<\h28>>, "LastContact"), Bool(<<\h20>>, "Voter"), Str(<<\h1a>>, "State"),
     Str(<<\h12>>, "Address"), Str(<<\h0a>>, "NodeId") >>
ClusterNode_Size ==
  << Str(1, "NodeId"), Str(1, "Address"), Str(1, "State"), Bool(1, "Voter"),
     I64(1, "LastContact") >>
ClusterNode_Unmarshal ==
  << Str(1, "NodeId"), Str(2, "Address"), Str(3, "State"), Bool(4, "Voter"),
     I64(5, "LastContact") >>

ClusterStatus_Marshal ==
  << Msgs(<<\h22>>, "Nodes", ClusterNode_Marshal), Str(<<\h1a>>, "LeaderAddress"),
     Str(<<\h12>>, "ClusterName"), Str(<<\h0a>>, "ClusterId") >>
ClusterStatus_Size ==
  << Str(1, "ClusterId"), Str(1, "ClusterName"), Str(1, "LeaderAddress"),
     Msgs(1, "Nodes", ClusterNode_Size) >>
ClusterStatus_Unmarshal ==
  << Str(1, "ClusterId"), Str(2, "ClusterName"), Str(3, "LeaderAddress"),
     Msgs(4, "Nodes", ClusterNode_Unmarshal) >>

(* Every message of the package, by name. *)
LockMessages ==
  [ GetSecretRequest |-> Message(GetSecretRequest_Marshal, GetSecretRequest_Size, GetSecretRequest_Unmarshal),
    SecretMetadata |-> Message(SecretMetadata_Marshal, SecretMetadata_Size, SecretMetadata_Unmarshal),
    GetSecretResponse |-> Message(GetSecretResponse_Marshal, GetSecretResponse_Size, GetSecretResponse_Unmarshal),
    PutSecretRequest |-> Message(PutSecretRequest_Marshal, PutSecretRequest_Size, PutSecretRequest_Unmarshal),
    PutSecretResponse |-> Message(PutSecretResponse_Marshal, PutSecretResponse_Size, PutSecretResponse_Unmarshal),
    DeleteSecretRequest |-> Message(DeleteSecretRequest_Marshal, DeleteSecretRequest_Size, DeleteSecretRequest_Unmarshal),
    DeleteSecretResponse |-> Message(DeleteSecretResponse_Marshal, DeleteSecretResponse_Size, DeleteSecretResponse_Unmarshal),
    ListSecretsRequest |-> Message(ListSecretsRequest_Marshal, ListSecretsRequest_Size, ListSecretsRequest_Unmarshal),
    ListSecretsResponse |-> Message(ListSecretsResponse_Marshal, ListSecretsResponse_Size, ListSecretsResponse_Unmarshal),
    GetSecretMetadataRequest |-> Message(GetSecretMetadataRequest_Marshal, GetSecretMetadataRequest_Size, GetSecretMetadataRequest_Unmarshal),
    SecretVersionMetadata |-> Message(SecretVersionMetadata_Marshal, SecretVersionMetadata_Size, SecretVersionMetadata_Unmarshal),
    GetSecretMetadataResponse |-> Message(GetSecretMetadataResponse_Marshal, GetSecretMetadataResponse_Size, GetSecretMetadataResponse_Unmarshal),
    CreateKeyRequest |-> Message(CreateKeyRequest_Marshal, CreateKeyRequest_Size, CreateKeyRequest_Unmarshal),
    CreateKeyResponse |-> Message(CreateKeyResponse_Marshal, CreateKeyResponse_Size, CreateKeyResponse_Unmarshal),
    GetKeyRequest |-> Message(GetKeyRequest_Marshal, GetKeyRequest_Size, GetKeyRequest_Unmarshal),
    GetKeyResponse |-> Message(GetKeyResponse_Marshal, GetKeyResponse_Size, GetKeyResponse_Unmarshal),
    DeleteKeyRequest |-> Message(DeleteKeyRequest_Marshal, DeleteKeyRequest_Size, DeleteKeyRequest_Unmarshal),
    DeleteKeyResponse |-> Message(DeleteKeyResponse_Marshal, DeleteKeyResponse_Size, DeleteKeyResponse_Unmarshal),
    ListKeysRequest |-> Message(ListKeysRequest_Marshal, ListKeysRequest_Size, ListKeysRequest_Unmarshal),
    ListKeysResponse |-> Message(ListKeysResponse_Marshal, ListKeysResponse_Size, ListKeysResponse_Unmarshal),
    RotateKeyRequest |-> Message(RotateKeyRequest_Marshal, RotateKeyRequest_Size, RotateKeyRequest_Unmarshal),
    RotateKeyResponse |-> Message(RotateKeyResponse_Marshal, RotateKeyResponse_Size, RotateKeyResponse_Unmarshal),
    UpdateKeyConfigRequest |-> Message(UpdateKeyConfigRequest_Marshal, UpdateKeyConfigRequest_Size, UpdateKeyConfigRequest_Unmarshal),
    UpdateKeyConfigResponse |-> Message(UpdateKeyConfigResponse_Marshal, UpdateKeyConfigResponse_Size, UpdateKeyConfigResponse_Unmarshal),
    GetKeyVersionsRequest |-> Message(GetKeyVersionsRequest_Marshal, GetKeyVersionsRequest_Size, GetKeyVersionsRequest_Unmarshal),
    KeyVersion |-> Message(KeyVersion_Marshal, KeyVersion_Size, KeyVersion_Unmarshal),
    GetKeyVersionsResponse |-> Message(GetKeyVersionsResponse_Marshal, GetKeyVersionsResponse_Size, GetKeyVersionsResponse_Unmarshal),
    GetEncryptionKeyRequest |-> Message(GetEncryptionKeyRequest_Marshal, GetEncryptionKeyRequest_Size, GetEncryptionKeyRequest_Unmarshal),
    GetEncryptionKeyResponse |-> Message(GetEncryptionKeyResponse_Marshal, GetEncryptionKeyResponse_Size, GetEncryptionKeyResponse_Unmarshal),
    GetSealStatusRequest |-> Message(GetSealStatusRequest_Marshal, GetSealStatusRequest_Size, GetSealStatusRequest_Unmarshal),
    SealStatus |-> Message(SealStatus_Marshal, SealStatus_Size, SealStatus_Unmarshal),
    InitializeRequest |-> Message(InitializeRequest_Marshal, InitializeRequest_Size, InitializeRequest_Unmarshal),
    InitializeResponse |-> Message(InitializeResponse_Marshal, InitializeResponse_Size, InitializeResponse_Unmarshal),
    UnsealRequest |-> Message(UnsealRequest_Marshal, UnsealRequest_Size, UnsealRequest_Unmarshal),
    SealRequest |-> Message(SealRequest_Marshal, SealRequest_Size, SealRequest_Unmarshal),
    GetLeaderRequest |-> Message(GetLeaderRequest_Marshal, GetLeaderRequest_Size, GetLeaderRequest_Unmarshal),
    GetLeaderResponse |-> Message(GetLeaderResponse_Marshal, GetLeaderResponse_Size, GetLeaderResponse_Unmarshal),
    JoinClusterRequest |-> Message(JoinClusterRequest_Marshal, JoinClusterRequest_Size, JoinClusterRequest_Unmarshal),
    JoinClusterResponse |-> Message(JoinClusterResponse_Marshal, JoinClusterResponse_Size, JoinClusterResponse_Unmarshal),
    LeaveClusterRequest |-> Message(LeaveClusterRequest_Marshal, LeaveClusterRequest_Size, LeaveClusterRequest_Unmarshal),
    LeaveClusterResponse |-> Message(LeaveClusterResponse_Marshal, LeaveClusterResponse_Size, LeaveClusterResponse_Unmarshal),
    GetClusterStatusRequest |-> Message(GetClusterStatusRequest_Marshal, GetClusterStatusRequest_Size, GetClusterStatusRequest_Unmarshal),
    ClusterNode |-> Message(ClusterNode_Marshal, ClusterNode_Size, ClusterNode_Unmarshal),
    ClusterStatus |-> Message(ClusterStatus_Marshal, ClusterStatus_Size, ClusterStatus_Unmarshal) ]
==============================================================================
