----------------------------- MODULE CryptoWire -----------------------------
(* The messages of the crypto service                                       *)
(* (gen/go/crypto/v1/crypto_vtproto.pb.go). For each, the order and the tag *)
(* bytes of MarshalToSizedBufferVT, the tag lengths of SizeVT and the cases *)
(* of UnmarshalVT, as module Wire reads them.                               *)
EXTENDS Wire

EncryptRequest_Marshal ==
  << Str(<<\h2a>>, "Nonce"), I32(<<\h20>>, "KeyVersion"), Bytes(<<\h1a>>, "Context"),
     Bytes(<<\h12>>, "Plaintext"), Str(<<\h0a>>, "KeyName") >>
EncryptRequest_Size ==
  << Str(1, "KeyName"), Bytes(1, "Plaintext"), Bytes(1, "Context"), I32(1, "KeyVersion"),
     Str(1, "Nonce") >>
EncryptRequest_Unmarshal ==
  << Str(1, "KeyName"), Bytes(2, "Plaintext"), Bytes(3, "Context"), I32(4, "KeyVersion"),
     Str(5, "Nonce") >>

EncryptResponse_Marshal == << I32(<<\h10>>, "KeyVersion"), Str(<<\h0a>>, "Ciphertext") >>
EncryptResponse_Size == << Str(1, "Ciphertext"), I32(1, "KeyVersion") >>
EncryptResponse_Unmarshal == << Str(1, "Ciphertext"), I32(2, "KeyVersion") >>

DecryptRequest_Marshal ==
  << Bytes(<<\h1a>>, "Context"), Str(<<\h12>>, "Ciphertext"), Str(<<\h0a>>, "KeyName") >>
DecryptRequest_Size == << Str(1, "KeyName"), Str(1, "Ciphertext"), Bytes(1, "Context") >>
DecryptRequest_Unmarshal == << Str(1, "KeyName"), Str(2, "Ciphertext"), Bytes(3, "Context") >>

DecryptResponse_Marshal == << I32(<<\h10>>, "KeyVersion"), Bytes(<<\h0a>>, "Plaintext") >>
DecryptResponse_Size == << Bytes(1, "Plaintext"), I32(1, "KeyVersion") >>
DecryptResponse_Unmarshal == << Bytes(1, "Plaintext"), I32(2, "KeyVersion") >>

BatchEncryptItem_Marshal ==
  << Str(<<\h22>>, "Nonce"), Str(<<\h1a>>, "Reference"), Bytes(<<\h12>>, "Context"),
     Bytes(<<\h0a>>, "Plaintext") >>
BatchEncryptItem_Size ==
  << Bytes(1, "Plaintext"), Bytes(1, "Context"), Str(1, "Reference"), Str(1, "Nonce") >>
BatchEncryptItem_Unmarshal ==
  << Bytes(1, "Plaintext"), Bytes(2, "Context"), Str(3, "Reference"), Str(4, "Nonce") >>

EncryptBatchRequest_Marshal ==
  << Msgs(<<\h12>>, "Items", BatchEncryptItem_Marshal), Str(<<\h0a>>, "KeyName") >>
EncryptBatchRequest_Size == << Str(1, "KeyName"), Msgs(1, "Items", BatchEncryptItem_Size) >>
EncryptBatchRequest_Unmarshal ==
  << Str(1, "KeyName"), Msgs(2, "Items", BatchEncryptItem_Unmarshal) >>

BatchEncryptResult_Marshal ==
  << Str(<<\h22>>, "Error"), Str(<<\h1a>>, "Reference"), I32(<<\h10>>, "KeyVersion"),
     Str(<<\h0a>>, "Ciphertext") >>
BatchEncryptResult_Size ==
  << Str(1, "Ciphertext"), I32(1, "KeyVersion"), Str(1, "Reference"), Str(1, "Error") >>
BatchEncryptResult_Unmarshal ==
  << Str(1, "Ciphertext"), I32(2, "KeyVersion"), Str(3, "Reference"), Str(4, "Error") >>

EncryptBatchResponse_Marshal == << Msgs(<<\h0a>>, "Results", BatchEncryptResult_Marshal) >>
EncryptBatchResponse_Size == << Msgs(1, "Results", BatchEncryptResult_Size) >>
EncryptBatchResponse_Unmarshal == << Msgs(1, "Results", BatchEncryptResult_Unmarshal) >>

BatchDecryptItem_Marshal ==
  << Str(<<\h1a>>, "Reference"), Bytes(<<\h12>>, "Context"), Str(<<\h0a>>, "Ciphertext") >>
BatchDecryptItem_Size == << Str(1, "Ciphertext"), Bytes(1, "Context"), Str(1, "Reference") >>
BatchDecryptItem_Unmarshal == << Str(1, "Ciphertext"), Bytes(2, "Context"), Str(3, "Reference") >>

DecryptBatchRequest_Marshal ==
  << Msgs(<<\h12>>, "Items", BatchDecryptItem_Marshal), Str(<<\h0a>>, "KeyName") >>
DecryptBatchRequest_Size == << Str(1, "KeyName"), Msgs(1, "Items", BatchDecryptItem_Size) >>
DecryptBatchRequest_Unmarshal ==
  << Str(1, "KeyName"), Msgs(2, "Items", BatchDecryptItem_Unmarshal) >>

BatchDecryptResult_Marshal ==
  << Str(<<\h22>>, "Error"), Str(<<\h1a>>, "Reference"), I32(<<\h10>>, "KeyVersion"),
     Bytes(<<\h0a>>, "Plaintext") >>
BatchDecryptResult_Size ==
  << Bytes(1, "Plaintext"), I32(1, "KeyVersion"), Str(1, "Reference"), Str(1, "Error") >>
BatchDecryptResult_Unmarshal ==
  << Bytes(1, "Plaintext"), I32(2, "KeyVersion"), Str(3, "Reference"), Str(4, "Error") >>

DecryptBatchResponse_Marshal == << Msgs(<<\h0a>>, "Results", BatchDecryptResult_Marshal) >>
DecryptBatchResponse_Size == << Msgs(1, "Results", BatchDecryptResult_Size) >>
DecryptBatchResponse_Unmarshal == << Msgs(1, "Results", BatchDecryptResult_Unmarshal) >>

SignRequest_Marshal ==
  << I32(<<\h30>>, "KeyVersion"), Bool(<<\h28>>, "Prehashed"),
     Enum(<<\h20>>, "SignatureAlgorithm"), Enum(<<\h18>>, "HashAlgorithm"),
     Bytes(<<\h12>>, "Data"), Str(<<\h0a>>, "KeyName") >>
SignRequest_Size ==
  << Str(1, "KeyName"), Bytes(1, "Data"), Enum(1, "HashAlgorithm"),
     Enum(1, "SignatureAlgorithm"), Bool(1, "Prehashed"), I32(1, "KeyVersion") >>
SignRequest_Unmarshal ==
  << Str(1, "KeyName"), Bytes(2, "Data"), Enum(3, "HashAlgorithm"),
     Enum(4, "SignatureAlgorithm"), Bool(5, "Prehashed"), I32(6, "KeyVersion") >>

SignResponse_Marshal == << I32(<<\h10>>, "KeyVersion"), Bytes(<<\h0a>>, "Signature") >>
SignResponse_Size == << Bytes(1, "Signature"), I32(1, "KeyVersion") >>
SignResponse_Unmarshal == << Bytes(1, "Signature"), I32(2, "KeyVersion") >>

VerifyRequest_Marshal ==
  << I32(<<\h38>>, "KeyVersion"), Bool(<<\h30>>, "Prehashed"),
     Enum(<<\h28>>, "SignatureAlgorithm"), Enum(<<\h20>>, "HashAlgorithm"),
     Bytes(<<\h1a>>, "Signature"), Bytes(<<\h12>>, "Data"), Str(<<\h0a>>, "KeyName") >>
VerifyRequest_Size ==
  << Str(1, "KeyName"), Bytes(1, "Data"), Bytes(1, "Signature"), Enum(1, "HashAlgorithm"),
     Enum(1, "SignatureAlgorithm"), Bool(1, "Prehashed"), I32(1, "KeyVersion") >>
VerifyRequest_Unmarshal ==
  << Str(1, "KeyName"), Bytes(2, "Data"), Bytes(3, "Signature"), Enum(4, "HashAlgorithm"),
     Enum(5, "SignatureAlgorithm"), Bool(6, "Prehashed"), I32(7, "KeyVersion") >>

VerifyResponse_Marshal == << I32(<<\h10>>, "KeyVersion"), Bool(<<\h08>>, "Valid") >>
VerifyResponse_Size == << Bool(1, "Valid"), I32(1, "KeyVersion") >>
VerifyResponse_Unmarshal == << Bool(1, "Valid"), I32(2, "KeyVersion") >>

BatchSignItem_Marshal ==
  << Bool(<<\h18>>, "Prehashed"), Str(<<\h12>>, "Reference"), Bytes(<<\h0a>>, "Data") >>
BatchSignItem_Size == << Bytes(1, "Data"), Str(1, "Reference"), Bool(1, "Prehashed") >>
BatchSignItem_Unmarshal == << Bytes(1, "Data"), Str(2, "Reference"), Bool(3, "Prehashed") >>

SignBatchRequest_Marshal ==
  << Msgs(<<\h22>>, "Items", BatchSignItem_Marshal), Enum(<<\h18>>, "SignatureAlgorithm"),
     Enum(<<\h10>>, "HashAlgorithm"), Str(<<\h0a>>, "KeyName") >>
SignBatchRequest_Size ==
  << Str(1, "KeyName"), Enum(1, "HashAlgorithm"), Enum(1, "SignatureAlgorithm"),
     Msgs(1, "Items", BatchSignItem_Size) >>
SignBatchRequest_Unmarshal ==
  << Str(1, "KeyName"), Enum(2, "HashAlgorithm"), Enum(3, "SignatureAlgorithm"),
     Msgs(4, "Items", BatchSignItem_Unmarshal) >>

BatchSignResult_Marshal ==
  << Str(<<\h22>>, "Error"), Str(<<\h1a>>, "Reference"), I32(<<\h10>>, "KeyVersion"),
     Bytes(<<\h0a>>, "Signature") >>
BatchSignResult_Size ==
  << Bytes(1, "Signature"), I32(1, "KeyVersion"), Str(1, "Reference"), Str(1, "Error") >>
BatchSignResult_Unmarshal ==
  << Bytes(1, "Signature"), I32(2, "KeyVersion"), Str(3, "Reference"), Str(4, "Error") >>

SignBatchResponse_Marshal == << Msgs(<<\h0a>>, "Results", BatchSignResult_Marshal) >>
SignBatchResponse_Size == << Msgs(1, "Results", BatchSignResult_Size) >>
SignBatchResponse_Unmarshal == << Msgs(1, "Results", BatchSignResult_Unmarshal) >>

HMACRequest_Marshal ==
  << I32(<<\h20>>, "KeyVersion"), Enum(<<\h18>>, "Algorithm"), Bytes(<<\h12>>, "Data"),
     Str(<<\h0a>>, "KeyName") >>
HMACRequest_Size ==
  << Str(1, "KeyName"), Bytes(1, "Data"), Enum(1, "Algorithm"), I32(1, "KeyVersion") >>
HMACRequest_Unmarshal ==
  << Str(1, "KeyName"), Bytes(2, "Data"), Enum(3, "Algorithm"), I32(4, "KeyVersion") >>

HMACResponse_Marshal == << I32(<<\h10>>, "KeyVersion"), Bytes(<<\h0a>>, "Hmac") >>
HMACResponse_Size == << Bytes(1, "Hmac"), I32(1, "KeyVersion") >>
HMACResponse_Unmarshal == << Bytes(1, "Hmac"), I32(2, "KeyVersion") >>

VerifyHMACRequest_Marshal ==
  << I32(<<\h28>>, "KeyVersion"), Enum(<<\h20>>, "Algorithm"), Bytes(<<\h1a>>, "Hmac"),
     Bytes(<<\h12>>, "Data"), Str(<<\h0a>>, "KeyName") >>
VerifyHMACRequest_Size ==
  << Str(1, "KeyName"), Bytes(1, "Data"), Bytes(1, "Hmac"), Enum(1, "Algorithm"),
     I32(1, "KeyVersion") >>
VerifyHMACRequest_Unmarshal ==
  << Str(1, "KeyName"), Bytes(2, "Data"), Bytes(3, "Hmac"), Enum(4, "Algorithm"),
     I32(5, "KeyVersion") >>

VerifyHMACResponse_Marshal == << I32(<<\h10>>, "KeyVersion"), Bool(<<\h08>>, "Valid") >>
VerifyHMACResponse_Size == << Bool(1, "Valid"), I32(1, "KeyVersion") >>
VerifyHMACResponse_Unmarshal == << Bool(1, "Valid"), I32(2, "KeyVersion") >>

GenerateDataKeyRequest_Marshal ==
  << Bytes(<<\h1a>>, "Context"), I32(<<\h10>>, "KeyBits"), Str(<<\h0a>>, "KeyName") >>
GenerateDataKeyRequest_Size == << Str(1, "KeyName"), I32(1, "KeyBits"), Bytes(1, "Context") >>
GenerateDataKeyRequest_Unmarshal == << Str(1, "KeyName"), I32(2, "KeyBits"), Bytes(3, "Context") >>

GenerateDataKeyResponse_Marshal ==
  << I32(<<\h18>>, "KeyVersion"), Str(<<\h12>>, "EncryptedKey"),
     Bytes(<<\h0a>>, "PlaintextKey") >>
GenerateDataKeyResponse_Size ==
  << Bytes(1, "PlaintextKey"), Str(1, "EncryptedKey"), I32(1, "KeyVersion") >>
GenerateDataKeyResponse_Unmarshal ==
  << Bytes(1, "PlaintextKey"), Str(2, "EncryptedKey"), I32(3, "KeyVersion") >>

DecryptDataKeyRequest_Marshal ==
  << Bytes(<<\h1a>>, "Context"), Str(<<\h12>>, "EncryptedKey"), Str(<<\h0a>>, "KeyName") >>
DecryptDataKeyRequest_Size == << Str(1, "KeyName"), Str(1, "EncryptedKey"), Bytes(1, "Context") >>
DecryptDataKeyRequest_Unmarshal ==
  << Str(1, "KeyName"), Str(2, "EncryptedKey"), Bytes(3, "Context") >>

DecryptDataKeyResponse_Marshal == << I32(<<\h10>>, "KeyVersion"), Bytes(<<\h0a>>, "PlaintextKey") >>
DecryptDataKeyResponse_Size == << Bytes(1, "PlaintextKey"), I32(1, "KeyVersion") >>
DecryptDataKeyResponse_Unmarshal == << Bytes(1, "PlaintextKey"), I32(2, "KeyVersion") >>

RewrapRequest_Marshal ==
  << Bytes(<<\h1a>>, "Context"), Str(<<\h12>>, "Ciphertext"), Str(<<\h0a>>, "KeyName") >>
RewrapRequest_Size == << Str(1, "KeyName"), Str(1, "Ciphertext"), Bytes(1, "Context") >>
RewrapRequest_Unmarshal == << Str(1, "KeyName"), Str(2, "Ciphertext"), Bytes(3, "Context") >>

RewrapResponse_Marshal == << I32(<<\h10>>, "KeyVersion"), Str(<<\h0a>>, "Ciphertext") >>
RewrapResponse_Size == << Str(1, "Ciphertext"), I32(1, "KeyVersion") >>
RewrapResponse_Unmarshal == << Str(1, "Ciphertext"), I32(2, "KeyVersion") >>

BatchRewrapItem_Marshal ==
  << Str(<<\h1a>>, "Reference"), Bytes(<<\h12>>, "Context"), Str(<<\h0a>>, "Ciphertext") >>
BatchRewrapItem_Size == << Str(1, "Ciphertext"), Bytes(1, "Context"), Str(1, "Reference") >>
BatchRewrapItem_Unmarshal == << Str(1, "Ciphertext"), Bytes(2, "Context"), Str(3, "Reference") >>

RewrapBatchRequest_Marshal ==
  << Msgs(<<\h12>>, "Items", BatchRewrapItem_Marshal), Str(<<\h0a>>, "KeyName") >>
RewrapBatchRequest_Size == << Str(1, "KeyName"), Msgs(1, "Items", BatchRewrapItem_Size) >>
RewrapBatchRequest_Unmarshal == << Str(1, "KeyName"), Msgs(2, "Items", BatchRewrapItem_Unmarshal) >>

BatchRewrapResult_Marshal ==
  << Str(<<\h22>>, "Error"), Str(<<\h1a>>, "Reference"), I32(<<\h10>>, "KeyVersion"),
     Str(<<\h0a>>, "Ciphertext") >>
BatchRewrapResult_Size ==
  << Str(1, "Ciphertext"), I32(1, "KeyVersion"), Str(1, "Reference"), Str(1, "Error") >>
BatchRewrapResult_Unmarshal ==
  << Str(1, "Ciphertext"), I32(2, "KeyVersion"), Str(3, "Reference"), Str(4, "Error") >>

RewrapBatchResponse_Marshal == << Msgs(<<\h0a>>, "Results", BatchRewrapResult_Marshal) >>
RewrapBatchResponse_Size == << Msgs(1, "Results", BatchRewrapResult_Size) >>
RewrapBatchResponse_Unmarshal == << Msgs(1, "Results", BatchRewrapResult_Unmarshal) >>

HashRequest_Marshal ==
  << Str(<<\h1a>>, "Format"), Enum(<<\h10>>, "Algorithm"), Bytes(<<\h0a>>, "Data") >>
HashRequest_Size == << Bytes(1, "Data"), Enum(1, "Algorithm"), Str(1, "Format") >>
HashRequest_Unmarshal == << Bytes(1, "Data"), Enum(2, "Algorithm"), Str(3, "Format") >>

HashResponse_Marshal == << Str(<<\h0a>>, "Hash") >>
HashResponse_Size == << Str(1, "Hash") >>
HashResponse_Unmarshal == << Str(1, "Hash") >>

GenerateRandomRequest_Marshal == << Str(<<\h12>>, "Format"), I32(<<\h08>>, "Bytes") >>
GenerateRandomRequest_Size == << I32(1, "Bytes"), Str(1, "Format") >>
GenerateRandomRequest_Unmarshal == << I32(1, "Bytes"), Str(2, "Format") >>

GenerateRandomResponse_Marshal == << Str(<<\h0a>>, "Data") >>
GenerateRandomResponse_Size == << Str(1, "Data") >>
GenerateRandomResponse_Unmarshal == << Str(1, "Data") >>

(* Every message of the package, by name. *)
CryptoMessages ==
  [ EncryptRequest |-> Message(EncryptRequest_Marshal, EncryptRequest_Size, EncryptRequest_Unmarshal),
    EncryptResponse |-> Message(EncryptResponse_Marshal, EncryptResponse_Size, EncryptResponse_Unmarshal),
    DecryptRequest |-> Message(DecryptRequest_Marshal, DecryptRequest_Size, DecryptRequest_Unmarshal),
    DecryptResponse |-> Message(DecryptResponse_Marshal, DecryptResponse_Size, DecryptResponse_Unmarshal),
    BatchEncryptItem |-> Message(BatchEncryptItem_Marshal, BatchEncryptItem_Size, BatchEncryptItem_Unmarshal),
    EncryptBatchRequest |-> Message(EncryptBatchRequest_Marshal, EncryptBatchRequest_Size, EncryptBatchRequest_Unmarshal),
    BatchEncryptResult |-> Message(BatchEncryptResult_Marshal, BatchEncryptResult_Size, BatchEncryptResult_Unmarshal),
    EncryptBatchResponse |-> Message(EncryptBatchResponse_Marshal, EncryptBatchResponse_Size, EncryptBatchResponse_Unmarshal),
    BatchDecryptItem |-> Message(BatchDecryptItem_Marshal, BatchDecryptItem_Size, BatchDecryptItem_Unmarshal),
    DecryptBatchRequest |-> Message(DecryptBatchRequest_Marshal, DecryptBatchRequest_Size, DecryptBatchRequest_Unmarshal),
    BatchDecryptResult |-> Message(BatchDecryptResult_Marshal, BatchDecryptResult_Size, BatchDecryptResult_Unmarshal),
    DecryptBatchResponse |-> Message(DecryptBatchResponse_Marshal, DecryptBatchResponse_Size, DecryptBatchResponse_Unmarshal),
    SignRequest |-> Message(SignRequest_Marshal, SignRequest_Size, SignRequest_Unmarshal),
    SignResponse |-> Message(SignResponse_Marshal, SignResponse_Size, SignResponse_Unmarshal),
    VerifyRequest |-> Message(VerifyRequest_Marshal, VerifyRequest_Size, VerifyRequest_Unmarshal),
    VerifyResponse |-> Message(VerifyResponse_Marshal, VerifyResponse_Size, VerifyResponse_Unmarshal),
    BatchSignItem |-> Message(BatchSignItem_Marshal, BatchSignItem_Size, BatchSignItem_Unmarshal),
    SignBatchRequest |-> Message(SignBatchRequest_Marshal, SignBatchRequest_Size, SignBatchRequest_Unmarshal),
    BatchSignResult |-> Message(BatchSignResult_Marshal, BatchSignResult_Size, BatchSignResult_Unmarshal),
    SignBatchResponse |-> Message(SignBatchResponse_Marshal, SignBatchResponse_Size, SignBatchResponse_Unmarshal),
    HMACRequest |-> Message(HMACRequest_Marshal, HMACRequest_Size, HMACRequest_Unmarshal),
    HMACResponse |-> Message(HMACResponse_Marshal, HMACResponse_Size, HMACResponse_Unmarshal),
    VerifyHMACRequest |-> Message(VerifyHMACRequest_Marshal, VerifyHMACRequest_Size, VerifyHMACRequest_Unmarshal),
    VerifyHMACResponse |-> Message(VerifyHMACResponse_Marshal, VerifyHMACResponse_Size, VerifyHMACResponse_Unmarshal),
    GenerateDataKeyRequest |-> Message(GenerateDataKeyRequest_Marshal, GenerateDataKeyRequest_Size, GenerateDataKeyRequest_Unmarshal),
    GenerateDataKeyResponse |-> Message(GenerateDataKeyResponse_Marshal, GenerateDataKeyResponse_Size, GenerateDataKeyResponse_Unmarshal),
    DecryptDataKeyRequest |-> Message(DecryptDataKeyRequest_Marshal, DecryptDataKeyRequest_Size, DecryptDataKeyRequest_Unmarshal),
    DecryptDataKeyResponse |-> Message(DecryptDataKeyResponse_Marshal, DecryptDataKeyResponse_Size, DecryptDataKeyResponse_Unmarshal),
    RewrapRequest |-> Message(RewrapRequest_Marshal, RewrapRequest_Size, RewrapRequest_Unmarshal),
    RewrapResponse |-> Message(RewrapResponse_Marshal, RewrapResponse_Size, RewrapResponse_Unmarshal),
    BatchRewrapItem |-> Message(BatchRewrapItem_Marshal, BatchRewrapItem_Size, BatchRewrapItem_Unmarshal),
    RewrapBatchRequest |-> Message(RewrapBatchRequest_Marshal, RewrapBatchRequest_Size, RewrapBatchRequest_Unmarshal),
    BatchRewrapResult |-> Message(BatchRewrapResult_Marshal, BatchRewrapResult_Size, BatchRewrapResult_Unmarshal),
    RewrapBatchResponse |-> Message(RewrapBatchResponse_Marshal, RewrapBatchResponse_Size, RewrapBatchResponse_Unmarshal),
    HashRequest |-> Message(HashRequest_Marshal, HashRequest_Size, HashRequest_Unmarshal),
    HashResponse |-> Message(HashResponse_Marshal, HashResponse_Size, HashResponse_Unmarshal),
    GenerateRandomRequest |-> Message(GenerateRandomRequest_Marshal, GenerateRandomRequest_Size, GenerateRandomRequest_Unmarshal),
    GenerateRandomResponse |-> Message(GenerateRandomResponse_Marshal, GenerateRandomResponse_Size, GenerateRandomResponse_Unmarshal) ]
==============================================================================
