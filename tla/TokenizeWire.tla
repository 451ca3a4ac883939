---------------------------- MODULE TokenizeWire ----------------------------
(* The messages of the tokenize service                                     *)
(* (gen/go/tokenize/v1/tokenize_vtproto.pb.go). For each, the order and the *)
(* tag bytes of MarshalToSizedBufferVT, the tag lengths of SizeVT and the   *)
(* cases of UnmarshalVT, as module Wire reads them.                         *)
EXTENDS Wire

FPEEncryptRequest_Marshal ==
  << Str(<<\h2a>>, "Alphabet"), Bytes(<<\h22>>, "Tweak"), Str(<<\h1a>>, "Transformation"),
     Str(<<\h12>>, "Plaintext"), Str(<<\h0a>>, "KeyName") >>
FPEEncryptRequest_Size ==
  << Str(1, "KeyName"), Str(1, "Plaintext"), Str(1, "Transformation"), Bytes(1, "Tweak"),
     Str(1, "Alphabet") >>
FPEEncryptRequest_Unmarshal ==
  << Str(1, "KeyName"), Str(2, "Plaintext"), Str(3, "Transformation"), Bytes(4, "Tweak"),
     Str(5, "Alphabet") >>

FPEEncryptResponse_Marshal == << I32(<<\h10>>, "KeyVersion"), Str(<<\h0a>>, "Ciphertext") >>
FPEEncryptResponse_Size == << Str(1, "Ciphertext"), I32(1, "KeyVersion") >>
FPEEncryptResponse_Unmarshal == << Str(1, "Ciphertext"), I32(2, "KeyVersion") >>

FPEDecryptRequest_Marshal ==
  << I32(<<\h30>>, "KeyVersion"), Str(<<\h2a>>, "Alphabet"), Bytes(<<\h22>>, "Tweak"),
     Str(<<\h1a>>, "Transformation"), Str(<<\h12>>, "Ciphertext"), Str(<<\h0a>>, "KeyName") >>
FPEDecryptRequest_Size ==
  << Str(1, "KeyName"), Str(1, "Ciphertext"), Str(1, "Transformation"), Bytes(1, "Tweak"),
     Str(1, "Alphabet"), I32(1, "KeyVersion") >>
FPEDecryptRequest_Unmarshal ==
  << Str(1, "KeyName"), Str(2, "Ciphertext"), Str(3, "Transformation"), Bytes(4, "Tweak"),
     Str(5, "Alphabet"), I32(6, "KeyVersion") >>

FPEDecryptResponse_Marshal == << I32(<<\h10>>, "KeyVersion"), Str(<<\h0a>>, "Plaintext") >>
FPEDecryptResponse_Size == << Str(1, "Plaintext"), I32(1, "KeyVersion") >>
FPEDecryptResponse_Unmarshal == << Str(1, "Plaintext"), I32(2, "KeyVersion") >>

FPEBatchItem_Marshal ==
  << Str(<<\h1a>>, "Reference"), Bytes(<<\h12>>, "Tweak"), Str(<<\h0a>>, "Value") >>
FPEBatchItem_Size == << Str(1, "Value"), Bytes(1, "Tweak"), Str(1, "Reference") >>
FPEBatchItem_Unmarshal == << Str(1, "Value"), Bytes(2, "Tweak"), Str(3, "Reference") >>

FPEBatchRequest_Marshal ==
  << Bool(<<\h28>>, "IsDecrypt"), Msgs(<<\h22>>, "Items", FPEBatchItem_Marshal),
     Str(<<\h1a>>, "Alphabet"), Str(<<\h12>>, "Transformation"), Str(<<\h0a>>, "KeyName") >>
FPEBatchRequest_Size ==
  << Str(1, "KeyName"), Str(1, "Transformation"), Str(1, "Alphabet"),
     Msgs(1, "Items", FPEBatchItem_Size), Bool(1, "IsDecrypt") >>
FPEBatchRequest_Unmarshal ==
  << Str(1, "KeyName"), Str(2, "Transformation"), Str(3, "Alphabet"),
     Msgs(4, "Items", FPEBatchItem_Unmarshal), Bool(5, "IsDecrypt") >>

FPEBatchResult_Marshal ==
  << Str(<<\h22>>, "Error"), Str(<<\h1a>>, "Reference"), I32(<<\h10>>, "KeyVersion"),
     Str(<<\h0a>>, "Value") >>
FPEBatchResult_Size ==
  << Str(1, "Value"), I32(1, "KeyVersion"), Str(1, "Reference"), Str(1, "Error") >>
FPEBatchResult_Unmarshal ==
  << Str(1, "Value"), I32(2, "KeyVersion"), Str(3, "Reference"), Str(4, "Error") >>

FPEBatchResponse_Marshal == << Msgs(<<\h0a>>, "Results", FPEBatchResult_Marshal) >>
FPEBatchResponse_Size == << Msgs(1, "Results", FPEBatchResult_Size) >>
FPEBatchResponse_Unmarshal == << Msgs(1, "Results", FPEBatchResult_Unmarshal) >>

MaskRange_Marshal == << Str(<<\h1a>>, "MaskChar"), I32(<<\h10>>, "End"), I32(<<\h08>>, "Start") >>
MaskRange_Size == << I32(1, "Start"), I32(1, "End"), Str(1, "MaskChar") >>
MaskRange_Unmarshal == << I32(1, "Start"), I32(2, "End"), Str(3, "MaskChar") >>

MaskPattern_Marshal ==
  << Msgs(<<\h22>>, "Ranges", MaskRange_Marshal), Str(<<\h1a>>, "MaskChar"),
     I32(<<\h10>>, "PreserveLast"), I32(<<\h08>>, "PreserveFirst") >>
MaskPattern_Size ==
  << I32(1, "PreserveFirst"), I32(1, "PreserveLast"), Str(1, "MaskChar"),
     Msgs(1, "Ranges", MaskRange_Size) >>
MaskPattern_Unmarshal ==
  << I32(1, "PreserveFirst"), I32(2, "PreserveLast"), Str(3, "MaskChar"),
     Msgs(4, "Ranges", MaskRange_Unmarshal) >>

MaskRequest_Marshal ==
  << Msg(<<\h1a>>, "Pattern", MaskPattern_Marshal), Str(<<\h12>>, "Transformation"),
     Str(<<\h0a>>, "Value") >>
MaskRequest_Size ==
  << Str(1, "Value"), Str(1, "Transformation"), Msg(1, "Pattern", MaskPattern_Size) >>
MaskRequest_Unmarshal ==
  << Str(1, "Value"), Str(2, "Transformation"), Msg(3, "Pattern", MaskPattern_Unmarshal) >>

MaskResponse_Marshal == << Str(<<\h0a>>, "MaskedValue") >>
MaskResponse_Size == << Str(1, "MaskedValue") >>
MaskResponse_Unmarshal == << Str(1, "MaskedValue") >>

MaskBatchItem_Marshal == << Str(<<\h12>>, "Reference"), Str(<<\h0a>>, "Value") >>
MaskBatchItem_Size == << Str(1, "Value"), Str(1, "Reference") >>
MaskBatchItem_Unmarshal == << Str(1, "Value"), Str(2, "Reference") >>

MaskBatchRequest_Marshal ==
  << Msgs(<<\h1a>>, "Items", MaskBatchItem_Marshal),
     Msg(<<\h12>>, "Pattern", MaskPattern_Marshal), Str(<<\h0a>>, "Transformation") >>
MaskBatchRequest_Size ==
  << Str(1, "Transformation"), Msg(1, "Pattern", MaskPattern_Size),
     Msgs(1, "Items", MaskBatchItem_Size) >>
MaskBatchRequest_Unmarshal ==
  << Str(1, "Transformation"), Msg(2, "Pattern", MaskPattern_Unmarshal),
     Msgs(3, "Items", MaskBatchItem_Unmarshal) >>

MaskBatchResult_Marshal ==
  << Str(<<\h1a>>, "Error"), Str(<<\h12>>, "Reference"), Str(<<\h0a>>, "MaskedValue") >>
MaskBatchResult_Size == << Str(1, "MaskedValue"), Str(1, "Reference"), Str(1, "Error") >>
MaskBatchResult_Unmarshal == << Str(1, "MaskedValue"), Str(2, "Reference"), Str(3, "Error") >>

MaskBatchResponse_Marshal == << Msgs(<<\h0a>>, "Results", MaskBatchResult_Marshal) >>
MaskBatchResponse_Size == << Msgs(1, "Results", MaskBatchResult_Size) >>
MaskBatchResponse_Unmarshal == << Msgs(1, "Results", MaskBatchResult_Unmarshal) >>

Transformation_Marshal ==
  << I64(<<\h38>>, "CreatedAt"), Msg(<<\h32>>, "DefaultMask", MaskPattern_Marshal),
     Str(<<\h2a>>, "Description"), Str(<<\h22>>, "Pattern"), Enum(<<\h18>>, "Type"),
     Str(<<\h12>>, "Alphabet"), Str(<<\h0a>>, "Name") >>
Transformation_Size ==
  << Str(1, "Name"), Str(1, "Alphabet"), Enum(1, "Type"), Str(1, "Pattern"),
     Str(1, "Description"), Msg(1, "DefaultMask", MaskPattern_Size), I64(1, "CreatedAt") >>
Transformation_Unmarshal ==
  << Str(1, "Name"), Str(2, "Alphabet"), Enum(3, "Type"), Str(4, "Pattern"),
     Str(5, "Description"), Msg(6, "DefaultMask", MaskPattern_Unmarshal), I64(7, "CreatedAt") >>

ListTransformationsRequest_Marshal == << >>
ListTransformationsRequest_Size == << >>
ListTransformationsRequest_Unmarshal == << >>

ListTransformationsResponse_Marshal ==
  << Msgs(<<\h0a>>, "Transformations", Transformation_Marshal) >>
ListTransformationsResponse_Size == << Msgs(1, "Transformations", Transformation_Size) >>
ListTransformationsResponse_Unmarshal == << Msgs(1, "Transformations", Transformation_Unmarshal) >>

GetTransformationRequest_Marshal == << Str(<<\h0a>>, "Name") >>
GetTransformationRequest_Size == << Str(1, "Name") >>
GetTransformationRequest_Unmarshal == << Str(1, "Name") >>

CreateTransformationRequest_Marshal ==
  << Msg(<<\h32>>, "DefaultMask", MaskPattern_Marshal), Str(<<\h2a>>, "Description"),
     Str(<<\h22>>, "Pattern"), Enum(<<\h18>>, "Type"), Str(<<\h12>>, "Alphabet"),
     Str(<<\h0a>>, "Name") >>
CreateTransformationRequest_Size ==
  << Str(1, "Name"), Str(1, "Alphabet"), Enum(1, "Type"), Str(1, "Pattern"),
     Str(1, "Description"), Msg(1, "DefaultMask", MaskPattern_Size) >>
CreateTransformationRequest_Unmarshal ==
  << Str(1, "Name"), Str(2, "Alphabet"), Enum(3, "Type"), Str(4, "Pattern"),
     Str(5, "Description"), Msg(6, "DefaultMask", MaskPattern_Unmarshal) >>

CreateTransformationResponse_Marshal ==
  << Msg(<<\h0a>>, "Transformation", Transformation_Marshal) >>
CreateTransformationResponse_Size == << Msg(1, "Transformation", Transformation_Size) >>
CreateTransformationResponse_Unmarshal == << Msg(1, "Transformation", Transformation_Unmarshal) >>

DeleteTransformationRequest_Marshal == << Str(<<\h0a>>, "Name") >>
DeleteTransformationRequest_Size == << Str(1, "Name") >>
DeleteTransformationRequest_Unmarshal == << Str(1, "Name") >>

DeleteTransformationResponse_Marshal == << Bool(<<\h08>>, "Success") >>
DeleteTransformationResponse_Size == << Bool(1, "Success") >>
DeleteTransformationResponse_Unmarshal == << Bool(1, "Success") >>

(* Every message of the package, by name. *)
TokenizeMessages ==
  [ FPEEncryptRequest |-> Message(FPEEncryptRequest_Marshal, FPEEncryptRequest_Size, FPEEncryptRequest_Unmarshal),
    FPEEncryptResponse |-> Message(FPEEncryptResponse_Marshal, FPEEncryptResponse_Size, FPEEncryptResponse_Unmarshal),
    FPEDecryptRequest |-> Message(FPEDecryptRequest_Marshal, FPEDecryptRequest_Size, FPEDecryptRequest_Unmarshal),
    FPEDecryptResponse |-> Message(FPEDecryptResponse_Marshal, FPEDecryptResponse_Size, FPEDecryptResponse_Unmarshal),
    FPEBatchItem |-> Message(FPEBatchItem_Marshal, FPEBatchItem_Size, FPEBatchItem_Unmarshal),
    FPEBatchRequest |-> Message(FPEBatchRequest_Marshal, FPEBatchRequest_Size, FPEBatchRequest_Unmarshal),
    FPEBatchResult |-> Message(FPEBatchResult_Marshal, FPEBatchResult_Size, FPEBatchResult_Unmarshal),
    FPEBatchResponse |-> Message(FPEBatchResponse_Marshal, FPEBatchResponse_Size, FPEBatchResponse_Unmarshal),
    MaskRange |-> Message(MaskRange_Marshal, MaskRange_Size, MaskRange_Unmarshal),
    MaskPattern |-> Message(MaskPattern_Marshal, MaskPattern_Size, MaskPattern_Unmarshal),
    MaskRequest |-> Message(MaskRequest_Marshal, MaskRequest_Size, MaskRequest_Unmarshal),
    MaskResponse |-> Message(MaskResponse_Marshal, MaskResponse_Size, MaskResponse_Unmarshal),
    MaskBatchItem |-> Message(MaskBatchItem_Marshal, MaskBatchItem_Size, MaskBatchItem_Unmarshal),
    MaskBatchRequest |-> Message(MaskBatchRequest_Marshal, MaskBatchRequest_Size, MaskBatchRequest_Unmarshal),
    MaskBatchResult |-> Message(MaskBatchResult_Marshal, MaskBatchResult_Size, MaskBatchResult_Unmarshal),
    MaskBatchResponse |-> Message(MaskBatchResponse_Marshal, MaskBatchResponse_Size, MaskBatchResponse_Unmarshal),
    Transformation |-> Message(Transformation_Marshal, Transformation_Size, Transformation_Unmarshal),
    ListTransformationsRequest |-> Message(ListTransformationsRequest_Marshal, ListTransformationsRequest_Size, ListTransformationsRequest_Unmarshal),
    ListTransformationsResponse |-> Message(ListTransformationsResponse_Marshal, ListTransformationsResponse_Size, ListTransformationsResponse_Unmarshal),
    GetTransformationRequest |-> Message(GetTransformationRequest_Marshal, GetTransformationRequest_Size, GetTransformationRequest_Unmarshal),
    CreateTransformationRequest |-> Message(CreateTransformationRequest_Marshal, CreateTransformationRequest_Size, CreateTransformationRequest_Unmarshal),
    CreateTransformationResponse |-> Message(CreateTransformationResponse_Marshal, CreateTransformationResponse_Size, CreateTransformationResponse_Unmarshal),
    DeleteTransformationRequest |-> Message(DeleteTransformationRequest_Marshal, DeleteTransformationRequest_Size, DeleteTransformationRequest_Unmarshal),
    DeleteTransformationResponse |-> Message(DeleteTransformationResponse_Marshal, DeleteTransformationResponse_Size, DeleteTransformationResponse_Unmarshal) ]
==============================================================================
