----------------------------- MODULE CommonWire -----------------------------
(* The messages shared by the services                                      *)
(* (gen/go/common/v1/common_vtproto.pb.go). For each, the order and the tag *)
(* bytes of MarshalToSizedBufferVT, the tag lengths of SizeVT and the cases *)
(* of UnmarshalVT, as module Wire reads them.                               *)
EXTENDS Wire

Error_Marshal == << MapStr(<<\h1a>>, "Details"), Str(<<\h12>>, "Message"), I32(<<\h08>>, "Code") >>
Error_Size == << I32(1, "Code"), Str(1, "Message"), MapStr(1, "Details") >>
Error_Unmarshal == << I32(1, "Code"), Str(2, "Message"), MapStr(3, "Details") >>

PaginationRequest_Marshal == << Str(<<\h12>>, "PageToken"), I32(<<\h08>>, "PageSize") >>
PaginationRequest_Size == << I32(1, "PageSize"), Str(1, "PageToken") >>
PaginationRequest_Unmarshal == << I32(1, "PageSize"), Str(2, "PageToken") >>

PaginationResponse_Marshal == << I32(<<\h10>>, "TotalCount"), Str(<<\h0a>>, "NextPageToken") >>
PaginationResponse_Size == << Str(1, "NextPageToken"), I32(1, "TotalCount") >>
PaginationResponse_Unmarshal == << Str(1, "NextPageToken"), I32(2, "TotalCount") >>

RequestMetadata_Marshal ==
  << I64(<<\h20>>, "Timestamp"), Str(<<\h1a>>, "UserAgent"), Str(<<\h12>>, "ClientIp"),
     Str(<<\h0a>>, "RequestId") >>
RequestMetadata_Size ==
  << Str(1, "RequestId"), Str(1, "ClientIp"), Str(1, "UserAgent"), I64(1, "Timestamp") >>
RequestMetadata_Unmarshal ==
  << Str(1, "RequestId"), Str(2, "ClientIp"), Str(3, "UserAgent"), I64(4, "Timestamp") >>

(* Every message of the package, by name. *)
CommonMessages ==
  [ Error |-> Message(Error_Marshal, Error_Size, Error_Unmarshal),
    PaginationRequest |-> Message(PaginationRequest_Marshal, PaginationRequest_Size, PaginationRequest_Unmarshal),
    PaginationResponse |-> Message(PaginationResponse_Marshal, PaginationResponse_Size, PaginationResponse_Unmarshal),
    RequestMetadata |-> Message(RequestMetadata_Marshal, RequestMetadata_Size, RequestMetadata_Unmarshal) ]
==============================================================================
