----------------------------- MODULE AuditWire -----------------------------
(* The messages of the audit service (gen/go/audit/v1/audit_vtproto.pb.go). *)
(* For each, the order and the tag bytes of MarshalToSizedBufferVT, the tag *)
(* lengths of SizeVT and the cases of UnmarshalVT, as module Wire reads     *)
(* them.                                                                    *)
EXTENDS Wire

AuditRequest_Marshal ==
  << Str(<<\h22>>, "BodyHash"), MapStr(<<\h1a>>, "Headers"), Str(<<\h12>>, "Operation"),
     Str(<<\h0a>>, "Path") >>
AuditRequest_Size ==
  << Str(1, "Path"), Str(1, "Operation"), MapStr(1, "Headers"), Str(1, "BodyHash") >>
AuditRequest_Unmarshal ==
  << Str(1, "Path"), Str(2, "Operation"), MapStr(3, "Headers"), Str(4, "BodyHash") >>

AuditResponse_Marshal ==
  << Str(<<\h1a>>, "BodyHash"), Str(<<\h12>>, "Error"), I32(<<\h08>>, "StatusCode") >>
AuditResponse_Size == << I32(1, "StatusCode"), Str(1, "Error"), Str(1, "BodyHash") >>
AuditResponse_Unmarshal == << I32(1, "StatusCode"), Str(2, "Error"), Str(3, "BodyHash") >>

AuditEvent_Marshal ==
  << Msg(<<\h82, \h01>>, "Response", AuditResponse_Marshal),
     Msg(<<\h7a>>, "Request", AuditRequest_Marshal), MapStr(<<\h72>>, "Metadata"),
     Str(<<\h6a>>, "ErrorMessage"), Str(<<\h62>>, "ErrorCode"), Bool(<<\h58>>, "Success"),
     Str(<<\h52>>, "ResourceType"), Str(<<\h4a>>, "Resource"), Str(<<\h42>>, "UserAgent"),
     Str(<<\h3a>>, "SourceIp"), Str(<<\h32>>, "TokenId"), Str(<<\h2a>>, "Identity"),
     Str(<<\h22>>, "Operation"), Str(<<\h1a>>, "Service"), Str(<<\h12>>, "Timestamp"),
     Str(<<\h0a>>, "EventId") >>
AuditEvent_Size ==
  << Str(1, "EventId"), Str(1, "Timestamp"), Str(1, "Service"), Str(1, "Operation"),
     Str(1, "Identity"), Str(1, "TokenId"), Str(1, "SourceIp"), Str(1, "UserAgent"),
     Str(1, "Resource"), Str(1, "ResourceType"), Bool(1, "Success"), Str(1, "ErrorCode"),
     Str(1, "ErrorMessage"), MapStr(1, "Metadata"), Msg(1, "Request", AuditRequest_Size),
     Msg(2, "Response", AuditResponse_Size) >>
AuditEvent_Unmarshal ==
  << Str(1, "EventId"), Str(2, "Timestamp"), Str(3, "Service"), Str(4, "Operation"),
     Str(5, "Identity"), Str(6, "TokenId"), Str(7, "SourceIp"), Str(8, "UserAgent"),
     Str(9, "Resource"), Str(10, "ResourceType"), Bool(11, "Success"), Str(12, "ErrorCode"),
     Str(13, "ErrorMessage"), MapStr(14, "Metadata"), Msg(15, "Request", AuditRequest_Unmarshal),
     Msg(16, "Response", AuditResponse_Unmarshal) >>

AuditLog_Marshal ==
  << Str(<<\h22>>, "StorageLocation"), Str(<<\h1a>>, "StoredAt"),
     Msg(<<\h12>>, "Event", AuditEvent_Marshal), Str(<<\h0a>>, "LogId") >>
AuditLog_Size ==
  << Str(1, "LogId"), Msg(1, "Event", AuditEvent_Size), Str(1, "StoredAt"),
     Str(1, "StorageLocation") >>
AuditLog_Unmarshal ==
  << Str(1, "LogId"), Msg(2, "Event", AuditEvent_Unmarshal), Str(3, "StoredAt"),
     Str(4, "StorageLocation") >>

SearchAuditLogsRequest_Marshal ==
  << Bool(<<\h68>>, "SortDesc"), Str(<<\h62>>, "SortBy"), Str(<<\h5a>>, "Cursor"),
     I32(<<\h50>>, "Limit"), Bool(<<\h48>>, "FailureOnly"), Bool(<<\h40>>, "SuccessOnly"),
     I64(<<\h38>>, "EndTime"), I64(<<\h30>>, "StartTime"), Str(<<\h2a>>, "ResourceType"),
     Str(<<\h22>>, "Resource"), Str(<<\h1a>>, "Identity"), Str(<<\h12>>, "Operation"),
     Str(<<\h0a>>, "Service") >>
SearchAuditLogsRequest_Size ==
  << Str(1, "Service"), Str(1, "Operation"), Str(1, "Identity"), Str(1, "Resource"),
     Str(1, "ResourceType"), I64(1, "StartTime"), I64(1, "EndTime"), Bool(1, "SuccessOnly"),
     Bool(1, "FailureOnly"), I32(1, "Limit"), Str(1, "Cursor"), Str(1, "SortBy"),
     Bool(1, "SortDesc") >>
SearchAuditLogsRequest_Unmarshal ==
  << Str(1, "Service"), Str(2, "Operation"), Str(3, "Identity"), Str(4, "Resource"),
     Str(5, "ResourceType"), I64(6, "StartTime"), I64(7, "EndTime"), Bool(8, "SuccessOnly"),
     Bool(9, "FailureOnly"), I32(10, "Limit"), Str(11, "Cursor"), Str(12, "SortBy"),
     Bool(13, "SortDesc") >>

SearchAuditLogsResponse_Marshal ==
  << I64(<<\h18>>, "TotalCount"), Str(<<\h12>>, "NextCursor"),
     Msgs(<<\h0a>>, "Logs", AuditLog_Marshal) >>
SearchAuditLogsResponse_Size ==
  << Msgs(1, "Logs", AuditLog_Size), Str(1, "NextCursor"), I64(1, "TotalCount") >>
SearchAuditLogsResponse_Unmarshal ==
  << Msgs(1, "Logs", AuditLog_Unmarshal), Str(2, "NextCursor"), I64(3, "TotalCount") >>

GetAuditLogRequest_Marshal == << Str(<<\h0a>>, "EventId") >>
GetAuditLogRequest_Size == << Str(1, "EventId") >>
GetAuditLogRequest_Unmarshal == << Str(1, "EventId") >>

GetStatisticsRequest_Marshal ==
  << Str(<<\h2a>>, "Operation"), Str(<<\h22>>, "Service"), Str(<<\h1a>>, "GroupBy"),
     I64(<<\h10>>, "EndTime"), I64(<<\h08>>, "StartTime") >>
GetStatisticsRequest_Size ==
  << I64(1, "StartTime"), I64(1, "EndTime"), Str(1, "GroupBy"), Str(1, "Service"),
     Str(1, "Operation") >>
GetStatisticsRequest_Unmarshal ==
  << I64(1, "StartTime"), I64(2, "EndTime"), Str(3, "GroupBy"), Str(4, "Service"),
     Str(5, "Operation") >>

StatisticsBucket_Marshal ==
  << I64(<<\h20>>, "FailureCount"), I64(<<\h18>>, "SuccessCount"), I64(<<\h10>>, "Count"),
     Str(<<\h0a>>, "Key") >>
StatisticsBucket_Size ==
  << Str(1, "Key"), I64(1, "Count"), I64(1, "SuccessCount"), I64(1, "FailureCount") >>
StatisticsBucket_Unmarshal ==
  << Str(1, "Key"), I64(2, "Count"), I64(3, "SuccessCount"), I64(4, "FailureCount") >>

Statistics_Marshal ==
  << MapI64(<<\h3a>>, "ByIdentity"), MapI64(<<\h32>>, "ByOperation"),
     MapI64(<<\h2a>>, "ByService"), Msgs(<<\h22>>, "Buckets", StatisticsBucket_Marshal),
     I64(<<\h18>>, "FailedEvents"), I64(<<\h10>>, "SuccessfulEvents"),
     I64(<<\h08>>, "TotalEvents") >>
Statistics_Size ==
  << I64(1, "TotalEvents"), I64(1, "SuccessfulEvents"), I64(1, "FailedEvents"),
     Msgs(1, "Buckets", StatisticsBucket_Size), MapI64(1, "ByService"), MapI64(1, "ByOperation"),
     MapI64(1, "ByIdentity") >>
Statistics_Unmarshal ==
  << I64(1, "TotalEvents"), I64(2, "SuccessfulEvents"), I64(3, "FailedEvents"),
     Msgs(4, "Buckets", StatisticsBucket_Unmarshal), MapI64(5, "ByService"),
     MapI64(6, "ByOperation"), MapI64(7, "ByIdentity") >>

ExportLogsRequest_Marshal ==
  << Bool(<<\h40>>, "IncludeResponse"), Bool(<<\h38>>, "IncludeRequest"),
     Enum(<<\h30>>, "Format"), I64(<<\h28>>, "EndTime"), I64(<<\h20>>, "StartTime"),
     Str(<<\h1a>>, "Identity"), Str(<<\h12>>, "Operation"), Str(<<\h0a>>, "Service") >>
ExportLogsRequest_Size ==
  << Str(1, "Service"), Str(1, "Operation"), Str(1, "Identity"), I64(1, "StartTime"),
     I64(1, "EndTime"), Enum(1, "Format"), Bool(1, "IncludeRequest"),
     Bool(1, "IncludeResponse") >>
ExportLogsRequest_Unmarshal ==
  << Str(1, "Service"), Str(2, "Operation"), Str(3, "Identity"), I64(4, "StartTime"),
     I64(5, "EndTime"), Enum(6, "Format"), Bool(7, "IncludeRequest"),
     Bool(8, "IncludeResponse") >>

ExportChunk_Marshal ==
  << I64(<<\h20>>, "TotalRecords"), Bool(<<\h18>>, "IsLast"), I32(<<\h10>>, "ChunkNumber"),
     Bytes(<<\h0a>>, "Data") >>
ExportChunk_Size ==
  << Bytes(1, "Data"), I32(1, "ChunkNumber"), Bool(1, "IsLast"), I64(1, "TotalRecords") >>
ExportChunk_Unmarshal ==
  << Bytes(1, "Data"), I32(2, "ChunkNumber"), Bool(3, "IsLast"), I64(4, "TotalRecords") >>

LogEventRequest_Marshal == << Msg(<<\h0a>>, "Event", AuditEvent_Marshal) >>
LogEventRequest_Size == << Msg(1, "Event", AuditEvent_Size) >>
LogEventRequest_Unmarshal == << Msg(1, "Event", AuditEvent_Unmarshal) >>

LogEventBatchRequest_Marshal == << Msgs(<<\h0a>>, "Events", AuditEvent_Marshal) >>
LogEventBatchRequest_Size == << Msgs(1, "Events", AuditEvent_Size) >>
LogEventBatchRequest_Unmarshal == << Msgs(1, "Events", AuditEvent_Unmarshal) >>

LogEventResponse_Marshal ==
  << Strs(<<\h22>>, "FailedEventIds"), I32(<<\h18>>, "FailedCount"),
     I32(<<\h10>>, "LoggedCount"), Bool(<<\h08>>, "Success") >>
LogEventResponse_Size ==
  << Bool(1, "Success"), I32(1, "LoggedCount"), I32(1, "FailedCount"),
     Strs(1, "FailedEventIds") >>
LogEventResponse_Unmarshal ==
  << Bool(1, "Success"), I32(2, "LoggedCount"), I32(3, "FailedCount"),
     Strs(4, "FailedEventIds") >>

AlertCondition_Marshal ==
  << Str(<<\h3a>>, "ResourcePattern"), Str(<<\h32>>, "IdentityPattern"),
     I64(<<\h28>>, "WindowSeconds"), I32(<<\h20>>, "Threshold"), Bool(<<\h18>>, "OnFailure"),
     Str(<<\h12>>, "Operation"), Str(<<\h0a>>, "Service") >>
AlertCondition_Size ==
  << Str(1, "Service"), Str(1, "Operation"), Bool(1, "OnFailure"), I32(1, "Threshold"),
     I64(1, "WindowSeconds"), Str(1, "IdentityPattern"), Str(1, "ResourcePattern") >>
AlertCondition_Unmarshal ==
  << Str(1, "Service"), Str(2, "Operation"), Bool(3, "OnFailure"), I32(4, "Threshold"),
     I64(5, "WindowSeconds"), Str(6, "IdentityPattern"), Str(7, "ResourcePattern") >>

AlertAction_Marshal ==
  << Str(<<\h1a>>, "Template"), Str(<<\h12>>, "Target"), Enum(<<\h08>>, "Type") >>
AlertAction_Size == << Enum(1, "Type"), Str(1, "Target"), Str(1, "Template") >>
AlertAction_Unmarshal == << Enum(1, "Type"), Str(2, "Target"), Str(3, "Template") >>

AlertRule_Marshal ==
  << I64(<<\h38>>, "CreatedAt"), Bool(<<\h30>>, "Enabled"),
     Msgs(<<\h2a>>, "Actions", AlertAction_Marshal),
     Msg(<<\h22>>, "Condition", AlertCondition_Marshal), Str(<<\h1a>>, "Description"),
     Str(<<\h12>>, "Name"), Str(<<\h0a>>, "Id") >>
AlertRule_Size ==
  << Str(1, "Id"), Str(1, "Name"), Str(1, "Description"),
     Msg(1, "Condition", AlertCondition_Size), Msgs(1, "Actions", AlertAction_Size),
     Bool(1, "Enabled"), I64(1, "CreatedAt") >>
AlertRule_Unmarshal ==
  << Str(1, "Id"), Str(2, "Name"), Str(3, "Description"),
     Msg(4, "Condition", AlertCondition_Unmarshal), Msgs(5, "Actions", AlertAction_Unmarshal),
     Bool(6, "Enabled"), I64(7, "CreatedAt") >>

(* Every message of the package, by name. *)
AuditMessages ==
  [ AuditRequest |-> Message(AuditRequest_Marshal, AuditRequest_Size, AuditRequest_Unmarshal),
    AuditResponse |-> Message(AuditResponse_Marshal, AuditResponse_Size, AuditResponse_Unmarshal),
    AuditEvent |-> Message(AuditEvent_Marshal, AuditEvent_Size, AuditEvent_Unmarshal),
    AuditLog |-> Message(AuditLog_Marshal, AuditLog_Size, AuditLog_Unmarshal),
    SearchAuditLogsRequest |-> Message(SearchAuditLogsRequest_Marshal, SearchAuditLogsRequest_Size, SearchAuditLogsRequest_Unmarshal),
    SearchAuditLogsResponse |-> Message(SearchAuditLogsResponse_Marshal, SearchAuditLogsResponse_Size, SearchAuditLogsResponse_Unmarshal),
    GetAuditLogRequest |-> Message(GetAuditLogRequest_Marshal, GetAuditLogRequest_Size, GetAuditLogRequest_Unmarshal),
    GetStatisticsRequest |-> Message(GetStatisticsRequest_Marshal, GetStatisticsRequest_Size, GetStatisticsRequest_Unmarshal),
    StatisticsBucket |-> Message(StatisticsBucket_Marshal, StatisticsBucket_Size, StatisticsBucket_Unmarshal),
    Statistics |-> Message(Statistics_Marshal, Statistics_Size, Statistics_Unmarshal),
    ExportLogsRequest |-> Message(ExportLogsRequest_Marshal, ExportLogsRequest_Size, ExportLogsRequest_Unmarshal),
    ExportChunk |-> Message(ExportChunk_Marshal, ExportChunk_Size, ExportChunk_Unmarshal),
    LogEventRequest |-> Message(LogEventRequest_Marshal, LogEventRequest_Size, LogEventRequest_Unmarshal),
    LogEventBatchRequest |-> Message(LogEventBatchRequest_Marshal, LogEventBatchRequest_Size, LogEventBatchRequest_Unmarshal),
    LogEventResponse |-> Message(LogEventResponse_Marshal, LogEventResponse_Size, LogEventResponse_Unmarshal),
    AlertCondition |-> Message(AlertCondition_Marshal, AlertCondition_Size, AlertCondition_Unmarshal),
    AlertAction |-> Message(AlertAction_Marshal, AlertAction_Size, AlertAction_Unmarshal),
    AlertRule |-> Message(AlertRule_Marshal, AlertRule_Size, AlertRule_Unmarshal) ]
==============================================================================
