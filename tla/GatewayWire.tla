---------------------------- MODULE GatewayWire ----------------------------
(* The messages of the gateway (gen/go/gateway/v1/gateway_vtproto.pb.go).   *)
(* For each, the order and the tag bytes of MarshalToSizedBufferVT, the tag *)
(* lengths of SizeVT and the cases of UnmarshalVT, as module Wire reads     *)
(* them.                                                                    *)
EXTENDS Wire

HealthRequest_Marshal == << >>
HealthRequest_Size == << >>
HealthRequest_Unmarshal == << >>

HealthResponse_Marshal ==
  << I64(<<\h18>>, "UptimeSeconds"), Str(<<\h12>>, "Version"), Bool(<<\h08>>, "Healthy") >>
HealthResponse_Size == << Bool(1, "Healthy"), Str(1, "Version"), I64(1, "UptimeSeconds") >>
HealthResponse_Unmarshal == << Bool(1, "Healthy"), Str(2, "Version"), I64(3, "UptimeSeconds") >>

StatusRequest_Marshal == << Bool(<<\h08>>, "IncludeServices") >>
StatusRequest_Size == << Bool(1, "IncludeServices") >>
StatusRequest_Unmarshal == << Bool(1, "IncludeServices") >>

ServiceStatus_Marshal ==
  << Str(<<\h2a>>, "Error"), I64(<<\h20>>, "LatencyMs"), Str(<<\h1a>>, "Address"),
     Bool(<<\h10>>, "Healthy"), Str(<<\h0a>>, "Name") >>
ServiceStatus_Size ==
  << Str(1, "Name"), Bool(1, "Healthy"), Str(1, "Address"), I64(1, "LatencyMs"),
     Str(1, "Error") >>
ServiceStatus_Unmarshal ==
  << Str(1, "Name"), Bool(2, "Healthy"), Str(3, "Address"), I64(4, "LatencyMs"),
     Str(5, "Error") >>

MetricsSummary_Marshal ==
  << F64(<<\h29>>, "P99LatencyMs"), F64(<<\h21>>, "AvgLatencyMs"), F64(<<\h19>>, "ErrorRate"),
     I64(<<\h10>>, "RequestsPerSecond"), I64(<<\h08>>, "TotalRequests") >>
MetricsSummary_Size ==
  << I64(1, "TotalRequests"), I64(1, "RequestsPerSecond"), F64(1, "ErrorRate"),
     F64(1, "AvgLatencyMs"), F64(1, "P99LatencyMs") >>
MetricsSummary_Unmarshal ==
  << I64(1, "TotalRequests"), I64(2, "RequestsPerSecond"), F64(3, "ErrorRate"),
     F64(4, "AvgLatencyMs"), F64(5, "P99LatencyMs") >>

StatusResponse_Marshal ==
  << Msg(<<\h2a>>, "Metrics", MetricsSummary_Marshal),
     Msgs(<<\h22>>, "Services", ServiceStatus_Marshal), I64(<<\h18>>, "UptimeSeconds"),
     Str(<<\h12>>, "Version"), Bool(<<\h08>>, "Healthy") >>
StatusResponse_Size ==
  << Bool(1, "Healthy"), Str(1, "Version"), I64(1, "UptimeSeconds"),
     Msgs(1, "Services", ServiceStatus_Size), Msg(1, "Metrics", MetricsSummary_Size) >>
StatusResponse_Unmarshal ==
  << Bool(1, "Healthy"), Str(2, "Version"), I64(3, "UptimeSeconds"),
     Msgs(4, "Services", ServiceStatus_Unmarshal), Msg(5, "Metrics", MetricsSummary_Unmarshal) >>

ListServicesRequest_Marshal == << >>
ListServicesRequest_Size == << >>
ListServicesRequest_Unmarshal == << >>

ServiceInfo_Marshal ==
  << Strs(<<\h22>>, "Endpoints"), Bool(<<\h18>>, "Healthy"), Str(<<\h12>>, "Address"),
     Str(<<\h0a>>, "Name") >>
ServiceInfo_Size ==
  << Str(1, "Name"), Str(1, "Address"), Bool(1, "Healthy"), Strs(1, "Endpoints") >>
ServiceInfo_Unmarshal ==
  << Str(1, "Name"), Str(2, "Address"), Bool(3, "Healthy"), Strs(4, "Endpoints") >>

ListServicesResponse_Marshal == << Msgs(<<\h0a>>, "Services", ServiceInfo_Marshal) >>
ListServicesResponse_Size == << Msgs(1, "Services", ServiceInfo_Size) >>
ListServicesResponse_Unmarshal == << Msgs(1, "Services", ServiceInfo_Unmarshal) >>

(* Every message of the package, by name. *)
GatewayMessages ==
  [ HealthRequest |-> Message(HealthRequest_Marshal, HealthRequest_Size, HealthRequest_Unmarshal),
    HealthResponse |-> Message(HealthResponse_Marshal, HealthResponse_Size, HealthResponse_Unmarshal),
    StatusRequest |-> Message(StatusRequest_Marshal, StatusRequest_Size, StatusRequest_Unmarshal),
    ServiceStatus |-> Message(ServiceStatus_Marshal, ServiceStatus_Size, ServiceStatus_Unmarshal),
    MetricsSummary |-> Message(MetricsSummary_Marshal, MetricsSummary_Size, MetricsSummary_Unmarshal),
    StatusResponse |-> Message(StatusResponse_Marshal, StatusResponse_Size, StatusResponse_Unmarshal),
    ListServicesRequest |-> Message(ListServicesRequest_Marshal, ListServicesRequest_Size, ListServicesRequest_Unmarshal),
    ServiceInfo |-> Message(ServiceInfo_Marshal, ServiceInfo_Size, ServiceInfo_Unmarshal),
    ListServicesResponse |-> Message(ListServicesResponse_Marshal, ListServicesResponse_Size, ListServicesResponse_Unmarshal) ]
==============================================================================
