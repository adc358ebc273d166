------------------------- MODULE MCHttpKafkaReporters -------------------------
(* Every route whose generator hands its items on: all but the lists of    *)
(* the aio clients, which AsyncLists holds.                                *)
EXTENDS HttpKafkaReporters

AsyncLists == {AioHttpLogs, AioKafkaMeters}
OtherRoutes == {HttpSegments, HttpLogs, KafkaSegments, KafkaLogs, KafkaMeters,
                AioHttpSegments, AioKafkaSegments, AioKafkaLogs}
=============================================================================
