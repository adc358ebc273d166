------------------------------- MODULE Wrappers -------------------------------
(***************************************************************************)
(* The wrappers the plugins put around functions of third-party libraries, *)
(* and the @trace decorator: for each the span it opens, what it carries,  *)
(* how long the span lasts, and when it marks the span as failed. Names,   *)
(* tags and layers are left out. Wrappers with the same behaviour are the  *)
(* same record. PluginSpans says what the fields mean as steps:            *)
(*                                                                         *)
(*  kind       of the span: Entry, Exit or Local                           *)
(*  general    the wrapper sets Component.General                          *)
(*  joins      it passes inherit=Component.General                         *)
(*  ignorable  an ignored method gives NoopSpan(NoopContext()) instead     *)
(*  bypass     under some condition the wrapped function is just called    *)
(*  carries    inject: writes the header;  argument: passes the header to  *)
(*             new_entry_span;  extract: calls span.extract per record,    *)
(*             the header being bytes put through str() in extract_bytes   *)
(*  shape      around: the call runs in the with block;  after: the block  *)
(*             is opened when the call is done and holds nothing;          *)
(*             generator: the block is open between two yields;  events:   *)
(*             span.start() in one callback and span.stop() in another     *)
(*  status     when the answer is looked at: no, returned (the call came   *)
(*             back), finally (in any case), default (in any case, and no  *)
(*             answer counts as 500)                                       *)
(***************************************************************************)

Exit == [kind |-> "Exit", general |-> FALSE, joins |-> FALSE, ignorable |-> FALSE,
         bypass |-> FALSE, carries |-> "no", shape |-> "around", status |-> "no"]
Entry == [Exit EXCEPT !.kind = "Entry"]
Local == [Exit EXCEPT !.kind = "Local"]

-----------------------------------------------------------------------------
(* HTTP clients.                                                           *)

HttpExit == [Exit EXCEPT !.ignorable = TRUE, !.carries = "inject", !.status = "returned"]

requests_request == [HttpExit EXCEPT !.bypass = TRUE]
urllib3_request == HttpExit
urllib3_v2_request == HttpExit
urllib_open == [HttpExit EXCEPT !.general = TRUE, !.status = "finally"]
httpx_async_send == HttpExit
httpx_send == HttpExit
aiohttp_request == [HttpExit EXCEPT !.bypass = TRUE]
websockets_handshake_client == [Exit EXCEPT !.carries = "inject"]
websockets_handshake == [Exit EXCEPT !.carries = "inject"]

HttpClients == {requests_request, urllib3_request, urllib3_v2_request, urllib_open,
                httpx_async_send, httpx_send, aiohttp_request,
                websockets_handshake_client, websockets_handshake}

-----------------------------------------------------------------------------
(* HTTP servers and frameworks.                                            *)

HttpEntry == [Entry EXCEPT !.ignorable = TRUE, !.carries = "argument", !.status = "returned"]

(* The status is remembered by the patched send_response, if it was sent.  *)
werkzeug_run_wsgi == [HttpEntry EXCEPT !.general = TRUE, !.status = "finally"]
http_server_do_method == [HttpEntry EXCEPT !.general = TRUE, !.status = "finally"]
http_server_handle == {werkzeug_run_wsgi, http_server_do_method}

aiohttp_handle_request == [HttpEntry EXCEPT !.bypass = TRUE]
tornado_execute_async == HttpEntry
tornado_execute_coroutine == HttpEntry
flask_full_dispatch_request == [HttpEntry EXCEPT !.joins = TRUE]
django_get_response == [HttpEntry EXCEPT !.bypass = TRUE]
bottle_app_call == [HttpEntry EXCEPT !.joins = TRUE]
pyramid_invoke_request == HttpEntry
(* start_response is wrapped: the status counts once it was called.        *)
falcon_api == [HttpEntry EXCEPT !.status = "finally"]
falcon_v3_app == [HttpEntry EXCEPT !.status = "finally"]
(* The status is set by the patched format_http1_response, see below.      *)
sanic_handle_request == [HttpEntry EXCEPT !.status = "no"]
sanic_v2_listeners == [HttpEntry EXCEPT !.shape = "events"]
fastapi_create_span == [HttpEntry EXCEPT !.joins = TRUE, !.status = "default"]
fastapi_call == [fastapi_create_span EXCEPT !.bypass = TRUE]

HttpServers == http_server_handle \cup
  {aiohttp_handle_request, tornado_execute_async, tornado_execute_coroutine,
   flask_full_dispatch_request, django_get_response, bottle_app_call,
   pyramid_invoke_request, falcon_api, falcon_v3_app, sanic_handle_request,
   sanic_v2_listeners, fastapi_call}

-----------------------------------------------------------------------------
(* Message queues.                                                         *)

Producer == [Exit EXCEPT !.carries = "inject"]
Consumer == [Entry EXCEPT !.carries = "argument"]

rabbitmq_basic_publish == Producer
rabbitmq_callback == Consumer
(* Deferred to the callback when a BlockingChannel is the consumer.        *)
rabbitmq_on_deliver == [Consumer EXCEPT !.bypass = TRUE]
rabbitmq_basic_consume == rabbitmq_callback
(* The callback is called with a function that does nothing.               *)
rabbitmq_basic_get == [rabbitmq_callback EXCEPT !.shape = "after", !.bypass = TRUE]
rabbitmq_consume == [rabbitmq_callback EXCEPT !.shape = "after", !.bypass = TRUE]
kafka_send == [Producer EXCEPT !.bypass = TRUE]
kafka_poll_once == [Entry EXCEPT !.carries = "extract_bytes", !.shape = "after", !.bypass = TRUE]
confluent_produce == Producer
confluent_message == [Entry EXCEPT !.carries = "extract", !.shape = "after", !.bypass = TRUE]
confluent_poll_consume == confluent_message
pulsar_send == Producer
pulsar_receive == [Consumer EXCEPT !.shape = "after", !.bypass = TRUE]
celery_send_task == Producer
(* A task called in its own process has no origin.                         *)
celery_fun == {Consumer, Local}
amqp_basic_publish == Producer
amqp_callback == Consumer
aiormq_basic_publish == Producer
aiormq_callback == Consumer

Queues == celery_fun \cup
  {rabbitmq_basic_publish, rabbitmq_callback, rabbitmq_on_deliver,
   rabbitmq_basic_consume, rabbitmq_basic_get, rabbitmq_consume, kafka_send,
   kafka_poll_once, confluent_produce, confluent_message, confluent_poll_consume,
   pulsar_send, pulsar_receive, celery_send_task, amqp_basic_publish, amqp_callback,
   aiormq_basic_publish, aiormq_callback}

-----------------------------------------------------------------------------
(* Databases and caches: a plain exit span around the call.                *)

redis_send_command == Exit
aioredis_execute_command == Exit
elasticsearch_perform_request == Exit
psycopg_execute == Exit
psycopg_executemany == Exit
psycopg_stream == [Exit EXCEPT !.shape = "generator"]
psycopg_async_execute == Exit
psycopg_async_executemany == Exit
psycopg_async_stream == [Exit EXCEPT !.shape = "generator"]
psycopg2_execute == Exit
psycopg2_executemany == Exit
psycopg2_callproc == Exit
asyncpg_bind == Exit
asyncpg_wrappers == asyncpg_bind
mysqlclient_execute == Exit
pymysql_execute == Exit
neo4j_session_run == Exit
neo4j_transaction_run == Exit
neo4j_async_session_run == Exit
neo4j_async_transaction_run == Exit
happybase_create_table == Exit
happybase_opt == Exit
happybase_operations == happybase_opt
pymongo_command == [Exit EXCEPT !.bypass = TRUE]
pymongo_bulk_execute == Exit
pymongo_send_message == Exit

Databases ==
  {redis_send_command, aioredis_execute_command, elasticsearch_perform_request,
   psycopg_execute, psycopg_executemany, psycopg_stream, psycopg_async_execute,
   psycopg_async_executemany, psycopg_async_stream, psycopg2_execute,
   psycopg2_executemany, psycopg2_callproc, asyncpg_wrappers, mysqlclient_execute,
   pymysql_execute, neo4j_session_run, neo4j_transaction_run, neo4j_async_session_run,
   neo4j_async_transaction_run, happybase_create_table, happybase_operations,
   pymongo_command, pymongo_bulk_execute, pymongo_send_message}

-----------------------------------------------------------------------------
(* gRPC of the host. The client span ends when the call object is there:   *)
(* the outcome of the RPC is not seen. The agent's own channels are passed *)
(* through without interceptors.                                           *)

grpc_server_unary == [Entry EXCEPT !.ignorable = TRUE, !.carries = "argument"]
grpc_server_streaming == [grpc_server_unary EXCEPT !.shape = "generator"]
grpc_intercept_service == {grpc_server_unary, grpc_server_streaming}
grpc_client_intercept == [Exit EXCEPT !.ignorable = TRUE, !.carries = "inject"]
grpc_channel_factory == [grpc_client_intercept EXCEPT !.bypass = TRUE]
grpc_aio_server_unary == [Entry EXCEPT !.ignorable = TRUE, !.carries = "argument"]
grpc_aio_server_streaming == [grpc_aio_server_unary EXCEPT !.shape = "generator"]
grpc_aio_intercept_service == {grpc_aio_server_unary, grpc_aio_server_streaming}
grpc_aio_client_intercept == [Exit EXCEPT !.ignorable = TRUE, !.carries = "inject"]
grpc_aio_interceptors == grpc_aio_client_intercept
grpc_aio_channel == [grpc_aio_interceptors EXCEPT !.bypass = TRUE]

Grpc == grpc_intercept_service \cup grpc_aio_intercept_service \cup
        {grpc_channel_factory, grpc_aio_channel}

-----------------------------------------------------------------------------
trace_decorator == Local

Wrapper == HttpClients \cup HttpServers \cup Queues \cup Databases \cup Grpc
           \cup {trace_decorator}
=============================================================================
