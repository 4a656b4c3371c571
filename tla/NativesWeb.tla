---------------------------- MODULE NativesWeb -----------------------------
(****************************************************************************)
(* The native methods of okhttp, okio, jsoup, JSON, serialization, Rx and   *)
(* the extension API.                                                       *)
(* A table is a set of <<class, members>>: the members it registers for the   *)
(* class.  A member is its name, with its descriptor in simple class names    *)
(* where the tables use the name with more than one descriptor.  No two       *)
(* entries have one class, name and descriptor, so the order of registration  *)
(* cannot be seen and is left out, and so is the Rust function registered.    *)
(****************************************************************************)

(* injekt/mod.rs, 60 to 89 *)
INJEKT_TABLE ==
    { <<"uy/kohesive/injekt/InjektKt", {"getInjekt"}>>,
      <<"uy/kohesive/injekt/api/InjektFactory", {"getInstance(Type)Object"}>>,
      <<"uy/kohesive/injekt/api/FullTypeReference", {"<init>()V", "getType"}>> }

(* json.rs, 452 to 599 *)
JSON_TABLE_1 ==
    { <<"org/json/JSONObject",
         {"<init>()V", "<init>(String)V", "<init>(Map)V", "get(String)Object",
          "getString(String)String", "getJSONObject(String)JSONObject",
          "getJSONArray(String)JSONArray", "getLong(String)J", "getInt(String)I",
          "getBoolean(String)Z", "has", "keys", "put(String,Object)JSONObject",
          "put(String,I)JSONObject", "put(String,J)JSONObject",
          "put(String,D)JSONObject", "put(String,Z)JSONObject",
          "optString(String)String", "optString(String,String)String",
          "optLong(String)J", "optLong(String,J)J"}>> }

(* json.rs, 600 to 726 *)
JSON_TABLE_2 ==
    { <<"org/json/JSONObject",
         {"optInt(String)I", "optInt(String,I)I", "optJSONObject", "optJSONArray",
          "remove(String)Object", "toString()String", "quote"}>>,
      <<"org/json/JSONArray",
         {"<init>()V", "<init>(String)V", "length()I", "get(I)Object",
          "getString(I)String", "getJSONObject(I)JSONObject",
          "getJSONArray(I)JSONArray", "put(Object)JSONArray", "put(I)JSONArray", "opt",
          "toString()String"}>> }

(* jsoup/mod.rs, 1893 to 2040 *)
JSOUP_TABLE_1 ==
    { <<"org/jsoup/Jsoup",
         {"parse(InputStream,String,String)Document", "parse(String,String)Document",
          "parse(String)Document", "parseBodyFragment(String)Document",
          "parseBodyFragment(String,String)Document"}>>,
      <<"org/jsoup/nodes/Document",
         {"select(String)Elements", "text", "location", "title"}>>,
      <<"org/jsoup/nodes/Element",
         {"select(String)Elements", "selectFirst(String)Element", "text", "data",
          "val", "attr(String)String", "absUrl", "parent", "parents",
          "previousElementSibling", "nextElementSibling", "children"}>> }

(* jsoup/mod.rs, 2041 to 2187 *)
JSOUP_TABLE_2 ==
    { <<"org/jsoup/nodes/Element",
         {"hasAttr", "id", "tagName", "ownText", "html()String", "outerHtml"}>>,
      <<"org/jsoup/select/Elements",
         {"first()Element", "get(I)Element", "get(I)Object", "size()I", "isEmpty",
          "text", "last()Element", "eachText", "attr(String)String", "eachAttr",
          "select(String)Elements"}>>,
      <<"org/jsoup/parser/Parser", {"unescapeEntities", "xmlParser", "htmlParser"}>>,
      <<"org/jsoup/nodes/Entities", {"unescape"}>> }

(* jsoup/mod.rs, 2188 to 2334 *)
JSOUP_TABLE_3 ==
    { <<"org/jsoup/helper/Validate", {"notEmpty", "notNull"}>>,
      <<"org/jsoup/safety/Safelist", {"none"}>>,
      <<"org/jsoup/select/QueryParser", {"parse(String)Evaluator"}>>,
      <<"org/jsoup/select/Collector", {"findFirst"}>>,
      <<"org/jsoup/select/Evaluator", {"toString()String"}>>,
      <<"org/jsoup/select/Evaluator$Tag", {"<init>(String)V"}>>,
      <<"org/jsoup/select/Evaluator$Class", {"<init>(String)V"}>>,
      <<"org/jsoup/select/Evaluator$Id", {"<init>(String)V"}>>,
      <<"org/jsoup/nodes/TextNode", {"<init>(String)V", "text", "getWholeText"}>>,
      <<"org/jsoup/nodes/Attribute", {"getKey()String", "getValue()String"}>>,
      <<"org/jsoup/nodes/Attributes", {"asList()List"}>>,
      <<"org/jsoup/nodes/Node", {"nodeName"}>>,
      <<"org/jsoup/nodes/Document", {"nodeName", "wholeText"}>>,
      <<"org/jsoup/nodes/Element", {"nodeName", "wholeText", "wholeOwnText"}>> }

(* jsoup/mod.rs, 2335 to 2481 *)
JSOUP_TABLE_4 ==
    { <<"org/jsoup/nodes/Element",
         {"hasClass", "child", "select(Evaluator)Elements",
          "selectFirst(Evaluator)Element", "nextSibling", "closest",
          "attr(String,String)Element", "textNodes", "childNodes", "ownerDocument"}>>,
      <<"org/jsoup/select/Elements",
         {"hasClass", "remove()Elements", "<init>()V", "attr(String,String)Elements",
          "html()String", "clone()Elements"}>>,
      <<"org/jsoup/nodes/Document",
         {"body()Element", "head()Element", "select(Evaluator)Elements",
          "selectFirst(Evaluator)Element", "createElement"}>> }

(* jsoup/mod.rs, 2482 to 2628 *)
JSOUP_TABLE_5 ==
    { <<"org/jsoup/nodes/Element",
         {"attributes", "remove()V", "classNames", "baseUri", "getElementsByClass",
          "append(String)Element", "prepend(String)Element", "dataset", "replaceWith"}>>,
      <<"org/jsoup/select/Elements",
         {"hasText", "prepend(String)Elements", "hasAttr", "not", "next()Elements"}>>,
      <<"org/jsoup/Jsoup", {"parse(String,String,Parser)Document", "clean"}>>,
      <<"org/jsoup/nodes/Document",
         {"baseUri", "getElementById", "getElementsByClass", "getElementsByTag",
          "setBaseUri"}>> }

(* jsoup/mod.rs, 2629 to 2734 *)
JSOUP_TABLE_6 ==
    { <<"org/jsoup/nodes/Element",
         {"getElementsContainingText", "nextElementSiblings",
          "previousElementSiblings", "clone()Element", "getAllElements",
          "html(String)Element", "is", "normalName", "prependElement", "tag()Tag"}>>,
      <<"org/jsoup/select/Elements", {"selectFirst(String)Element", "removeFirst"}>>,
      <<"org/jsoup/nodes/Document", {"clone()Document", "selectXpath"}>>,
      <<"org/jsoup/parser/Tag", {"normalName"}>> }

(* keiyoushi.rs, 1589 to 1735 *)
KEIYOUSHI_TABLE_1 ==
    { <<"eu/kanade/tachiyomi/network/RequestsKt",
         {"GET(String,Headers,CacheControl)Request",
          "GET(HttpUrl,Headers,CacheControl)Request",
          "GET$default(String,Headers,CacheControl,I,Object)Request",
          "GET$default(HttpUrl,Headers,CacheControl,I,Object)Request",
          "__host_execute", "POST$default", "POST"}>>,
      <<"eu/kanade/tachiyomi/source/model/SManga",
         {"<init>()V", "getTitle", "setTitle(String)V", "getAuthor", "setAuthor",
          "getArtist", "setArtist", "getDescription", "setDescription", "getGenre",
          "setGenre", "getThumbnail_url", "setThumbnail_url", "getUrl()String",
          "setUrl", "getStatus", "setStatus", "getUpdate_strategy",
          "setUpdate_strategy", "setInitialized", "getMemo", "setMemo",
          "getUrlWithoutDomain"}>>,
      <<"eu/kanade/tachiyomi/source/model/SManga$Companion",
         {"create()SManga", "create()SChapter"}>>,
      <<"eu/kanade/tachiyomi/source/model/SChapter",
         {"<init>()V", "getName", "setName", "getUrl()String", "setUrl",
          "getDate_upload", "setDate_upload", "getChapter_number", "setChapter_number",
          "getScanlator", "setScanlator", "getMemo", "setMemo"}>>,
      <<"eu/kanade/tachiyomi/source/model/SChapter$Companion", {"create()SChapter"}>>,
      <<"eu/kanade/tachiyomi/source/model/Page",
         {"<init>(I,String,String,Uri,I,DefaultConstructorMarker)V",
          "<init>(I,String,String,Uri)V", "setImageUrl", "getUrl()String", "getName",
          "getImageUrl", "getIndex"}>>,
      <<"eu/kanade/tachiyomi/source/model/MangasPage",
         {"<init>(List,Z)V", "getMangas", "hasNextPage", "copy$default",
          "getHasNextPage"}>>,
      <<"eu/kanade/tachiyomi/source/model/SMangaUpdate",
         {"<init>(SManga,List)V", "getManga", "getChapters"}>>,
      <<"eu/kanade/tachiyomi/source/model/FilterList",
         {"<init>([Filter)V", "<init>(List)V", "getFilters", "iterator", "isEmpty"}>>,
      <<"eu/kanade/tachiyomi/source/model/Filter",
         {"<init>(String)V", "<init>(String,Z)V", "getName", "getState()I",
          "setState(I)V"}>>,
      <<"eu/kanade/tachiyomi/source/model/Filter$Header",
         {"<init>(String)V", "<init>(String,I,I,DefaultConstructorMarker)V"}>>,
      <<"eu/kanade/tachiyomi/source/model/Filter$Separator",
         {"<init>()V", "<init>(String,I,DefaultConstructorMarker)V"}>>,
      <<"eu/kanade/tachiyomi/source/model/Filter$Text",
         {"<init>(String)V", "<init>(String,String)V",
          "<init>(String,String,I,DefaultConstructorMarker)V", "getState()Object"}>>,
      <<"eu/kanade/tachiyomi/source/model/Filter$TriState",
         {"<init>(String,I)V", "<init>(String,I,I,DefaultConstructorMarker)V",
          "isExcluded", "isIncluded", "getState()Object"}>>,
      <<"eu/kanade/tachiyomi/source/model/Filter$Select",
         {"<init>(String,[String)V", "<init>(String,[Object,I)V",
          "<init>(String,[Object,I,I,DefaultConstructorMarker)V", "getState()Object",
          "getValues()[Object", "setState(Object)V"}>>,
      <<"eu/kanade/tachiyomi/source/model/Filter$Sort$Selection",
         {"<init>(I,Z)V", "getIndex", "getAscending"}>>,
      <<"eu/kanade/tachiyomi/source/model/Filter$Sort",
         {"<init>(String,[String,Filter$Sort$Selection)V",
          "<init>(String,[String,Filter$Sort$Selection,I,DefaultConstructorMarker)V",
          "getState()Object"}>>,
      <<"eu/kanade/tachiyomi/source/model/Filter$CheckBox",
         {"<init>(String,Z)V", "<init>(String,Z,I,DefaultConstructorMarker)V",
          "getState()Object", "setState(Object)V"}>>,
      <<"eu/kanade/tachiyomi/source/model/Filter$Group",
         {"<init>(String,List)V", "<init>(String,List,I,I,DefaultConstructorMarker)V",
          "getState()Object"}>>,
      <<"eu/kanade/tachiyomi/source/online/HttpSource",
         {"getBaseUrl", "getHeaders", "getLang", "getName", "getId",
          "getSupportsLatest", "fetchSearchManga", "fetchPopularManga",
          "fetchMangaDetails", "fetchChapterList", "fetchPageList", "fetchImageUrl",
          "getPopularManga", "getSearchManga", "getLatestUpdates", "getMangaDetails",
          "getChapterList", "getPageList", "prepareNewChapter", "headersBuilder",
          "setUrlWithoutDomain(SManga,String)V",
          "setUrlWithoutDomain(SChapter,String)V", "mangaDetailsRequest",
          "relatedMangaListRequest", "chapterListRequest", "pageListRequest",
          "getMangaUrl", "getChapterUrl", "imageRequest", "getNetwork", "getClient"}>>,
      <<"eu/kanade/tachiyomi/network/OkHttpExtensionsKt",
         {"awaitSuccess", "await(Call,Continuation)Object", "asObservableSuccess",
          "asObservable"}>>,
      <<"eu/kanade/tachiyomi/network/NetworkHelper", {"getClient"}>>,
      <<"eu/kanade/tachiyomi/util/JsoupExtensionsKt", {"asJsoup$default"}>> }

(* keiyoushi.rs, 1736 to 1862 *)
KEIYOUSHI_TABLE_2 ==
    { <<"eu/kanade/tachiyomi/network/interceptor/UncaughtExceptionInterceptor",
         {"intercept"}>>,
      <<"eu/kanade/tachiyomi/network/interceptor/UserAgentInterceptor", {"intercept"}>>,
      <<"eu/kanade/tachiyomi/network/interceptor/CloudflareInterceptor",
         {"intercept"}>>,
      <<"com/squareup/zstd/okio/OkioZstd", {"zstdDecompress", "zstdCompress"}>>,
      <<"tachiyomi/decoder/ImageDecoder", {"getWidth", "getHeight", "recycle"}>>,
      <<"eu/kanade/tachiyomi/source/model/Filter$TriState",
         {"isIgnored", "setState(Object)V"}>>,
      <<"eu/kanade/tachiyomi/source/model/Filter$Sort",
         {"setState(Object)V", "getValues()[String"}>>,
      <<"eu/kanade/tachiyomi/source/model/Filter$Text", {"setState(Object)V"}>>,
      <<"eu/kanade/tachiyomi/source/model/Filter", {"getState()Object"}>>,
      <<"eu/kanade/tachiyomi/source/model/FilterList", {"getList", "get(I)Filter"}>>,
      <<"eu/kanade/tachiyomi/AppInfo", {"getVersionName"}>>,
      <<"eu/kanade/tachiyomi/network/HttpException", {"<init>(I)V"}>> }

(* okhttp/mod.rs, 2739 to 2888 *)
OKHTTP_TABLE_1 ==
    { <<"okhttp3/OkHttpClient",
         {"newCall", "newBuilder()OkHttpClient$Builder", "cookieJar()CookieJar",
          "interceptors"}>>,
      <<"okhttp3/Request$Builder",
         {"<init>()V", "url(String)Request$Builder",
          "method(String,RequestBody)Request$Builder",
          "header(String,String)Request$Builder", "addHeader",
          "headers(Headers)Request$Builder",
          "cacheControl(CacheControl)Request$Builder", "tag(Class)Request$Builder",
          "tag(Class,Object)Request$Builder", "build()Request",
          "post(RequestBody)Request$Builder", "url(HttpUrl)Request$Builder"}>>,
      <<"okhttp3/Request",
         {"cacheControl()CacheControl", "newBuilder()Request$Builder", "url()HttpUrl",
          "method()String", "header(String)String", "tag(Class)Object"}>>,
      <<"okhttp3/CacheControl", {"maxAgeSeconds", "noCache()Z"}>>,
      <<"okhttp3/CacheControl$Builder",
         {"<init>()V", "maxAge-LRDsOJo", "build()CacheControl"}>>,
      <<"okhttp3/Headers$Builder",
         {"<init>()V", "add(String,String)Headers$Builder",
          "set(String,String)Headers$Builder", "removeAll(String)Headers$Builder",
          "build()Headers", "add(String)Headers$Builder",
          "addAll(Headers)Headers$Builder"}>>,
      <<"okhttp3/Headers",
         {"newBuilder()Headers$Builder", "size()I", "get(String)String",
          "toString()String", "iterator", "names()Set", "toMultimap"}>>,
      <<"okhttp3/Cookie$Companion", {"parse(HttpUrl,String)Cookie"}>>,
      <<"okhttp3/Response",
         {"code()I", "message()String", "isSuccessful", "headers()Headers",
          "header(String)String", "header$default", "body()ResponseBody",
          "request()Request", "close", "priorResponse()Response",
          "newBuilder()Response$Builder"}>>,
      <<"okhttp3/ResponseBody",
         {"string", "byteStream", "bytes", "contentLength", "close",
          "source()BufferedSource"}>>,
      <<"okhttp3/Interceptor$Chain",
         {"request()Request", "proceed(Request)Response", "call", "connection"}>>,
      <<"okhttp3/Call", {"isCanceled", "cancel", "timeout()Timeout"}>>,
      <<"okhttp3/Timeout", {"timeout(J)Timeout", "timeoutMillis"}>>,
      <<"okhttp3/Response$Builder",
         {"body(ResponseBody)Response$Builder",
          "header(String,String)Response$Builder", "code(I)Response$Builder",
          "message(String)Response$Builder", "priorResponse(Response)Response$Builder",
          "build()Response"}>>,
      <<"okhttp3/HttpUrl",
         {"host()String", "scheme()String", "queryParameter", "pathSegments",
          "encodedPath()String", "fragment()String", "port()I", "toString()String",
          "newBuilder()HttpUrl$Builder"}>>,
      <<"okhttp3/CompressionInterceptor",
         {"<init>([CompressionInterceptor$DecompressionAlgorithm)V", "intercept"}>>,
      <<"okhttp3/brotli/BrotliInterceptor", {"intercept"}>>,
      <<"okhttp3/HttpUrl$Companion", {"get(String)HttpUrl", "parse(String)HttpUrl"}>>,
      <<"okhttp3/MediaType$Companion", {"get(String)MediaType"}>>,
      <<"okhttp3/OkHttpClient$Builder",
         {"addInterceptor", "addNetworkInterceptor", "interceptors",
          "networkInterceptors", "build()OkHttpClient"}>>,
      <<"okhttp3/FormBody$Builder",
         {"<init>(Charset,I,DefaultConstructorMarker)V",
          "add(String,String)FormBody$Builder", "build()FormBody"}>>,
      <<"okhttp3/HttpUrl$Builder",
         {"addQueryParameter", "addPathSegment", "addPathSegments", "setPathSegment",
          "fragment(String)HttpUrl$Builder", "addEncodedQueryParameter",
          "setQueryParameter", "build()HttpUrl", "toString()String"}>>,
      <<"okhttp3/RequestBody$Companion",
         {"create(String,MediaType)RequestBody", "create([B,MediaType)RequestBody",
          "create$default(RequestBody$Companion,[B,MediaType,I,I,I,Object)RequestBody",
          "create$default(RequestBody$Companion,String,MediaType,I,Object)RequestBody"}>>,
      <<"okhttp3/ResponseBody$Companion",
         {"create(BufferedSource,MediaType,J)ResponseBody",
          "create([B,MediaType)ResponseBody", "create(String,MediaType)ResponseBody",
          "create$default(ResponseBody$Companion,BufferedSource,MediaType,J,I,Object)ResponseBody"}>>,
      <<"okhttp3/Cookie",
         {"name()String", "value()String", "toString()String", "expiresAt()J",
          "matches(HttpUrl)Z"}>>,
      <<"okhttp3/CookieJar", {"loadForRequest", "saveFromResponse"}>>,
      <<"okhttp3/Cookie$Builder",
         {"<init>()V", "build()Cookie", "name(String)Cookie$Builder",
          "value(String)Cookie$Builder", "domain", "path",
          "expiresAt(J)Cookie$Builder"}>>,
      <<"okhttp3/Headers$Companion", {"of([String)Headers", "of(Map)Headers"}>>,
      <<"okhttp3/MultipartBody$Builder",
         {"<init>(String,I,DefaultConstructorMarker)V", "addFormDataPart", "setType",
          "build()MultipartBody"}>>,
      <<"okhttp3/Credentials", {"basic$default"}>>,
      <<"okhttp3/Cache", {"<init>(File,J)V", "close"}>>,
      <<"okhttp3/Dispatcher",
         {"<init>()V", "setMaxRequests", "setMaxRequestsPerHost"}>>,
      <<"okhttp3/Dns", {"lookup"}>>,
      <<"okhttp3/internal/_UtilCommonKt", {"closeQuietly"}>> }

(* okhttp/mod.rs, 2889 to 2964 *)
OKHTTP_TABLE_2 ==
    { <<"okhttp3/OkHttpClient$Builder",
         {"readTimeout-LRDsOJo", "connectTimeout-LRDsOJo", "writeTimeout-LRDsOJo",
          "callTimeout-LRDsOJo", "followRedirects", "followSslRedirects",
          "retryOnConnectionFailure", "hostnameVerifier", "sslSocketFactory",
          "cookieJar(CookieJar)OkHttpClient$Builder", "dns",
          "cache(Cache)OkHttpClient$Builder", "dispatcher", "authenticator",
          "protocols"}>>,
      <<"okhttp3/Response$Builder",
         {"protocol", "removeHeader(String)Response$Builder",
          "request(Request)Response$Builder", "headers(Headers)Response$Builder"}>>,
      <<"okhttp3/Response",
         {"peekBody", "isRedirect", "headers(String)List",
          "header(String,String)String"}>>,
      <<"okhttp3/ResponseBody", {"contentType"}>>,
      <<"okhttp3/HttpUrl",
         {"queryParameterNames", "queryParameterValues", "resolve(String)HttpUrl",
          "pathSize", "encodedQuery()String", "encodedPathSegments", "query()String",
          "topPrivateDomain", "url()URL", "encodedFragment", "isHttps", "uri",
          "newBuilder(String)HttpUrl$Builder"}>>,
      <<"okhttp3/HttpUrl$Builder",
         {"addEncodedPathSegments", "addEncodedPathSegment",
          "encodedPath(String)HttpUrl$Builder", "host(String)HttpUrl$Builder",
          "port(I)HttpUrl$Builder", "removeAllQueryParameters",
          "setEncodedQueryParameter", "removePathSegment",
          "query(String)HttpUrl$Builder", "encodedQuery(String)HttpUrl$Builder",
          "scheme(String)HttpUrl$Builder"}>>,
      <<"okhttp3/MediaType$Companion", {"parse(String)MediaType"}>>,
      <<"okhttp3/MediaType", {"type", "subtype"}>>,
      <<"okhttp3/Request",
         {"headers()Headers", "body()RequestBody", "tag()Object", "tag(KClass)Object"}>>,
      <<"okhttp3/Request$Builder",
         {"removeHeader(String)Request$Builder", "head()Request$Builder",
          "get()Request$Builder", "put(RequestBody)Request$Builder", "delete$default",
          "tag(Object)Request$Builder", "tag(KClass,Object)Request$Builder"}>>,
      <<"okhttp3/FormBody$Builder", {"addEncoded"}>>,
      <<"okhttp3/FormBody",
         {"value(I)String", "name(I)String", "size()I", "contentLength", "contentType"}>>,
      <<"okhttp3/RequestBody", {"contentLength", "contentType", "writeTo"}>>,
      <<"okhttp3/CacheControl$Builder",
         {"maxStale-LRDsOJo", "maxStale", "noCache()CacheControl$Builder", "noStore"}>> }

(* okhttp/mod.rs, the entries that need feature tachiyomi *)
OKHTTP_TABLE_tachiyomi ==
    { <<"okhttp3/Call", {"execute()Response", "enqueue"}>> }

(* okio.rs, 510 to 658 *)
OKIO_TABLE_1 ==
    { <<"okio/ByteString$Companion", {"decodeBase64", "encodeUtf8"}>>,
      <<"okio/ByteString",
         {"hex", "toByteArray()[B", "sha256", "sha512", "getByte(I)B", "size()I",
          "utf8"}>>,
      <<"okio/Okio",
         {"source(InputStream)Source", "source(File)Source", "sink(File)Sink",
          "sink(File,Z)Sink", "sink$default", "buffer(Source)BufferedSource",
          "buffer(Sink)BufferedSink", "cipherSource"}>>,
      <<"okio/InflaterSource", {"<init>(Source,Inflater)V"}>>,
      <<"okio/ForwardingSource", {"<init>(Source)V", "read(Buffer,J)J"}>>,
      <<"okio/Buffer", {"writeAll", "read(Buffer,J)J"}>> }

(* okio.rs, 659 to 806 *)
OKIO_TABLE_2 ==
    { <<"okio/Buffer",
         {"writeByte", "readByte", "write([B,I,I)Buffer", "write([B,I,I)BufferedSink",
          "writeUtf8(String)Buffer", "writeIntLe", "inputStream", "get(J)B",
          "getByte(J)B", "size()J", "write([B)Buffer", "outputStream", "readByteArray",
          "close"}>>,
      <<"okio/ByteStreams",
         {"source(InputStream)Source", "buffer(Source)BufferedSource"}>>,
      <<"okio/ByteStreamsKt",
         {"source(InputStream)Source", "buffer(Source)BufferedSource"}>>,
      <<"okio/BufferedSource",
         {"getBuffer", "request(J)Z", "readByteArray", "readUtf8", "exhausted"}>>,
      <<"okio/Source", {"close"}>>,
      <<"okio/Sink", {"close"}>>,
      <<"okio/BufferedSink", {"close", "flush", "write([B)BufferedSink"}>> }

(* okio.rs, 807 to 821 *)
OKIO_TABLE_3 ==
    { <<"okio/BufferedSink",
         {"write([B,I,I)BufferedSink", "writeUtf8(String)BufferedSink"}>> }

(* proto.rs, 738 to 868 *)
PROTO_TABLE ==
    { <<"kotlinx/serialization/protobuf/ProtoDecoder",
         {"beginStructure(SerialDescriptor)CompositeDecoder", "decodeSequentially",
          "decodeElementIndex", "decodeIntElement", "decodeLongElement",
          "decodeBooleanElement", "decodeFloatElement", "decodeDoubleElement",
          "decodeStringElement", "decodeBytesElement", "decodeSerializableElement",
          "endStructure"}>>,
      <<"kotlinx/serialization/protobuf/ProtoBuf",
         {"decodeFromByteArray", "decodeFromByteArray$default",
          "decodeFromBufferedSource(DeserializationStrategy,BufferedSource)Object",
          "encodeToByteArray(SerializationStrategy,Object)[B"}>>,
      <<"kotlinx/serialization/protobuf/ProtoBuf$Companion",
         {"decodeFromByteArray",
          "decodeFromBufferedSource(DeserializationStrategy,BufferedSource)Object"}>>,
      <<"kotlinx/serialization/protobuf/okio/ProtobufOkioKt",
         {"decodeFromBufferedSource(BinaryFormat,DeserializationStrategy,BufferedSource)Object"}>> }

(* quickjs.rs, 116 to 152 *)
QUICKJS_TABLE ==
    { <<"app/cash/quickjs/QuickJs",
         {"create()QuickJs", "evaluate", "close", "compile(String,String)[B",
          "execute([B)Object"}>> }

(* rx.rs, 485 to 632 *)
RX_TABLE_1 ==
    { <<"rx/Observable",
         {"just", "error", "from", "fromCallable(Callable)Observable",
          "map(Func1)Observable", "flatMap(Func1)Observable", "switchMap", "doOnNext",
          "subscribeOn(Scheduler)Observable", "observeOn(Scheduler)Observable",
          "cache()Observable", "toBlocking", "toList()Observable",
          "subscribe(Action1,Action1)Subscription",
          "zip(Observable,Observable,Func2)Observable",
          "zip(Iterable,FuncN)Observable"}>>,
      <<"rx/observables/BlockingObservable",
         {"first()Object", "subscribe(Action1,Action1)V"}>>,
      <<"rx/schedulers/Schedulers", {"io"}>>,
      <<"rx/Subscription", {"unsubscribe", "isUnsubscribed"}>> }

(* rx.rs, 633 to 703 *)
RX_TABLE_2 ==
    { <<"rx/Observable",
         {"combineLatest", "concat(Iterable)Observable", "onErrorReturn",
          "onErrorResumeNext", "doOnTerminate", "flatMap(Func1,I)Observable"}>>,
      <<"rx/Single",
         {"fromCallable(Callable)Single", "observeOn(Scheduler)Single",
          "subscribeOn(Scheduler)Single", "subscribe()Subscription"}>> }

(* serialization.rs, 2399 to 2548 *)
SERIALIZATION_TABLE_1 ==
    { <<"kotlinx/serialization/json/Json",
         {"parseToJsonElement", "getSerializersModule", "decodeFromJsonElement",
          "decodeFromString", "encodeToString(SerializationStrategy,Object)String",
          "encodeToJsonElement"}>>,
      <<"kotlinx/serialization/json/JsonPrimitive", {"getContent", "isString"}>>,
      <<"kotlinx/serialization/json/JsonElementKt",
         {"getJsonPrimitive", "getJsonArray", "getJsonObject",
          "JsonPrimitive(String)JsonPrimitive", "getContentOrNull"}>>,
      <<"kotlinx/serialization/json/JsonObject",
         {"get(Object)Object", "<init>(Map)V", "containsKey(Object)Z",
          "values()Collection"}>>,
      <<"kotlinx/serialization/json/JsonObjectBuilder",
         {"<init>()V", "build()JsonObject", "put(String,JsonElement)JsonElement"}>>,
      <<"kotlinx/serialization/json/JsonElementBuildersKt",
         {"put(JsonObjectBuilder,String,String)JsonElement",
          "put(JsonObjectBuilder,String,Number)JsonElement"}>>,
      <<"kotlinx/serialization/json/JsonArray",
         {"<init>(List)V", "get(I)JsonElement", "get(I)Object", "size()I", "iterator"}>>,
      <<"kotlinx/serialization/json/JsonElement$Companion",
         {"serializer()KSerializer"}>>,
      <<"kotlinx/serialization/json/okio/OkioStreamsKt",
         {"decodeFromBufferedSource(Json,DeserializationStrategy,BufferedSource)Object",
          "encodeToBufferedSink"}>>,
      <<"kotlinx/serialization/builtins/BuiltinSerializersKt", {"getNullable"}>>,
      <<"kotlinx/serialization/internal/PluginExceptionsKt",
         {"throwMissingFieldException"}>>,
      <<"kotlinx/serialization/json/internal/StreamingJsonEncoder",
         {"beginStructure(SerialDescriptor)CompositeEncoder", "encodeStringElement",
          "encodeIntElement"}>> }

(* serialization.rs, 2549 to 2695 *)
SERIALIZATION_TABLE_2 ==
    { <<"kotlinx/serialization/json/internal/StreamingJsonEncoder",
         {"encodeLongElement", "encodeBooleanElement", "encodeFloatElement",
          "encodeDoubleElement", "encodeSerializableElement",
          "encodeNullableSerializableElement", "shouldEncodeElementDefault",
          "endStructure", "encodeString", "encodeInt", "encodeLong", "encodeBoolean",
          "encodeFloat", "encodeDouble"}>>,
      <<"kotlinx/serialization/json/internal/StreamingJsonDecoder",
         {"beginStructure(SerialDescriptor)CompositeDecoder", "decodeSequentially",
          "decodeElementIndex", "decodeStringElement", "decodeIntElement",
          "decodeLongElement", "decodeFloatElement"}>> }

(* serialization.rs, 2696 to 2845 *)
SERIALIZATION_TABLE_3 ==
    { <<"kotlinx/serialization/json/internal/StreamingJsonDecoder",
         {"decodeDoubleElement", "decodeBooleanElement", "decodeCollectionSize",
          "decodeSerializableElement", "decodeNullableSerializableElement",
          "endStructure", "decodeJsonElement", "decodeString", "decodeInt",
          "decodeFloat", "decodeDouble"}>>,
      <<"kotlinx/serialization/internal/PluginGeneratedSerialDescriptor",
         {"<init>(String,GeneratedSerializer,I)V", "addElement", "getElementName",
          "getElementsCount", "getSerialName", "pushAnnotation"}>>,
      <<"kotlinx/serialization/internal/ArrayListSerializer",
         {"<init>(KSerializer)V", "deserialize"}>>,
      <<"kotlinx/serialization/UnknownFieldException", {"<init>(I)V"}>>,
      <<"kotlinx/serialization/internal/LinkedHashMapSerializer",
         {"<init>(KSerializer,KSerializer)V", "deserialize", "getDescriptor"}>>,
      <<"kotlinx/serialization/internal/StringSerializer", {"deserialize"}>>,
      <<"kotlinx/serialization/internal/IntSerializer", {"deserialize"}>>,
      <<"kotlinx/serialization/internal/LongSerializer", {"deserialize"}>>,
      <<"kotlinx/serialization/internal/FloatSerializer", {"deserialize"}>>,
      <<"kotlinx/serialization/internal/DoubleSerializer", {"deserialize"}>>,
      <<"kotlinx/serialization/json/JsonObject$Companion",
         {"serializer()KSerializer"}>>,
      <<"kotlinx/serialization/json/JsonArray$Companion", {"serializer()KSerializer"}>>,
      <<"kotlinx/serialization/json/JsonNames", {"names()[String"}>>,
      <<"kotlinx/serialization/BinaryFormat",
         {"getSerializersModule", "decodeFromByteArray",
          "encodeToByteArray(SerializationStrategy,Object)[B"}>>,
      <<"kotlinx/serialization/json/JsonTransformingSerializer",
         {"<init>(KSerializer)V"}>>,
      <<"kotlinx/serialization/internal/PairSerializer",
         {"<init>(KSerializer,KSerializer)V"}>> }

(* serialization.rs, 2846 to 2916 *)
SERIALIZATION_TABLE_4 ==
    { <<"kotlinx/serialization/json/JsonArrayBuilder",
         {"<init>()V", "build()JsonArray", "add(JsonElement)Z"}>>,
      <<"kotlinx/serialization/protobuf/ProtoNumber", {"number"}>>,
      <<"kotlinx/serialization/internal/ReferenceArraySerializer",
         {"<init>(KClass,KSerializer)V"}>>,
      <<"kotlinx/serialization/json/JsonKt", {"Json$default"}>>,
      <<"kotlinx/serialization/json/JsonBuilder",
         {"setIgnoreUnknownKeys", "setLenient", "setEncodeDefaults",
          "setExplicitNulls", "setSerializersModule",
          "setAllowSpecialFloatingPointValues", "setPrettyPrint",
          "setAllowTrailingComma", "setUseArrayPolymorphism", "getSerializersModule"}>>,
      <<"kotlinx/serialization/json/JvmStreamsKt", {"decodeFromStream"}>>,
      <<"kotlinx/serialization/descriptors/SerialDescriptorsKt",
         {"PrimitiveSerialDescriptor", "buildClassSerialDescriptor$default"}>>,
      <<"kotlinx/serialization/SealedClassSerializer",
         {"<init>(String,KClass,[KClass,[KSerializer,[Annotation)V"}>>,
      <<"kotlinx/serialization/internal/ObjectSerializer",
         {"<init>(String,Object,[Annotation)V"}>>,
      <<"kotlinx/serialization/internal/EnumsKt",
         {"createSimpleEnumSerializer", "createAnnotatedEnumSerializer"}>>,
      <<"kotlinx/serialization/internal/EnumSerializer",
         {"deserialize", "getDescriptor"}>>,
      <<"kotlinx/serialization/internal/LinkedHashSetSerializer",
         {"<init>(KSerializer)V"}>>,
      <<"kotlinx/serialization/modules/PolymorphicModuleBuilder",
         {"<init>(KClass,KSerializer)V", "subclass", "buildTo", "defaultDeserializer"}>>,
      <<"kotlinx/serialization/ContextualSerializer",
         {"<init>(KClass,KSerializer,[KSerializer)V"}>>,
      <<"kotlinx/serialization/json/Json$Default", {"parseToJsonElement"}>>,
      <<"kotlinx/serialization/modules/SerializersModuleBuilder",
         {"<init>()V", "build()SerializersModule", "contextual"}>>,
      <<"kotlinx/serialization/modules/SerializersModuleKt",
         {"plus(SerializersModule,SerializersModule)SerializersModule"}>>,
      <<"kotlinx/serialization/internal/InlineClassDescriptor",
         {"<init>(String,GeneratedSerializer)V", "addElement"}>>,
      <<"kotlinx/serialization/PolymorphicSerializer",
         {"<init>(KClass,[Annotation)V", "deserialize", "getDescriptor"}>>,
      <<"kotlinx/serialization/SerializationException", {"<init>(String)V"}>>,
      <<"kotlinx/serialization/json/JsonClassDiscriminator", {"discriminator"}>>,
      <<"kotlinx/serialization/json/JsonElementBuildersKt",
         {"putJsonObject", "putJsonArray", "add(JsonArrayBuilder,String)Z",
          "addAllStrings", "addJsonObject",
          "put(JsonObjectBuilder,String,Boolean)JsonElement",
          "put(JsonObjectBuilder,String,Void)JsonElement"}>>,
      <<"kotlinx/serialization/json/JsonElementKt",
         {"getInt(JsonPrimitive)I", "getIntOrNull", "getLong(JsonPrimitive)J",
          "getLongOrNull", "getFloat(JsonPrimitive)F", "getFloatOrNull", "getDouble",
          "getBoolean(JsonPrimitive)Z", "getBooleanOrNull",
          "JsonPrimitive(Boolean)JsonPrimitive", "JsonPrimitive(Number)JsonPrimitive"}>>,
      <<"kotlinx/serialization/json/JsonObject", {"entrySet", "size()I", "isEmpty"}>>,
      <<"kotlinx/serialization/json/JsonArray", {"isEmpty"}>>,
      <<"kotlinx/serialization/internal/ArrayListSerializer", {"getDescriptor"}>>,
      <<"kotlinx/serialization/builtins/BuiltinSerializersKt",
         {"ListSerializer", "MapSerializer",
          "serializer(StringCompanionObject)KSerializer"}>>,
      <<"kotlinx/serialization/internal/PluginGeneratedSerialDescriptor",
         {"pushClassAnnotation"}>> }

(* The tables that every build has. *)
WebTables ==
    INJEKT_TABLE \cup JSON_TABLE_1 \cup JSON_TABLE_2

(* The tables that need jsoup. *)
WebTablesWithJsoup ==
    JSOUP_TABLE_1 \cup JSOUP_TABLE_2 \cup JSOUP_TABLE_3 \cup JSOUP_TABLE_4 \cup
    JSOUP_TABLE_5 \cup JSOUP_TABLE_6

(* The tables that need okhttp. *)
WebTablesWithOkhttp ==
    OKHTTP_TABLE_1 \cup OKHTTP_TABLE_2 \cup OKIO_TABLE_1 \cup OKIO_TABLE_2 \cup
    OKIO_TABLE_3

(* The tables that need okhttp and tachiyomi. *)
WebTablesWithOkhttpTachiyomi ==
    OKHTTP_TABLE_tachiyomi

(* The tables that need quickjs. *)
WebTablesWithQuickjs ==
    QUICKJS_TABLE

(* The tables that need tachiyomi. *)
WebTablesWithTachiyomi ==
    KEIYOUSHI_TABLE_1 \cup KEIYOUSHI_TABLE_2 \cup PROTO_TABLE \cup RX_TABLE_1 \cup
    RX_TABLE_2 \cup SERIALIZATION_TABLE_1 \cup SERIALIZATION_TABLE_2 \cup
    SERIALIZATION_TABLE_3 \cup SERIALIZATION_TABLE_4

=============================================================================
