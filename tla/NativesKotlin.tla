--------------------------- MODULE NativesKotlin ---------------------------
(****************************************************************************)
(* The native methods of kotlin.* and kotlinx.coroutines.                   *)
(* A table is a set of <<class, members>>: the members it registers for the   *)
(* class.  A member is its name, with its descriptor in simple class names    *)
(* where the tables use the name with more than one descriptor.  No two       *)
(* entries have one class, name and descriptor, so the order of registration  *)
(* cannot be seen and is left out, and so is the Rust function registered.    *)
(****************************************************************************)

(* kotlin/collections.rs, 1429 to 1578 *)
kotlin_collections_TABLE_1 ==
    { <<"kotlin/collections/CollectionsKt",
         {"listOf([Object)List", "listOf(Object)List", "mutableListOf", "emptyList",
          "createListBuilder()List", "createListBuilder(I)List", "build(List)List",
          "plus(Collection,Iterable)List", "plus(Collection,Object)List",
          "contains(Iterable,Object)Z", "first(Iterable)Object", "first(List)Object",
          "firstOrNull(List)Object", "last(List)Object", "getOrNull(List,I)Object",
          "toMutableList(Collection)List", "addAll(Collection,Iterable)Z",
          "throwIndexOverflow", "listOfNotNull(Object)List",
          "listOfNotNull([Object)List", "distinct(Iterable)List",
          "filterNotNull(Iterable)List", "lastOrNull(List)Object",
          "sortedWith(Iterable,Comparator)List", "toSet(Iterable)Set",
          "collectionSizeOrDefault",
          "joinToString$default(Iterable,CharSequence,CharSequence,CharSequence,I,CharSequence,Function1,I,Object)String",
          "joinTo$default", "asSequence(Iterable)Sequence", "flatten(Iterable)List",
          "toList(Iterable)List", "sorted", "take(Iterable,I)List",
          "drop(Iterable,I)List", "asReversed", "reversed(Iterable)List",
          "removeAll(List,Function1)Z", "plus(Iterable,Iterable)List", "getLastIndex",
          "random(Collection,Random)Object", "randomOrNull", "sortWith",
          "dropLast(List,I)List", "asReversedMutable", "maxOrNull(Iterable)Comparable",
          "minOrNull", "minOrThrow", "single(List)Object", "single(Iterable)Object",
          "singleOrNull(List)Object", "singleOrNull(Iterable)Object",
          "toCharArray(Collection)[C", "toIntArray", "toByteArray(Collection)[B",
          "reverse", "chunked(Iterable,I)List", "indexOf(List,Object)I",
          "retainAll(List,Function1)Z", "getIndices", "intersect", "union", "shuffled",
          "takeLast(List,I)List", "arrayListOf", "throwCountOverflow",
          "zip(Iterable,Iterable)List", "withIndex(Iterable)Iterable",
          "sortedDescending", "binarySearch$default", "any", "windowed$default",
          "toHashSet"}>>,
      <<"kotlin/collections/SetsKt",
         {"setOf([Object)Set", "emptySet", "plus(Set,Object)Set"}>>,
      <<"kotlin/collections/MapsKt",
         {"mapOf([Pair)Map", "emptyMap", "toList(Map)List", "mapCapacity"}>>,
      <<"kotlin/collections/ArraysKt",
         {"plus([B,[B)[B", "contains([Object,Object)Z", "copyOfRange([B,I,I)[B",
          "toList([I)List"}>> }

(* kotlin/collections.rs, 1579 to 1644 *)
kotlin_collections_TABLE_2 ==
    { <<"kotlin/collections/CollectionsKt",
         {"toSortedSet(Iterable)SortedSet", "toMutableSet",
          "firstOrNull(Iterable)Object", "toMutableList(Iterable)List"}>>,
      <<"kotlin/collections/ArraysKt",
         {"joinToString$default([B,CharSequence,CharSequence,CharSequence,I,CharSequence,Function1,I,Object)String",
          "joinToString$default([Object,CharSequence,CharSequence,CharSequence,I,CharSequence,Function1,I,Object)String",
          "plus([Object,[Object)[Object", "plus([Object,Object)[Object",
          "plus([Object,Collection)[Object", "plus([B,B)[B", "sum",
          "toList([Object)List", "toList([B)List", "toSet([Object)Set",
          "asList([Object)List", "asSequence([Object)Sequence", "first([Object)Object",
          "first([I)I", "getOrNull([Object,I)Object", "last([B)B",
          "slice([Object,IntRange)List", "sliceArray", "zip([Object,[Object)List",
          "copyInto([B,[B,I,I,I)[B", "copyInto$default([B,[B,I,I,I,I,Object)[B",
          "copyInto([J,[J,I,I,I)[J", "copyInto$default([J,[J,I,I,I,I,Object)[J",
          "fill$default([B,B,I,I,I,Object)V", "fill$default([J,J,I,I,I,Object)V",
          "copyOfRange([I,I,I)[I"}>>,
      <<"kotlin/collections/SetsKt",
         {"setOf(Object)Set", "hashSetOf", "mutableSetOf", "plus(Set,Iterable)Set",
          "minus(Set,Iterable)Set", "minus(Set,Object)Set", "build(Set)Set",
          "createSetBuilder"}>>,
      <<"kotlin/collections/MapsKt",
         {"getValue(Map,Object)Object", "toMap(Iterable)Map", "toMap([Pair)Map",
          "toMutableMap", "build(Map)Map", "createMapBuilder", "mapOf(Pair)Map",
          "mutableMapOf", "plus(Map,Pair)Map", "plus(Map,Map)Map", "sortedMapOf",
          "toSortedMap", "linkedMapOf", "hashMapOf"}>>,
      <<"kotlin/collections/ArrayDeque",
         {"<init>()V", "<init>(I)V", "<init>(Collection)V", "firstOrNull()Object",
          "set(I,Object)Object", "isEmpty", "addLast", "add(Object)Z", "addFirst",
          "removeFirst", "removeLast", "clear()V", "lastOrNull()Object"}>> }

(* kotlin/intrinsics.rs, 24 to 46 *)
intrinsics_TABLE ==
    { <<"kotlin/jvm/internal/Intrinsics",
         {"areEqual", "checkNotNullParameter",
          "throwUninitializedPropertyAccessException"}>> }

(* kotlin/io.rs, 92 to 128 *)
io_TABLE ==
    { <<"kotlin/io/CloseableKt", {"closeFinally(Closeable,Throwable)V"}>>,
      <<"kotlin/io/TextStreamsKt", {"readText", "readBytes(URL)[B"}>>,
      <<"kotlin/io/ByteStreamsKt", {"readBytes(InputStream)[B", "copyTo$default"}>> }

(* kotlin/jvm.rs, 95 to 215 *)
jvm_TABLE ==
    { <<"kotlin/jvm/internal/SpreadBuilder",
         {"<init>(I)V", "add(Object)V", "addSpread", "size()I",
          "toArray([Object)[Object"}>>,
      <<"kotlin/coroutines/jvm/internal/SuspendLambda", {"<init>(I,Continuation)V"}>>,
      <<"kotlin/coroutines/jvm/internal/ContinuationImpl", {"<init>(Continuation)V"}>>,
      <<"kotlin/coroutines/jvm/internal/SpillingKt", {"nullOutSpilledVariable"}>>,
      <<"kotlin/jvm/internal/MutablePropertyReference1Impl",
         {"<init>(Class,String,String,I)V"}>>,
      <<"kotlin/jvm/internal/PropertyReference1Impl",
         {"<init>(Class,String,String,I)V"}>>,
      <<"kotlin/jvm/internal/PropertyReference0Impl",
         {"<init>(Class,String,String,I)V"}>>,
      <<"kotlin/jvm/internal/FunctionReferenceImpl",
         {"<init>(I,Class,String,String,I)V"}>>,
      <<"kotlin/jvm/internal/CollectionToArray",
         {"toArray(Collection)[Object", "toArray(Collection,[Object)[Object"}>>,
      <<"kotlin/coroutines/jvm/internal/RestrictedSuspendLambda",
         {"<init>(I,Continuation)V"}>>,
      <<"kotlin/jvm/internal/Intrinsics", {"compare(I,I)I"}>>,
      <<"kotlin/jdk7/AutoCloseableKt", {"closeFinally(AutoCloseable,Throwable)V"}>> }

(* kotlin/lazy.rs, 126 to 148 *)
lazy_TABLE ==
    { <<"kotlin/Lazy", {"getValue()Object"}>>,
      <<"kotlin/LazyKt",
         {"lazy(Function0)Lazy", "lazy(LazyThreadSafetyMode,Function0)Lazy"}>> }

(* kotlin/ranges.rs, 319 to 466 *)
ranges_TABLE_1 ==
    { <<"kotlin/ranges/RangesKt",
         {"coerceIn(I,I,I)I", "coerceIn(I,ClosedRange)I", "coerceAtLeast(I,I)I",
          "coerceAtLeast(J,J)J", "coerceAtMost", "downTo", "step",
          "reversed(IntProgression)IntProgression", "until(J,J)LongRange",
          "random(IntRange,Random)I"}>>,
      <<"kotlin/ranges/IntProgression",
         {"getFirst()I", "getLast()I", "getStep", "getStart", "getEndInclusive"}>>,
      <<"kotlin/ranges/CharRange", {"<init>(C,C)V", "getFirst()C", "getLast()C"}>>,
      <<"kotlin/ranges/LongRange", {"<init>(J,J)V", "getFirst()J", "getLast()J"}>> }

(* kotlin/ranges.rs, 467 to 530 *)
ranges_TABLE_2 ==
    { <<"kotlin/internal/ProgressionUtilKt", {"getProgressionLastElement"}>>,
      <<"kotlin/ranges/IntRange", {"<init>(I,I)V", "getFirst()I", "getLast()I"}>>,
      <<"kotlin/ranges/RangesKt", {"until(I,I)IntRange"}>>,
      <<"kotlin/collections/IntIterator", {"<init>()V", "nextInt()I", "hasNext"}>>,
      <<"kotlin/collections/CharIterator", {"nextChar"}>> }

(* kotlin/result.rs, 41 to 98 *)
result_TABLE ==
    { <<"kotlin/Result",
         {"constructor-impl(Object)Object", "isFailure-impl", "exceptionOrNull-impl",
          "isSuccess-impl", "box-impl(Object)Result", "unbox-impl()Object"}>>,
      <<"kotlin/ResultKt", {"createFailure", "throwOnFailure"}>> }

(* kotlin/sequences.rs, 326 to 473 *)
sequences_TABLE_1 ==
    { <<"kotlin/sequences/SequencesKt",
         {"map(Sequence,Function1)Sequence", "filter", "toList(Sequence)List",
          "mapIndexed", "mapNotNull", "filterNot", "filterNotNull(Sequence)Sequence",
          "distinct(Sequence)Sequence", "distinctBy",
          "sortedWith(Sequence,Comparator)Sequence", "take(Sequence,I)Sequence",
          "drop(Sequence,I)Sequence", "takeWhile", "flatten(Sequence)Sequence",
          "flatMapIterable", "zip(Sequence,Sequence)Sequence",
          "zip(Sequence,Sequence,Function2)Sequence", "sequenceOf", "emptySequence",
          "asIterable", "count"}>> }

(* kotlin/sequences.rs, 474 to 544 *)
sequences_TABLE_2 ==
    { <<"kotlin/sequences/SequencesKt",
         {"elementAt", "firstOrNull(Sequence)Object", "lastOrNull(Sequence)Object",
          "maxOrNull(Sequence)Comparable", "toSet(Sequence)Set",
          "toSortedSet(Sequence)SortedSet", "toCollection",
          "joinToString$default(Sequence,CharSequence,CharSequence,CharSequence,I,CharSequence,Function1,I,Object)String",
          "generateSequence(Object,Function1)Sequence",
          "generateSequence(Function0)Sequence"}>> }

(* kotlin/support.rs, 143 to 176 *)
support_TABLE ==
    { <<"kotlin/NoWhenBranchMatchedException", {"<init>()V"}>>,
      <<"kotlin/enums/EnumEntriesKt", {"enumEntries"}>>,
      <<"kotlin/coroutines/jvm/internal/Boxing",
         {"boxBoolean", "boxInt", "boxFloat", "boxLong", "boxChar", "boxDouble"}>>,
      <<"kotlin/random/Random$Default",
         {"nextDouble", "nextInt(I)I", "nextInt(I,I)I"}>>,
      <<"kotlin/random/RandomKt", {"Random"}>>,
      <<"kotlin/jvm/internal/Reflection",
         {"getOrCreateKotlinClass", "typeOf(Class)KType",
          "typeOf(Class,KTypeProjection)KType", "nullableTypeOf"}>>,
      <<"kotlin/reflect/KTypeProjection$Companion", {"invariant"}>>,
      <<"kotlin/ExceptionsKt",
         {"stackTraceToString", "addSuppressed(Throwable,Throwable)V"}>>,
      <<"kotlin/concurrent/ThreadsKt", {"thread$default"}>>,
      <<"kotlin/math/MathKt", {"roundToInt(D)I", "roundToInt(F)I", "roundToLong"}>>,
      <<"kotlin/comparisons/ComparisonsKt",
         {"maxOf(Comparable,Comparable)Comparable",
          "maxOf(Comparable,Comparable,Comparable)Comparable", "compareValues"}>>,
      <<"kotlin/random/Random", {"nextInt(I)I", "nextInt(I,I)I"}>>,
      <<"kotlin/jvm/internal/DefaultConstructorMarker", {"<init>()V"}>>,
      <<"kotlin/jvm/internal/Lambda", {"<init>(I)V"}>>,
      <<"kotlin/jvm/internal/FunctionReferenceImpl",
         {"<init>(I,Object,Class,String,String,I)V"}>>,
      <<"kotlin/coroutines/intrinsics/IntrinsicsKt", {"getCOROUTINE_SUSPENDED"}>> }

(* kotlin/text.rs, 1840 to 1968 *)
KOTLIN_TABLE ==
    { <<"kotlin/text/Regex",
         {"<init>(String)V", "<init>(String,RegexOption)V",
          "replace(CharSequence,String)String",
          "replace(CharSequence,Function1)String", "matches(CharSequence)Z",
          "matchEntire", "containsMatchIn", "find$default", "findAll$default",
          "split(CharSequence,I)List", "toString()String",
          "replaceFirst(CharSequence,String)String", "find(CharSequence,I)MatchResult",
          "getPattern", "<init>(String,Set)V"}>>,
      <<"kotlin/text/StringsKt",
         {"append(StringBuilder,[String)StringBuilder",
          "startsWith$default(String,String,Z,I,Object)Z", "isBlank",
          "toIntOrNull(String)Integer", "toFloatOrNull",
          "toIntOrNull(String,I)Integer", "toLongOrNull", "trim(String,[C)String",
          "trimEnd(String,[C)String", "removeSurrounding",
          "contains(CharSequence,CharSequence,Z)Z", "startsWith(String,String,Z)Z",
          "endsWith(String,String,Z)Z", "endsWith$default(String,String,Z,I,Object)Z",
          "removePrefix", "removeSuffix",
          "substringBefore$default(String,String,String,I,Object)String",
          "split$default(CharSequence,[String,Z,I,I,Object)List",
          "split$default(CharSequence,[C,Z,I,I,Object)List",
          "substringBeforeLast$default(String,String,String,I,Object)String",
          "substringBeforeLast$default(String,C,String,I,Object)String",
          "substringAfterLast$default(String,String,String,I,Object)String",
          "substringAfterLast$default(String,C,String,I,Object)String",
          "lastIndexOf$default(CharSequence,String,I,Z,I,Object)I", "trimIndent",
          "substringBefore$default(String,C,String,I,Object)String",
          "equals(String,String,Z)Z", "indexOf$default(CharSequence,C,I,Z,I,Object)I",
          "indexOf$default(CharSequence,String,I,Z,I,Object)I",
          "contains$default(CharSequence,CharSequence,Z,I,Object)Z",
          "contains$default(CharSequence,C,Z,I,Object)Z",
          "substringAfter(String,String,String)String",
          "substringAfter$default(String,C,String,I,Object)String",
          "take(String,I)String", "padStart", "dropLast(String,I)String",
          "replaceFirst$default",
          "replace$default(String,String,String,Z,I,Object)String",
          "replace$default(String,C,C,Z,I,Object)String", "trimStart(String,[C)String",
          "trimStart(CharSequence)CharSequence", "encodeToByteArray(String)[B",
          "substringAfter$default(String,String,String,I,Object)String",
          "trim(CharSequence)CharSequence", "substringBeforeLast",
          "substringAfterLast(String,C,String)String",
          "substringAfterLast(String,String,String)String",
          "substringBefore(String,C,String)String",
          "substringBefore(String,String,String)String",
          "substringAfter(String,C,String)String",
          "startsWith$default(CharSequence,C,Z,I,Object)Z",
          "endsWith$default(CharSequence,C,Z,I,Object)Z", "toDoubleOrNull",
          "takeLast(String,I)String", "repeat", "reversed(CharSequence)CharSequence",
          "append(StringBuilder,[Object)StringBuilder",
          "lastIndexOf$default(CharSequence,C,I,Z,I,Object)I", "lines",
          "chunked(CharSequence,I)List", "first(CharSequence)C", "last(CharSequence)C",
          "firstOrNull(CharSequence)Character", "getOrNull(CharSequence,I)Character",
          "trimEnd(CharSequence)CharSequence", "capitalize",
          "clear(StringBuilder)StringBuilder", "drop(String,I)String", "padEnd",
          "prependIndent", "replace(String,String,String,Z)String", "replaceRange",
          "removeRange(CharSequence,IntRange)CharSequence",
          "removeRange(CharSequence,I,I)CharSequence",
          "indexOf(CharSequence,String,I,Z)I", "withIndex(CharSequence)Iterable",
          "slice(String,IntRange)String", "findAnyOf$default", "equals$default",
          "decodeToString", "replaceBefore$default", "replaceAfterLast$default",
          "concatToString([C)String", "concatToString([C,I,I)String",
          "random(CharSequence,Random)C"}>>,
      <<"kotlin/text/CharsKt",
         {"isWhitespace", "checkRadix", "titlecase(C,Locale)String",
          "titlecase(C)String", "uppercase", "digitToInt"}>>,
      <<"kotlin/text/MatchResult", {"getValue()String", "getGroupValues"}>>,
      <<"kotlin/text/MatcherMatchResult", {"getDestructured", "getValue()String"}>>,
      <<"kotlin/text/MatchResult$Destructured", {"toList()List", "getMatch"}>>,
      <<"kotlin/text/MatchGroup", {"getValue()String"}>>,
      <<"kotlin/text/HexExtensionsKt",
         {"toHexString$default", "toHexString([B,HexFormat)String",
          "toHexString(B,HexFormat)String"}>>,
      <<"kotlin/text/HexFormat$Builder",
         {"getBytes()HexFormat$BytesHexFormat$Builder", "build()HexFormat",
          "setUpperCase"}>>,
      <<"kotlin/text/HexFormat$BytesHexFormat$Builder",
         {"setBytePrefix", "setByteSeparator"}>>,
      <<"kotlin/text/HexFormat$Companion", {"getDefault()HexFormat"}>>,
      <<"kotlin/text/Regex$Companion", {"escape"}>>,
      <<"kotlin/collections/IndexedValue", {"getIndex", "getValue()Object"}>>,
      <<"kotlin/text/UStringsKt", {"toUInt", "toString-LxnNnR4"}>> }

(* kotlin/time.rs, 200 to 320 *)
time_TABLE ==
    { <<"kotlin/time/Duration$Companion", {"getZERO-UwyO8pc"}>>,
      <<"kotlin/time/DurationKt",
         {"toDuration(I,DurationUnit)J", "toDuration(J,DurationUnit)J"}>>,
      <<"kotlin/time/Instant", {"toEpochMilliseconds", "minus-LRDsOJo(J)Instant"}>>,
      <<"kotlin/time/Clock$System", {"now()Instant"}>>,
      <<"kotlin/time/Instant$Companion",
         {"parseOrNull", "parse(java/lang/CharSequence)kotlin/time/Instant"}>>,
      <<"kotlin/time/Duration",
         {"minus-LRDsOJo(J,J)J", "compareTo-LRDsOJo", "equals-impl0",
          "box-impl(J)Duration", "unbox-impl()J", "getInWholeNanoseconds-impl",
          "getInWholeMilliseconds-impl", "compareTo(Object)I",
          "toString-impl(J)String"}>> }

(* kotlin/tuples.rs, 70 to 169 *)
tuples_TABLE ==
    { <<"kotlin/Pair",
         {"getFirst()Object", "getSecond", "component1", "component2",
          "<init>(Object,Object)V"}>>,
      <<"kotlin/TuplesKt",
         {"to(Object,Object)Pair", "to(Object,Object,Object)Triple"}>>,
      <<"kotlin/Triple",
         {"getFirst()Object", "getSecond", "getThird", "component1", "component2",
          "component3", "<init>(Object,Object,Object)V"}>> }

(* kotlin/unsigned.rs, 55 to 129 *)
unsigned_TABLE ==
    { <<"kotlin/UInt",
         {"constructor-impl(I)I", "box-impl(I)UInt", "unbox-impl()I",
          "toString-impl(I)String", "hashCode-impl"}>>,
      <<"kotlin/ULong", {"constructor-impl(J)J"}>>,
      <<"kotlin/UnsignedKt", {"uintToDouble"}>>,
      <<"kotlin/UByte", {"constructor-impl(B)B", "unbox-impl()B"}>>,
      <<"kotlin/UByteArray", {"box-impl([B)UByteArray"}>>,
      <<"kotlin/UIntArray", {"get-pVg5ArA", "getSize-impl"}>>,
      <<"kotlin/random/URandomKt", {"nextUBytes"}>> }

(* kotlinx/coroutines.rs, 181 to 210 *)
coroutines_TABLE ==
    { <<"kotlinx/coroutines/CoroutineScopeKt",
         {"CoroutineScope", "coroutineScope",
          "cancel$default(CoroutineScope,CancellationException,I,Object)V",
          "cancel$default(CoroutineScope,Throwable,I,Object)V", "isActive"}>>,
      <<"kotlinx/coroutines/GlobalScope", {"getInstance()GlobalScope"}>>,
      <<"kotlinx/coroutines/Dispatchers", {"getIO", "getMain"}>>,
      <<"kotlinx/coroutines/BuildersKt",
         {"runBlockingK", "runBlockingK$default", "launch$default", "async$default",
          "withContext"}>>,
      <<"kotlinx/coroutines/TimeoutKt", {"withTimeout-KLykuaI"}>>,
      <<"kotlinx/coroutines/CompletableDeferredKt", {"CompletableDeferred$default"}>>,
      <<"kotlinx/coroutines/Deferred", {"await(Continuation)Object"}>>,
      <<"kotlinx/coroutines/AwaitKt", {"awaitAll"}>>,
      <<"kotlinx/coroutines/sync/MutexKt", {"Mutex$default"}>>,
      <<"kotlinx/coroutines/sync/Mutex",
         {"lock(Continuation)Object", "tryLock", "unlock", "isLocked"}>>,
      <<"kotlinx/coroutines/SupervisorKt",
         {"SupervisorJob$default", "supervisorScope"}>>,
      <<"kotlinx/coroutines/Job",
         {"cancel$default(Job,CancellationException,I,Object)V"}>>,
      <<"kotlinx/coroutines/MainCoroutineDispatcher", {"getImmediate"}>>,
      <<"kotlinx/coroutines/DelayKt", {"delay", "delay-VtjQ1oo"}>> }

(* The tables that every build has. *)
KotlinTables ==
    kotlin_collections_TABLE_1 \cup kotlin_collections_TABLE_2 \cup
    intrinsics_TABLE \cup io_TABLE \cup jvm_TABLE \cup lazy_TABLE \cup
    ranges_TABLE_1 \cup ranges_TABLE_2 \cup result_TABLE \cup sequences_TABLE_1 \cup
    sequences_TABLE_2 \cup support_TABLE \cup KOTLIN_TABLE \cup time_TABLE \cup
    tuples_TABLE \cup unsigned_TABLE \cup coroutines_TABLE

=============================================================================
